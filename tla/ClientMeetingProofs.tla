------------------------- MODULE ClientMeetingProofs -------------------------
(***************************************************************************)
(* Theorems about ClientMeeting, for any peers, meetings, roles and bounds *)
(* that MeetingAssumption allows.                                          *)
(***************************************************************************)
EXTENDS ClientMeeting, SequenceTheorems, TLAPS

(* Sequences and what is in them *)

Elements(s) == {s[i] : i \in DOMAIN s}

LEMMA Appended ==
  ASSUME NEW S, NEW s \in Seq(S), NEW e \in S
  PROVE  /\ Append(s, e) \in Seq(S)
         /\ Elements(Append(s, e)) = Elements(s) \cup {e}
<1>1. Len(s) \in Nat /\ DOMAIN s = 1..Len(s)
  BY LenProperties
<1>2. /\ Append(s, e) \in Seq(S)
      /\ Len(Append(s, e)) = Len(s) + 1
      /\ \A i \in 1..Len(s) : Append(s, e)[i] = s[i]
      /\ Append(s, e)[Len(s) + 1] = e
  BY AppendProperties
<1>3. DOMAIN Append(s, e) = (1..Len(s)) \cup {Len(s) + 1}
  <2>1. DOMAIN Append(s, e) = 1..Len(Append(s, e))
    BY <1>2, LenProperties
  <2>. QED  BY <1>1, <1>2, <2>1
<1>. QED  BY <1>1, <1>2, <1>3 DEF Elements

LEMMA Taken ==
  ASSUME NEW S, NEW s \in Seq(S), s # <<>>
  PROVE  /\ Head(s) \in S /\ Tail(s) \in Seq(S)
         /\ Elements(s) = Elements(Tail(s)) \cup {Head(s)}
<1>1. Len(s) \in Nat /\ DOMAIN s = 1..Len(s) /\ Len(s) # 0
  BY LenProperties, EmptySeq
<1>2. /\ Head(s) \in S /\ Tail(s) \in Seq(S)
      /\ Head(s) = s[1]
      /\ Len(Tail(s)) = Len(s) - 1
      /\ \A i \in 1..Len(Tail(s)) : Tail(s)[i] = s[i + 1]
  BY HeadTailProperties
<1>3. DOMAIN Tail(s) = 1..(Len(s) - 1)
  <2>1. DOMAIN Tail(s) = 1..Len(Tail(s))
    BY <1>2, LenProperties
  <2>. QED  BY <1>2, <2>1
<1>4. ASSUME NEW i \in DOMAIN s  PROVE s[i] \in Elements(Tail(s)) \cup {Head(s)}
  <2>1. CASE i = 1
    BY <1>2, <2>1
  <2>2. CASE i # 1
    <3>1. i - 1 \in DOMAIN Tail(s) /\ Tail(s)[i - 1] = s[i]
      <4>1. i - 1 \in 1..(Len(s) - 1)
        BY <1>1, <2>2
      <4>2. Tail(s)[i - 1] = s[(i - 1) + 1]
        BY <1>2, <4>1
      <4>. QED  BY <1>1, <1>3, <4>1, <4>2
    <3>. QED  BY <3>1 DEF Elements
  <2>. QED  BY <2>1, <2>2
<1>5. ASSUME NEW i \in DOMAIN Tail(s)  PROVE Tail(s)[i] \in Elements(s)
  <2>1. i + 1 \in DOMAIN s /\ Tail(s)[i] = s[i + 1]
    BY <1>1, <1>2, <1>3, <1>5
  <2>. QED  BY <2>1 DEF Elements
<1>6. Head(s) \in Elements(s)
  BY <1>1, <1>2 DEF Elements
<1>. QED  BY <1>2, <1>4, <1>5, <1>6 DEF Elements

\* The last box is closed.
LEMMA LastTaken ==
  ASSUME NEW S, NEW s \in Seq(S), s # <<>>
  PROVE  /\ SubSeq(s, 1, Len(s) - 1) \in Seq(S)
         /\ s[Len(s)] \in S
         /\ Elements(s) = Elements(SubSeq(s, 1, Len(s) - 1)) \cup {s[Len(s)]}
<1>1. Len(s) \in Nat \ {0} /\ DOMAIN s = 1..Len(s) /\ \A i \in 1..Len(s) : s[i] \in S
  BY LenProperties, EmptySeq
<1> DEFINE f == SubSeq(s, 1, Len(s) - 1)
<1>2. /\ f \in Seq(S) /\ Len(f) = Len(s) - 1
      /\ \A i \in 1..(Len(s) - 1) : f[i] = s[i]
  BY <1>1
<1>3. DOMAIN f = 1..(Len(s) - 1)
  BY <1>2, LenProperties
<1>. HIDE DEF f
<1>4. DOMAIN s = (1..(Len(s) - 1)) \cup {Len(s)}
  BY <1>1
<1>5. Elements(s) = Elements(f) \cup {s[Len(s)]}
  BY <1>2, <1>3, <1>4 DEF Elements
<1>. QED  BY <1>1, <1>2, <1>5 DEF f

\* The last box is replaced.
LEMMA LastReplaced ==
  ASSUME NEW S, NEW s \in Seq(S), s # <<>>, NEW e \in S
  PROVE  /\ [s EXCEPT ![Len(s)] = e] \in Seq(S)
         /\ e \in Elements([s EXCEPT ![Len(s)] = e])
         /\ Elements(s) \subseteq Elements([s EXCEPT ![Len(s)] = e]) \cup {s[Len(s)]}
         /\ Elements([s EXCEPT ![Len(s)] = e]) \subseteq Elements(s) \cup {e}
<1>1. Len(s) \in Nat \ {0} /\ DOMAIN s = 1..Len(s) /\ Len(s) \in DOMAIN s
  BY LenProperties, EmptySeq
<1> DEFINE g == [s EXCEPT ![Len(s)] = e]
<1>2. /\ DOMAIN g = DOMAIN s
      /\ \A i \in DOMAIN s : g[i] = IF i = Len(s) THEN e ELSE s[i]
  BY <1>1
<1>3. g \in Seq(S)
  BY <1>1, ExceptSeq
<1>. HIDE DEF g
<1>4. e \in Elements(g)
  BY <1>1, <1>2 DEF Elements
<1>5. Elements(s) \subseteq Elements(g) \cup {s[Len(s)]}
  BY <1>1, <1>2 DEF Elements
<1>6. Elements(g) \subseteq Elements(s) \cup {e}
  BY <1>1, <1>2 DEF Elements
<1>. QED  BY <1>3, <1>4, <1>5, <1>6 DEF g

LEMMA TwoAppended ==
  ASSUME NEW S, NEW s \in Seq(S), NEW a \in S, NEW b \in S
  PROVE  s \o <<a, b>> = Append(Append(s, a), b)
  OBVIOUS

LEMMA NothingIn == Elements(<<>>) = {}
  BY DEF Elements

LEMMA NotAfter == \A n \in Nat : n <= n
  OBVIOUS

-----------------------------------------------------------------------------
(* Types *)

Requests == {"CREATE_MEETING", "JOIN_MEETING", "TEXT_SEND"} \X (Meetings \cup {0})

\* What the window is told, with the argument each kind of event has.
Notes ==
    {n \in [kind : Kinds, arg : Meetings \cup {0, -1} \cup Peers \cup SUBSET Peers, session : Nat] :
       /\ n.kind = "created" => n.arg \in Meetings \cup {0}
       /\ n.kind = "members" => n.arg \in SUBSET Peers
       /\ n.kind \in {"enters", "leaves"} => n.arg \in Peers}

UiTypes ==
    /\ role \in Roles
    /\ enabled \subseteq Buttons
    /\ boxes \in Seq(Boxes)
    /\ createmeet \in BOOLEAN
    /\ joinmeet \in BOOLEAN
    /\ partners \subseteq Peers \cup {Me}
    /\ meetno \in Meetings \cup {0}

ConnTypes ==
    /\ conn \in {"off", "up", "lost"}
    /\ roomNo \in Meetings \cup {0}
    /\ session \in Nat

QueueTypes ==
    /\ textqueue \in Seq(Requests)
    /\ out \in Seq(Requests)
    /\ inq \in Seq(Notes)
    /\ posted \in Seq(Notes)

SrvTypes ==
    /\ srv \in Meetings \cup {0, -1}
    /\ members \subseteq Peers

\* Every event is of this connection or an earlier one; without a connection only the
\* news that there is none is on its way.
NotesOfSessions ==
    /\ \A n \in Elements(inq) \cup Elements(posted) : n.session <= session
    /\ conn = "off" => \A n \in Elements(inq) : n.kind = "error"

\* The button for connecting is enabled under a connection only until on_connServer_clicked
\* has gone on after its boxes.
ConnectEnds ==
    "connect" \in enabled /\ conn # "off" => Elements(boxes) \cap {"connected", "no create"} # {}

\* While the send button is disabled a text is on its way, or what enables the button: the
\* end of a text or of a reconnection, or the box of on_connServer_clicked.
SendPending ==
    conn # "off" /\ "send" \notin enabled =>
        \/ \E m \in Elements(textqueue) \cup Elements(out) : m[1] = "TEXT_SEND"
        \/ \E n \in Elements(posted) : n.kind \in {"text sent", "reconnected"}
        \/ Elements(boxes) \cap {"connected", "no create"} # {}

WindowInv ==
    /\ UiTypes /\ ConnTypes /\ QueueTypes /\ SrvTypes
    /\ tangled \in BOOLEAN /\ erred \in BOOLEAN
    /\ NotesOfSessions /\ ConnectEnds /\ SendPending

LEMMA RequestTyped ==
  ASSUME NEW k \in {"CREATE_MEETING", "JOIN_MEETING", "TEXT_SEND"}, NEW a \in Meetings \cup {0}
  PROVE  <<k, a>> \in Requests /\ <<k, a>>[1] = k /\ <<k, a>>[2] = a
  BY DEF Requests

LEMMA NoteTyped ==
  ASSUME NEW s \in Nat, NEW k \in Kinds,
         NEW a \in Meetings \cup {0, -1} \cup Peers \cup SUBSET Peers,
         k = "created" => a \in Meetings \cup {0},
         k = "members" => a \in SUBSET Peers,
         k \in {"enters", "leaves"} => a \in Peers
  PROVE  /\ NoteOf(s, k, a) \in Notes
         /\ NoteOf(s, k, a).kind = k
         /\ NoteOf(s, k, a).arg = a
         /\ NoteOf(s, k, a).session = s
  BY DEF NoteOf, Notes

\* What the server answers is of the connection it answers on.
LEMMA AnswerTyped ==
  ASSUME QueueTypes, SrvTypes, NEW s \in Nat, NEW type, NEW r \in Meetings \cup {0},
         Answer(s, type, r)
  PROVE  /\ inq' \in Seq(Notes)
         /\ SrvTypes'
         /\ \A n \in Elements(inq') : n \in Elements(inq) \/ n.session = s
<1>1. ASSUME NEW n \in Notes, n.session = s, inq' = Append(inq, n)
      PROVE  /\ inq' \in Seq(Notes)
             /\ \A m \in Elements(inq') : m \in Elements(inq) \/ m.session = s
  BY <1>1, Appended DEF QueueTypes
<1>2. ASSUME NEW n \in Notes, NEW m \in Notes, n.session = s, m.session = s, inq' = inq \o <<n, m>>
      PROVE  /\ inq' \in Seq(Notes)
             /\ \A k \in Elements(inq') : k \in Elements(inq) \/ k.session = s
  <2> DEFINE one == Append(inq, n)
  <2>1. inq' = Append(one, m)
    BY <1>2, TwoAppended DEF QueueTypes
  <2>2. one \in Seq(Notes) /\ Elements(one) = Elements(inq) \cup {n}
    BY Appended DEF QueueTypes
  <2>. HIDE DEF one
  <2>3. inq' \in Seq(Notes) /\ Elements(inq') = Elements(one) \cup {m}
    BY <2>1, <2>2, Appended
  <2>. QED  BY <1>2, <2>2, <2>3
<1>3. ASSUME NEW n \in Meetings \cup {0}
      PROVE  NoteOf(s, "created", n) \in Notes /\ NoteOf(s, "created", n).session = s
  <2>1. "created" \in Kinds /\ n \in Meetings \cup {0, -1} \cup Peers \cup SUBSET Peers
    BY DEF Kinds
  <2>. QED  BY <2>1, NoteTyped
<1>4. ASSUME NEW n \in Meetings \cup {0, -1}
      PROVE  NoteOf(s, "joined", n) \in Notes /\ NoteOf(s, "joined", n).session = s
  <2>1. "joined" \in Kinds /\ n \in Meetings \cup {0, -1} \cup Peers \cup SUBSET Peers
    BY DEF Kinds
  <2>. QED  BY <2>1, NoteTyped
<1>5. ASSUME NEW S \in SUBSET Peers
      PROVE  NoteOf(s, "members", S) \in Notes /\ NoteOf(s, "members", S).session = s
  <2>1. "members" \in Kinds /\ S \in Meetings \cup {0, -1} \cup Peers \cup SUBSET Peers
    BY DEF Kinds
  <2>. QED  BY <2>1, NoteTyped
<1>6. CASE srv = 0 /\ type = "CREATE_MEETING"
  <2>1. SrvTypes' /\ \E n \in Meetings \cup {0} : inq' = Append(inq, NoteOf(s, "created", n))
    BY <1>6 DEF Answer, SrvTypes
  <2>. QED  BY <1>1, <1>3, <2>1
<1>7. CASE srv = 0 /\ type = "JOIN_MEETING"
  <2>1. /\ SrvTypes'
        /\ \/ \E c \in {0, -1} : inq' = Append(inq, NoteOf(s, "joined", c))
           \/ \E S \in SUBSET Peers :
                 \/ inq' = inq \o <<NoteOf(s, "joined", r), NoteOf(s, "members", S)>>
                 \/ inq' = inq \o <<NoteOf(s, "members", S), NoteOf(s, "joined", r)>>
    BY <1>7 DEF Answer, SrvTypes
  <2>. QED  BY <1>1, <1>2, <1>4, <1>5, <2>1
<1>8. CASE srv # 0 \/ type = "TEXT_SEND"
  <2>1. /\ inq' = inq
        /\ (srv' = srv /\ members' = members) \/ (srv' = -1 /\ members' = {})
    BY <1>8 DEF Answer
  <2>. QED  BY <2>1 DEF QueueTypes, SrvTypes
<1>. QED  BY <1>6, <1>7, <1>8 DEF Answer

-----------------------------------------------------------------------------
(* The user's clicks *)

\* Steps that take nothing away keep what the buttons rest on.
LEMMA ButtonsKept ==
  ASSUME ConnectEnds, SendPending,
         conn' # "off" => conn # "off",
         conn' # "off" /\ "connect" \in enabled' => "connect" \in enabled,
         "send" \in enabled => "send" \in enabled',
         Elements(boxes) \subseteq Elements(boxes'),
         Elements(textqueue) \cup Elements(out) \subseteq Elements(textqueue') \cup Elements(out'),
         Elements(posted) \subseteq Elements(posted')
  PROVE  ConnectEnds' /\ SendPending'
  BY DEF ConnectEnds, SendPending

LEMMA BoxPushed ==
  ASSUME UiTypes, NEW b \in Boxes, Push(b)
  PROVE  boxes' \in Seq(Boxes) /\ Elements(boxes') = Elements(boxes) \cup {b}
  BY Appended DEF UiTypes, Push

LEMMA TextPushed ==
  ASSUME QueueTypes, NEW k \in {"CREATE_MEETING", "JOIN_MEETING", "TEXT_SEND"},
         NEW a \in Meetings \cup {0}, PushText(k, a)
  PROVE  /\ textqueue' \in Seq(Requests)
         /\ Elements(textqueue) \subseteq Elements(textqueue')
         /\ <<k, a>> \in Elements(textqueue') /\ <<k, a>>[1] = k
  BY Appended, RequestTyped DEF QueueTypes, PushText

\* News of the connection.
LEMMA NewsAppended ==
  ASSUME ConnTypes, QueueTypes, NEW k \in {"closed", "error"}
  PROVE  /\ Append(inq, Note(k, 0)) \in Seq(Notes)
         /\ Elements(Append(inq, Note(k, 0))) = Elements(inq) \cup {Note(k, 0)}
         /\ Note(k, 0).kind = k /\ Note(k, 0).session = session
<1>1. k \in Kinds /\ 0 \in Meetings \cup {0, -1} \cup Peers \cup SUBSET Peers /\ session \in Nat
  BY DEF Kinds, ConnTypes
<1>2. Note(k, 0) \in Notes /\ Note(k, 0).kind = k /\ Note(k, 0).session = session
  BY <1>1, NoteTyped DEF Note
<1>. QED  BY <1>2, Appended DEF QueueTypes

LEMMA ConnectStep ==
  ASSUME WindowInv, ClickConnect
  PROVE  WindowInv'
<1>1. /\ UiTypes /\ ConnTypes /\ QueueTypes /\ SrvTypes /\ NotesOfSessions
      /\ ConnectEnds /\ SendPending
  BY DEF WindowInv
<1>2. /\ UNCHANGED <<role, createmeet, joinmeet, partners, meetno, roomNo, session, textqueue,
                     out, posted, srv, members, tangled, erred>>
      /\ enabled' \subseteq Buttons
      /\ \E b \in {"connected", "no create", "refused"} :
            Push(b) /\ (b = "refused" => enabled' = enabled /\ conn' = conn)
                    /\ (b # "refused" => conn' = "up")
      /\ \/ inq' = inq /\ conn' = "up"
         \/ inq' = Append(inq, Note("error", 0)) /\ conn' = conn
  BY <1>1 DEF ClickConnect, srvVars, UiTypes, Buttons
<1>3. PICK b \in {"connected", "no create", "refused"} :
         Push(b) /\ (b = "refused" => enabled' = enabled /\ conn' = conn)
                 /\ (b # "refused" => conn' = "up")
  BY <1>2
<1>4. boxes' \in Seq(Boxes) /\ Elements(boxes') = Elements(boxes) \cup {b}
  BY <1>1, <1>3, BoxPushed DEF Boxes
<1>5. inq' \in Seq(Notes) /\ NotesOfSessions'
  <2>1. CASE inq' = inq /\ conn' = "up"
    BY <1>1, <1>2, <2>1 DEF NotesOfSessions, QueueTypes
  <2>2. CASE inq' = Append(inq, Note("error", 0)) /\ conn' = conn
    <3>1. /\ inq' \in Seq(Notes) /\ Elements(inq') = Elements(inq) \cup {Note("error", 0)}
          /\ Note("error", 0).kind = "error" /\ Note("error", 0).session = session
      BY <1>1, <2>2, NewsAppended
    <3>2. session \in Nat
      BY <1>1 DEF ConnTypes
    <3>3. session <= session
      BY <3>2, NotAfter
    <3>. QED  BY <1>1, <1>2, <2>2, <3>1, <3>3 DEF NotesOfSessions
  <2>. QED  BY <1>2, <2>1, <2>2
<1>6. ConnectEnds' /\ SendPending'
  <2>1. CASE b = "refused"
    BY <1>1, <1>2, <1>3, <1>4, <2>1, ButtonsKept
  <2>2. CASE b # "refused"
    BY <1>3, <1>4, <2>2 DEF ConnectEnds, SendPending
  <2>. QED  BY <2>1, <2>2
<1>7. UiTypes' /\ ConnTypes' /\ QueueTypes' /\ SrvTypes'
  BY <1>1, <1>2, <1>4, <1>5 DEF UiTypes, ConnTypes, QueueTypes, SrvTypes
<1>. QED  BY <1>2, <1>5, <1>6, <1>7 DEF WindowInv

LEMMA RequestStep ==
  ASSUME WindowInv, EditMeetno \/ ClickCreate \/ ClickJoin \/ ClickSend
  PROVE  WindowInv'
<1>1. /\ UiTypes /\ ConnTypes /\ QueueTypes /\ SrvTypes /\ NotesOfSessions
      /\ ConnectEnds /\ SendPending
  BY DEF WindowInv
<1>2. /\ UNCHANGED <<role, createmeet, joinmeet, partners, conn, roomNo, session,
                     out, inq, posted, srv, members, tangled, erred>>
      /\ enabled' \subseteq enabled
      /\ meetno' \in Meetings \cup {0}
  BY <1>1 DEF EditMeetno, ClickCreate, AskForMeeting, ClickJoin, ClickSend, uiVars, connVars,
              queueVars, srvVars, history, UiTypes
<1>3. boxes' \in Seq(Boxes) /\ Elements(boxes) \subseteq Elements(boxes')
  <2>1. boxes' = boxes \/ Push("no right")
    BY DEF EditMeetno, ClickCreate, ClickJoin, ClickSend, uiVars
  <2>. QED  BY <1>1, <2>1, BoxPushed DEF Boxes, UiTypes
<1>4. textqueue' \in Seq(Requests) /\ Elements(textqueue) \subseteq Elements(textqueue')
  <2>1. \/ textqueue' = textqueue \/ PushText("CREATE_MEETING", 0)
        \/ PushText("JOIN_MEETING", meetno) \/ PushText("TEXT_SEND", 0)
    BY DEF EditMeetno, ClickCreate, AskForMeeting, ClickJoin, ClickSend, queueVars
  <2>2. meetno \in Meetings \cup {0}
    BY <1>1 DEF UiTypes
  <2>. QED  BY <1>1, <2>1, <2>2, TextPushed DEF QueueTypes
<1>5. "send" \in enabled' \/ "send" \notin enabled
      \/ \E m \in Elements(textqueue') : m[1] = "TEXT_SEND"
  <2>1. CASE ClickSend
    BY <1>1, <2>1, TextPushed DEF ClickSend
  <2>2. CASE EditMeetno \/ ClickCreate \/ ClickJoin
    BY <2>2 DEF EditMeetno, ClickCreate, AskForMeeting, ClickJoin, uiVars
  <2>. QED  BY <2>1, <2>2
<1>6. ConnectEnds' /\ NotesOfSessions'
  BY <1>1, <1>2, <1>3 DEF ConnectEnds, NotesOfSessions
<1>7. SendPending'
  BY <1>1, <1>2, <1>3, <1>4, <1>5 DEF SendPending
<1>8. UiTypes' /\ ConnTypes' /\ QueueTypes' /\ SrvTypes'
  BY <1>1, <1>2, <1>3, <1>4 DEF UiTypes, ConnTypes, QueueTypes, SrvTypes
<1>. QED  BY <1>2, <1>6, <1>7, <1>8 DEF WindowInv

\* Who disconnects is told nothing more but what is posted already.
LEMMA Disconnected ==
  ASSUME WindowInv, DisconnectFromHost
  PROVE  /\ ConnectEnds' /\ SendPending'
         /\ Elements(posted') \subseteq Elements(posted) => NotesOfSessions'
         /\ out' \in Seq(Requests) /\ inq' \in Seq(Notes) /\ SrvTypes'
         /\ conn' = "off" /\ session' \in Nat
<1>1. /\ conn' = "off" /\ session' = session + 1 /\ out' = <<>> /\ inq' = <<>> /\ srv' = 0
      /\ members' = {}
  BY DEF DisconnectFromHost
<1>2. session \in Nat /\ \A n \in Elements(posted) : n \in Notes /\ n.session <= session
  <2>1. \A i \in DOMAIN posted : posted[i] \in Notes
    BY LenProperties DEF WindowInv, QueueTypes
  <2>. QED  BY <2>1 DEF WindowInv, ConnTypes, NotesOfSessions, Elements
<1>3. \A n \in Elements(posted) : n.session <= session'
  BY <1>1, <1>2 DEF Notes
<1>4. Elements(inq') = {}
  BY <1>1, NothingIn
<1>. QED  BY <1>1, <1>2, <1>3, <1>4, EmptySeq DEF ConnectEnds, SendPending, NotesOfSessions, SrvTypes

LEMMA ExitStep ==
  ASSUME WindowInv, ClickExit
  PROVE  WindowInv'
<1>1. UiTypes /\ ConnTypes /\ QueueTypes
  BY DEF WindowInv
<1>2. /\ UNCHANGED <<role, meetno, textqueue, posted, tangled, erred>>
      /\ enabled' \subseteq Buttons /\ createmeet' = FALSE /\ joinmeet' = FALSE /\ partners' = {}
      /\ roomNo' = 0 /\ DisconnectFromHost /\ Push("left")
  BY <1>1 DEF ClickExit, history, UiTypes, Buttons
<1>3. boxes' \in Seq(Boxes)
  BY <1>1, <1>2, BoxPushed DEF Boxes
<1>4. /\ ConnectEnds' /\ SendPending' /\ NotesOfSessions'
      /\ out' \in Seq(Requests) /\ inq' \in Seq(Notes) /\ SrvTypes'
      /\ conn' = "off" /\ session' \in Nat
  BY <1>2, Disconnected
<1>5. UiTypes' /\ ConnTypes' /\ QueueTypes'
  BY <1>1, <1>2, <1>3, <1>4 DEF UiTypes, ConnTypes, QueueTypes
<1>. QED  BY <1>2, <1>4, <1>5 DEF WindowInv

-----------------------------------------------------------------------------
(* The threads *)

\* What is told of a text or of a reconnection.
LEMMA NewsPosted ==
  ASSUME QueueTypes, NEW k \in {"text sent", "reconnected"}, NEW c \in Nat
  PROVE  /\ Append(posted, NoteOf(c, k, 0)) \in Seq(Notes)
         /\ Elements(Append(posted, NoteOf(c, k, 0))) = Elements(posted) \cup {NoteOf(c, k, 0)}
         /\ NoteOf(c, k, 0).kind = k /\ NoteOf(c, k, 0).session = c
<1>1. /\ k \in Kinds /\ k \notin {"created", "members", "enters", "leaves"}
      /\ 0 \in Meetings \cup {0, -1} \cup Peers \cup SUBSET Peers
  BY DEF Kinds
<1>2. NoteOf(c, k, 0) \in Notes /\ NoteOf(c, k, 0).kind = k /\ NoteOf(c, k, 0).session = c
  BY <1>1 DEF NoteOf, Notes
<1>3. posted \in Seq(Notes)
  BY DEF QueueTypes
<1>4. \A n \in Notes : /\ Append(posted, n) \in Seq(Notes)
                       /\ Elements(Append(posted, n)) = Elements(posted) \cup {n}
  BY <1>3, Appended
<1>. QED  BY <1>2, <1>4

\* The window's side does not change while the threads work.
LEMMA WindowLeft ==
  ASSUME WindowInv, UNCHANGED uiVars, UNCHANGED <<tangled, erred>>,
         ConnTypes', QueueTypes', SrvTypes', NotesOfSessions', SendPending',
         conn' # "off" => conn # "off"
  PROVE  WindowInv'
<1>1. UiTypes' /\ ConnectEnds'
  BY DEF WindowInv, uiVars, UiTypes, ConnectEnds
<1>. QED  BY <1>1 DEF WindowInv

LEMMA SendTextStep ==
  ASSUME WindowInv, SendTextRun
  PROVE  WindowInv'
<1>1. /\ QueueTypes /\ textqueue # <<>> /\ textqueue' = Tail(textqueue)
      /\ out' = Append(out, Head(textqueue))
      /\ UNCHANGED <<uiVars, connVars, inq, posted, srvVars, tangled, erred>>
  BY DEF WindowInv, SendTextRun, history
<1>2. /\ Head(textqueue) \in Requests /\ textqueue' \in Seq(Requests)
      /\ Elements(textqueue) = Elements(textqueue') \cup {Head(textqueue)}
  BY <1>1, Taken DEF QueueTypes
<1>3. /\ out' \in Seq(Requests)
      /\ Elements(out') = Elements(out) \cup {Head(textqueue)}
  BY <1>1, <1>2, Appended DEF QueueTypes
<1>4. SendPending'
  BY <1>1, <1>2, <1>3 DEF SendPending, WindowInv, uiVars, connVars
<1>5. ConnTypes' /\ QueueTypes' /\ SrvTypes' /\ NotesOfSessions'
  BY <1>1, <1>2, <1>3
     DEF WindowInv, ConnTypes, QueueTypes, SrvTypes, NotesOfSessions, connVars, srvVars
<1>. QED  BY <1>1, <1>4, <1>5, WindowLeft DEF connVars

LEMMA RecvSolveStep ==
  ASSUME WindowInv, RecvSolveRun
  PROVE  WindowInv'
<1>1. /\ QueueTypes /\ inq # <<>> /\ inq' = Tail(inq)
      /\ posted' = Append(posted, Head(inq))
      /\ UNCHANGED <<uiVars, connVars, textqueue, out, srvVars, tangled, erred>>
  BY DEF WindowInv, RecvSolveRun, history
<1>2. /\ Head(inq) \in Notes /\ inq' \in Seq(Notes)
      /\ Elements(inq) = Elements(inq') \cup {Head(inq)}
  BY <1>1, Taken DEF QueueTypes
<1>3. /\ posted' \in Seq(Notes)
      /\ Elements(posted') = Elements(posted) \cup {Head(inq)}
  BY <1>1, <1>2, Appended DEF QueueTypes
<1>4. SendPending'
  BY <1>1, <1>3 DEF SendPending, WindowInv, uiVars, connVars
<1>5. ConnTypes' /\ QueueTypes' /\ SrvTypes' /\ NotesOfSessions'
  BY <1>1, <1>2, <1>3
     DEF WindowInv, ConnTypes, QueueTypes, SrvTypes, NotesOfSessions, connVars, srvVars
<1>. QED  BY <1>1, <1>4, <1>5, WindowLeft DEF connVars

\* The request taken from queue_send.
LEMMA RequestTaken ==
  ASSUME QueueTypes, out # <<>>
  PROVE  /\ Head(out)[1] \in {"CREATE_MEETING", "JOIN_MEETING", "TEXT_SEND"}
         /\ Head(out)[2] \in Meetings \cup {0}
         /\ Tail(out) \in Seq(Requests)
         /\ Elements(out) = Elements(Tail(out)) \cup {Head(out)}
<1>1. /\ Head(out) \in Requests /\ Tail(out) \in Seq(Requests)
      /\ Elements(out) = Elements(Tail(out)) \cup {Head(out)}
  BY Taken DEF QueueTypes
<1>. QED  BY <1>1 DEF Requests

\* A message leaves queue_send: if it was a text, the window is told.
LEMMA MessageTaken ==
  ASSUME WindowInv, conn # "off", out # <<>>, out' = Tail(out),
         UNCHANGED <<uiVars, connVars, textqueue, tangled, erred>>,
         \/ posted' = Append(posted, Note("text sent", 0))
         \/ Head(out)[1] # "TEXT_SEND" /\ posted' = posted,
         inq' \in Seq(Notes), SrvTypes',
         \A n \in Elements(inq') : n \in Elements(inq) \/ n.session = session
  PROVE  WindowInv'
<1>1. QueueTypes /\ session \in Nat /\ NotesOfSessions /\ SendPending
  BY DEF WindowInv, ConnTypes
<1>2. out' \in Seq(Requests) /\ Elements(out) = Elements(out') \cup {Head(out)}
  BY <1>1, RequestTaken
<1>3. /\ Append(posted, Note("text sent", 0)) \in Seq(Notes)
      /\ Elements(Append(posted, Note("text sent", 0)))
            = Elements(posted) \cup {Note("text sent", 0)}
      /\ Note("text sent", 0).kind = "text sent" /\ Note("text sent", 0).session = session
  BY <1>1, NewsPosted DEF Note
<1>4. posted' \in Seq(Notes) /\ \A n \in Elements(posted') : n \in Elements(posted) \/ n.session = session
  BY <1>1, <1>3 DEF QueueTypes
<1>5. session <= session
  BY <1>1, NotAfter
<1>6. NotesOfSessions'
  BY <1>1, <1>4, <1>5 DEF NotesOfSessions, connVars
<1>7. SendPending'
  BY <1>1, <1>2, <1>3 DEF SendPending, uiVars, connVars
<1>8. ConnTypes' /\ QueueTypes'
  BY <1>1, <1>2, <1>4 DEF WindowInv, ConnTypes, QueueTypes, connVars
<1>. QED  BY <1>6, <1>7, <1>8, WindowLeft DEF connVars

LEMMA SendDataStep ==
  ASSUME WindowInv, SendData
  PROVE  WindowInv'
<1>1. /\ QueueTypes /\ SrvTypes /\ session \in Nat
  BY DEF WindowInv, ConnTypes
<1>2. /\ conn # "off" /\ out # <<>> /\ out' = Tail(out)
      /\ Answer(session, Head(out)[1], Head(out)[2])
      /\ \/ posted' = Append(posted, Note("text sent", 0))
         \/ Head(out)[1] # "TEXT_SEND" /\ posted' = posted
      /\ UNCHANGED <<uiVars, connVars, textqueue, tangled, erred>>
  BY DEF SendData, history
<1>3. Head(out)[2] \in Meetings \cup {0}
  BY <1>1, <1>2, RequestTaken
<1>4. /\ inq' \in Seq(Notes) /\ SrvTypes'
      /\ \A n \in Elements(inq') : n \in Elements(inq) \/ n.session = session
  BY <1>1, <1>2, <1>3, AnswerTyped
<1>. QED  BY <1>2, <1>4, MessageTaken

LEMMA DropDataStep ==
  ASSUME WindowInv, DropData
  PROVE  WindowInv'
<1>1. /\ conn # "off" /\ out # <<>> /\ out' = Tail(out)
      /\ \/ posted' = Append(posted, Note("text sent", 0))
         \/ Head(out)[1] # "TEXT_SEND" /\ posted' = posted
      /\ UNCHANGED <<uiVars, connVars, textqueue, tangled, erred>>
      /\ UNCHANGED <<inq, srvVars>>
  BY DEF DropData, history
<1>2. inq' \in Seq(Notes) /\ SrvTypes'
      /\ \A n \in Elements(inq') : n \in Elements(inq) \/ n.session = session
  BY <1>1 DEF WindowInv, QueueTypes, SrvTypes, srvVars
<1>. QED  BY <1>1, <1>2, MessageTaken

LEMMA ReconnectStep ==
  ASSUME WindowInv, Reconnect
  PROVE  WindowInv'
<1>1. /\ ConnTypes /\ QueueTypes /\ SrvTypes /\ NotesOfSessions /\ session \in Nat
      /\ roomNo \in Meetings \cup {0}
  BY DEF WindowInv, ConnTypes
<1>2. /\ conn = "lost" /\ conn' = "up" /\ session' = session + 1
      /\ posted' = Append(posted, NoteOf(session', "reconnected", 0))
      /\ \/ Answer(session', "JOIN_MEETING", roomNo)
         \/ UNCHANGED <<srvVars, inq>>
      /\ UNCHANGED <<uiVars, roomNo, textqueue, out, tangled, erred>>
  BY DEF Reconnect, history
<1>3. session' \in Nat
  BY <1>1, <1>2
<1>4. /\ inq' \in Seq(Notes) /\ SrvTypes'
      /\ \A n \in Elements(inq') : n \in Elements(inq) \/ n.session = session'
  <2>1. CASE Answer(session', "JOIN_MEETING", roomNo)
    BY <1>1, <1>3, <2>1, AnswerTyped
  <2>2. CASE UNCHANGED <<srvVars, inq>>
    BY <1>1, <2>2 DEF QueueTypes, SrvTypes, srvVars
  <2>. QED  BY <1>2, <2>1, <2>2
<1>5. /\ posted' \in Seq(Notes)
      /\ Elements(posted') = Elements(posted) \cup {NoteOf(session', "reconnected", 0)}
      /\ NoteOf(session', "reconnected", 0).kind = "reconnected"
      /\ NoteOf(session', "reconnected", 0).session = session'
  BY <1>1, <1>2, <1>3, NewsPosted
<1>6. NotesOfSessions'
  <2>1. \A n \in Notes : n.session \in Nat
    BY DEF Notes
  <2>2. \A n \in Elements(inq') \cup Elements(posted') : n.session \in Nat
    <3>1. \A i \in DOMAIN inq' : inq'[i] \in Notes
      BY <1>4, LenProperties
    <3>2. \A i \in DOMAIN posted' : posted'[i] \in Notes
      BY <1>5, LenProperties
    <3>. QED  BY <2>1, <3>1, <3>2 DEF Elements
  <2>3. ASSUME NEW n \in Elements(inq') \cup Elements(posted')
        PROVE  n.session <= session'
    <3>1. n.session <= session \/ n.session = session'
      BY <1>1, <1>4, <1>5 DEF NotesOfSessions
    <3>2. n.session \in Nat
      BY <2>2
    <3>. QED  BY <1>1, <1>2, <3>1, <3>2
  <2>. QED  BY <1>2, <2>3 DEF NotesOfSessions
<1>7. SendPending'
  BY <1>5 DEF SendPending
<1>8. ConnTypes' /\ QueueTypes'
  BY <1>1, <1>2, <1>3, <1>4, <1>5 DEF ConnTypes, QueueTypes
<1>. QED  BY <1>2, <1>4, <1>6, <1>7, <1>8, WindowLeft

-----------------------------------------------------------------------------
(* The network and the server *)

LEMMA LoseStep ==
  ASSUME WindowInv, Lose
  PROVE  WindowInv'
<1>1. ConnTypes /\ QueueTypes /\ SrvTypes /\ NotesOfSessions /\ SendPending /\ session \in Nat
  BY DEF WindowInv, ConnTypes
<1>2. /\ conn = "up" /\ conn' = "lost" /\ srv' = 0 /\ members' = {}
      /\ inq' = inq \/ \E k \in {"closed", "error"} : inq' = Append(inq, Note(k, 0))
      /\ UNCHANGED <<uiVars, roomNo, session, textqueue, out, posted, tangled, erred>>
  BY DEF Lose
<1>3. /\ inq' \in Seq(Notes)
      /\ \A n \in Elements(inq') : n \in Elements(inq) \/ n.session = session
  BY <1>1, <1>2, NewsAppended DEF QueueTypes
<1>4. session <= session
  BY <1>1, NotAfter
<1>5. NotesOfSessions'
  BY <1>1, <1>2, <1>3, <1>4 DEF NotesOfSessions
<1>6. SendPending'
  BY <1>1, <1>2 DEF SendPending, uiVars
<1>7. ConnTypes' /\ QueueTypes' /\ SrvTypes'
  BY <1>1, <1>2, <1>3 DEF ConnTypes, QueueTypes, SrvTypes
<1>. QED  BY <1>2, <1>5, <1>6, <1>7, WindowLeft

LEMMA PeerStep ==
  ASSUME WindowInv, PeerComes
  PROVE  WindowInv'
<1>1. ConnTypes /\ QueueTypes /\ SrvTypes /\ NotesOfSessions /\ SendPending /\ session \in Nat
  BY DEF WindowInv, ConnTypes
<1>2. PICK p \in Peers :
         /\ members' = IF p \in members THEN members \ {p} ELSE members \cup {p}
         /\ inq' = Append(inq, Note(IF p \in members THEN "leaves" ELSE "enters", p))
  BY DEF PeerComes
<1>3. /\ conn = "up"
      /\ UNCHANGED <<uiVars, connVars, textqueue, out, posted, srv, tangled, erred>>
  BY DEF PeerComes
<1>4. /\ inq' \in Seq(Notes)
      /\ \A n \in Elements(inq') : n \in Elements(inq) \/ n.session = session
  <2> DEFINE k == IF p \in members THEN "leaves" ELSE "enters"
  <2>1. k \in Kinds \ {"created", "members"}
    BY DEF Kinds
  <2>. HIDE DEF k
  <2>2. p \in Meetings \cup {0, -1} \cup Peers \cup SUBSET Peers
    OBVIOUS
  <2>3. Note(k, p) \in Notes /\ Note(k, p).session = session
    BY <1>1, <2>1, <2>2, NoteTyped DEF Note
  <2>4. inq' = Append(inq, Note(k, p))
    BY <1>2 DEF k
  <2>. QED  BY <1>1, <2>3, <2>4, Appended DEF QueueTypes
<1>5. session <= session
  BY <1>1, NotAfter
<1>6. NotesOfSessions'
  BY <1>1, <1>3, <1>4, <1>5 DEF NotesOfSessions, connVars
<1>7. SendPending'
  BY <1>1, <1>3 DEF SendPending, uiVars, connVars
<1>8. ConnTypes' /\ QueueTypes' /\ SrvTypes'
  BY <1>1, <1>2, <1>3, <1>4 DEF ConnTypes, QueueTypes, SrvTypes, connVars
<1>. QED  BY <1>3, <1>6, <1>7, <1>8, WindowLeft DEF connVars

-----------------------------------------------------------------------------
(* The window's slots *)

LEMMA NoteTaken ==
  ASSUME QueueTypes, posted # <<>>
  PROVE  /\ Head(posted) \in Notes /\ Tail(posted) \in Seq(Notes)
         /\ Elements(posted) = Elements(Tail(posted)) \cup {Head(posted)}
  BY Taken DEF QueueTypes

\* A slot that leaves the connection as it is takes no button away but the one for
\* connecting, and gives the send button back for the news that promise it.
LEMMA SlotStep ==
  ASSUME WindowInv, posted # <<>>, posted' = Tail(posted),
         UNCHANGED <<conn, session, textqueue, out, inq, srv, members>>,
         UiTypes', roomNo' \in Meetings \cup {0}, tangled' \in BOOLEAN, erred' \in BOOLEAN,
         Elements(boxes) \subseteq Elements(boxes'),
         "connect" \in enabled' => "connect" \in enabled,
         "send" \in enabled => "send" \in enabled',
         Head(posted).kind \in {"text sent", "reconnected"} => "send" \in enabled'
  PROVE  WindowInv'
<1>1. /\ ConnTypes /\ QueueTypes /\ SrvTypes /\ NotesOfSessions /\ ConnectEnds /\ SendPending
  BY DEF WindowInv
<1>2. posted' \in Seq(Notes) /\ Elements(posted) = Elements(posted') \cup {Head(posted)}
  BY <1>1, NoteTaken
<1>3. NotesOfSessions'
  BY <1>1, <1>2 DEF NotesOfSessions
<1>4. ConnectEnds'
  BY <1>1 DEF ConnectEnds
<1>5. SendPending'
  BY <1>1, <1>2 DEF SendPending
<1>6. ConnTypes' /\ QueueTypes' /\ SrvTypes'
  BY <1>1, <1>2 DEF ConnTypes, QueueTypes, SrvTypes
<1>. QED  BY <1>3, <1>4, <1>5, <1>6 DEF WindowInv

LEMMA SendForSend == \A S : SendFor(S) \subseteq {"send"}
  BY DEF SendFor

LEMMA HandleStep ==
  ASSUME WindowInv, Handle
  PROVE  WindowInv'
<1> DEFINE n == Head(posted)
<1>1. /\ UiTypes /\ ConnTypes /\ QueueTypes /\ SrvTypes /\ NotesOfSessions
      /\ tangled \in BOOLEAN /\ erred \in BOOLEAN
  BY DEF WindowInv
<1>2. /\ posted # <<>> /\ posted' = Tail(posted)
      /\ UNCHANGED <<role, meetno, textqueue>>
      /\ tangled' \in BOOLEAN /\ erred' \in BOOLEAN
  BY DEF Handle
<1>3. /\ n \in Notes /\ posted' \in Seq(Notes)
      /\ Elements(posted) = Elements(posted') \cup {n}
  BY <1>1, <1>2, NoteTaken
<1>4. roomNo \in Meetings \cup {0} /\ meetno \in Meetings \cup {0}
  BY <1>1 DEF UiTypes, ConnTypes
<1>5. CASE n.kind = "created" /\ Created(n.arg)
  <2>1. n.arg \in Meetings \cup {0}
    BY <1>3, <1>5 DEF Notes
  <2>2. /\ UNCHANGED <<enabled, joinmeet, partners, conn, session, out, inq, srv, members>>
        /\ roomNo' \in Meetings \cup {0} /\ createmeet' \in BOOLEAN
        /\ \E b \in Boxes : Push(b)
    BY <1>4, <1>5, <2>1 DEF Created, srvVars, Boxes
  <2>3. boxes' \in Seq(Boxes) /\ Elements(boxes) \subseteq Elements(boxes')
    BY <1>1, <2>2, BoxPushed
  <2>4. UiTypes'
    BY <1>1, <1>2, <2>2, <2>3 DEF UiTypes
  <2>. QED  BY <1>2, <1>5, <2>2, <2>3, <2>4, SlotStep
<1>6. CASE n.kind = "joined" /\ Joined(n.arg)
  <2>1. /\ UNCHANGED <<enabled, createmeet, joinmeet, partners, conn, session, out, inq,
                       srv, members>>
        /\ roomNo' \in Meetings \cup {0}
        /\ \E b \in Boxes : Push(b)
    BY <1>4, <1>6 DEF Joined, srvVars, Boxes
  <2>2. boxes' \in Seq(Boxes) /\ Elements(boxes) \subseteq Elements(boxes')
    BY <1>1, <2>1, BoxPushed
  <2>3. UiTypes'
    BY <1>1, <1>2, <2>1, <2>2 DEF UiTypes
  <2>. QED  BY <1>2, <1>6, <2>1, <2>2, <2>3, SlotStep
<1>7. ASSUME NEW S \in SUBSET Peers, AddPartners(S), OnlyScreen,
             n.kind \in {"members", "enters"}
      PROVE  WindowInv'
  <2>1. SendFor(S) \subseteq {"send"}
    BY SendForSend
  <2>2. /\ UNCHANGED <<boxes, createmeet, joinmeet, conn, roomNo, session, out, inq, srv, members>>
        /\ partners' = partners \cup S /\ enabled' = enabled \cup SendFor(S)
    BY <1>7 DEF AddPartners, OnlyScreen, connVars, srvVars
  <2>3. UiTypes'
    BY <1>1, <1>2, <2>1, <2>2 DEF UiTypes, Buttons
  <2>4. /\ "connect" \in enabled' => "connect" \in enabled
        /\ "send" \in enabled => "send" \in enabled'
    BY <2>1, <2>2
  <2>. QED  BY <1>2, <1>4, <1>7, <2>2, <2>3, <2>4, SlotStep
<1>8. CASE n.kind = "members" /\ MembersListed(n.arg)
  <2>1. n.arg \in SUBSET Peers
    BY <1>3, <1>8 DEF Notes
  <2>. QED  BY <1>7, <1>8, <2>1 DEF MembersListed
<1>9. CASE n.kind = "enters" /\ AddPartners({n.arg}) /\ OnlyScreen
  <2>1. {n.arg} \in SUBSET Peers
    BY <1>3, <1>9 DEF Notes
  <2>. QED  BY <1>7, <1>9, <2>1
<1>10. CASE n.kind = "leaves" /\ partners' = partners \ {n.arg} /\ enabled' = enabled /\ OnlyScreen
  <2>1. UNCHANGED <<boxes, createmeet, joinmeet, conn, roomNo, session, out, inq, srv, members>>
    BY <1>10 DEF OnlyScreen, connVars, srvVars
  <2>2. UiTypes'
    BY <1>1, <1>2, <1>10, <2>1 DEF UiTypes
  <2>. QED  BY <1>2, <1>4, <1>10, <2>1, <2>2, SlotStep
<1>11. CASE n.kind = "closed" /\ Closed
  <2>1. /\ partners' = {} /\ DisconnectFromHost /\ enabled' \subseteq Buttons
        /\ UNCHANGED <<createmeet, joinmeet, roomNo>>
        /\ Push("ended") \/ boxes' = boxes
    BY <1>1, <1>11 DEF Closed, UiTypes, Buttons
  <2>2. boxes' \in Seq(Boxes)
    BY <1>1, <2>1, BoxPushed DEF Boxes, UiTypes
  <2>3. /\ ConnectEnds' /\ SendPending' /\ NotesOfSessions'
        /\ out' \in Seq(Requests) /\ inq' \in Seq(Notes) /\ SrvTypes'
        /\ conn' = "off" /\ session' \in Nat
    BY <1>3, <2>1, Disconnected
  <2>4. UiTypes' /\ ConnTypes' /\ QueueTypes'
    BY <1>1, <1>2, <1>3, <2>1, <2>2, <2>3 DEF UiTypes, ConnTypes, QueueTypes
  <2>. QED  BY <1>2, <2>3, <2>4 DEF WindowInv
<1>12. CASE /\ n.kind = "error" /\ Push("error")
            /\ UNCHANGED <<enabled, createmeet, joinmeet, partners, connVars, out, inq, srvVars>>
  <2>1. boxes' \in Seq(Boxes) /\ Elements(boxes) \subseteq Elements(boxes')
    BY <1>1, <1>12, BoxPushed DEF Boxes
  <2>2. UiTypes'
    BY <1>1, <1>2, <1>12, <2>1 DEF UiTypes
  <2>. QED  BY <1>2, <1>4, <1>12, <2>1, <2>2, SlotStep DEF connVars, srvVars
<1>13. CASE n.kind = "reconnected" /\ Reconnected
  <2>1. /\ UNCHANGED <<boxes, createmeet, joinmeet, partners, conn, roomNo, session, out, inq,
                       srv, members>>
        /\ enabled' = (enabled \cup {"create", "join", "send"}) \ {"connect"}
    BY <1>13 DEF Reconnected, OnlyScreen, connVars, srvVars
  <2>2. UiTypes'
    BY <1>1, <1>2, <2>1 DEF UiTypes, Buttons
  <2>. QED  BY <1>2, <1>4, <2>1, <2>2, SlotStep
<1>14. CASE /\ n.kind = "text sent"
            /\ enabled' = enabled \cup {"send"} /\ partners' = partners /\ OnlyScreen
  <2>1. UNCHANGED <<boxes, createmeet, joinmeet, conn, roomNo, session, out, inq, srv, members>>
    BY <1>14 DEF OnlyScreen, connVars, srvVars
  <2>2. UiTypes'
    BY <1>1, <1>2, <1>14, <2>1 DEF UiTypes, Buttons
  <2>. QED  BY <1>2, <1>4, <1>14, <2>1, <2>2, SlotStep
<1>. QED  BY <1>5, <1>6, <1>8, <1>9, <1>10, <1>11, <1>12, <1>13, <1>14 DEF Handle

-----------------------------------------------------------------------------
(* What the slots do after their boxes *)

LEMMA BoxPopped ==
  ASSUME UiTypes, boxes # <<>>, Pop
  PROVE  /\ boxes' \in Seq(Boxes)
         /\ boxes[Len(boxes)] \in Boxes
         /\ Elements(boxes) = Elements(boxes') \cup {boxes[Len(boxes)]}
  BY LastTaken DEF UiTypes, Pop

\* Closing a box keeps the window's invariant if the slot takes no button away but the
\* one for connecting, and if on_connServer_clicked ends with its buttons set.
LEMMA BoxStep ==
  ASSUME WindowInv, boxes # <<>>, Pop,
         UNCHANGED <<connVars, out, inq, posted, srvVars, tangled, erred>>,
         boxes' \in Seq(Boxes) => UiTypes',
         textqueue' \in Seq(Requests), Elements(textqueue) \subseteq Elements(textqueue'),
         "connect" \in enabled' => "connect" \in enabled,
         "send" \in enabled => "send" \in enabled',
         boxes[Len(boxes)] \in {"connected", "no create"} =>
             "connect" \notin enabled' /\ "send" \in enabled'
  PROVE  WindowInv'
<1>1. /\ UiTypes /\ ConnTypes /\ QueueTypes /\ SrvTypes /\ NotesOfSessions
      /\ ConnectEnds /\ SendPending
  BY DEF WindowInv
<1>2. /\ boxes' \in Seq(Boxes)
      /\ Elements(boxes) = Elements(boxes') \cup {boxes[Len(boxes)]}
  BY <1>1, BoxPopped
<1>3. ConnectEnds'
  BY <1>1, <1>2 DEF ConnectEnds, connVars
<1>4. SendPending'
  BY <1>1, <1>2 DEF SendPending, connVars
<1>5. ConnTypes' /\ QueueTypes' /\ SrvTypes' /\ NotesOfSessions'
  BY <1>1 DEF ConnTypes, QueueTypes, SrvTypes, NotesOfSessions, connVars, srvVars
<1>6. tangled' \in BOOLEAN /\ erred' \in BOOLEAN
  BY DEF WindowInv
<1>. QED  BY <1>2, <1>3, <1>4, <1>5, <1>6 DEF WindowInv

LEMMA CloseBoxStep ==
  ASSUME WindowInv, CloseBox
  PROVE  WindowInv'
<1> DEFINE b == boxes[Len(boxes)]
<1>1. /\ UiTypes /\ ConnTypes /\ QueueTypes /\ SrvTypes /\ NotesOfSessions
      /\ ConnectEnds /\ SendPending /\ tangled \in BOOLEAN /\ erred \in BOOLEAN
  BY DEF WindowInv
<1>2. boxes # <<>> /\ UNCHANGED <<role, meetno, posted, tangled, erred>>
  BY DEF CloseBox
<1>3. SendFor({Me}) \subseteq {"send"}
  BY SendForSend
<1>4. CASE b = "created" /\ AfterCreated
  <2>1. boxes' \in Seq(Boxes) => UiTypes'
    BY <1>1, <1>2, <1>3, <1>4 DEF AfterCreated, UiTypes, Buttons
  <2>. QED  BY <1>1, <1>2, <1>3, <1>4, <2>1, BoxStep DEF AfterCreated, QueueTypes
<1>5. CASE b = "joined" /\ AfterJoined
  <2>1. boxes' \in Seq(Boxes) => UiTypes'
    BY <1>1, <1>2, <1>3, <1>5 DEF AfterJoined, UiTypes, Buttons
  <2>. QED  BY <1>1, <1>2, <1>3, <1>5, <2>1, BoxStep DEF AfterJoined, QueueTypes
<1>6. CASE b = "not created" /\ AfterNotCreated
  <2>1. boxes' \in Seq(Boxes) => UiTypes'
    BY <1>1, <1>2, <1>6 DEF AfterNotCreated, UiTypes, Buttons
  <2>. QED  BY <1>1, <1>2, <1>6, <2>1, BoxStep DEF AfterNotCreated, QueueTypes
<1>7. CASE b = "no meeting" /\ AfterNoMeeting
  <2>1. boxes' \in Seq(Boxes) => UiTypes'
    BY <1>1, <1>2, <1>7 DEF AfterNoMeeting, UiTypes, Buttons
  <2>. QED  BY <1>1, <1>2, <1>7, <2>1, BoxStep DEF AfterNoMeeting, QueueTypes
<1>8. CASE b = "no create" /\ AfterNoCreate
  <2>1. /\ boxes' = [boxes EXCEPT ![Len(boxes)] = "connected"]
        /\ enabled' = (enabled \cup {"join"}) \ {"exit"}
        /\ UNCHANGED <<role, createmeet, joinmeet, partners, meetno, connVars, queueVars, srvVars,
                       tangled, erred>>
    BY <1>2, <1>8 DEF AfterNoCreate, queueVars
  <2>2. boxes' \in Seq(Boxes) /\ "connected" \in Elements(boxes')
    <3>1. boxes \in Seq(Boxes) /\ "connected" \in Boxes
      BY <1>1 DEF UiTypes, Boxes
    <3>. QED  BY <1>2, <2>1, <3>1, LastReplaced
  <2>3. ConnectEnds' /\ SendPending'
    BY <2>2 DEF ConnectEnds, SendPending
  <2>4. UiTypes' /\ ConnTypes' /\ QueueTypes' /\ SrvTypes' /\ NotesOfSessions'
    BY <1>1, <2>1, <2>2 DEF UiTypes, Buttons, ConnTypes, QueueTypes, SrvTypes, NotesOfSessions,
                            connVars, queueVars, srvVars
  <2>. QED  BY <1>1, <2>1, <2>3, <2>4 DEF WindowInv
<1>9. CASE b = "connected" /\ AfterConnected
  <2>1. boxes' \in Seq(Boxes) => UiTypes'
    BY <1>1, <1>2, <1>9 DEF AfterConnected, UiTypes, Buttons
  <2>. QED  BY <1>1, <1>2, <1>9, <2>1, BoxStep DEF AfterConnected, QueueTypes
<1>10. CASE b = "no right" /\ AfterNoRight
  <2>1. /\ Pop /\ enabled' \subseteq enabled /\ ("send" \in enabled => "send" \in enabled')
        /\ UNCHANGED <<textqueue>> \/ PushText("CREATE_MEETING", 0)
        /\ UNCHANGED <<createmeet, joinmeet, partners, connVars, out, inq, srvVars>>
    BY <1>10 DEF AfterNoRight, AskForMeeting
  <2>2. textqueue' \in Seq(Requests) /\ Elements(textqueue) \subseteq Elements(textqueue')
    BY <1>1, <2>1, TextPushed DEF QueueTypes
  <2>3. boxes' \in Seq(Boxes) => UiTypes'
    BY <1>1, <1>2, <2>1 DEF UiTypes
  <2>. QED  BY <1>1, <1>2, <1>10, <2>1, <2>2, <2>3, BoxStep
<1>11. CASE b = "error" /\ AfterError
  <2>1. /\ Pop /\ partners' = {} /\ DisconnectFromHost
        /\ UNCHANGED <<enabled, createmeet, joinmeet, roomNo, textqueue>>
    BY <1>11 DEF AfterError
  <2>2. boxes' \in Seq(Boxes)
    BY <1>1, <1>2, <2>1, BoxPopped
  <2>3. /\ ConnectEnds' /\ SendPending' /\ NotesOfSessions'
        /\ out' \in Seq(Requests) /\ inq' \in Seq(Notes) /\ SrvTypes'
        /\ conn' = "off" /\ session' \in Nat
    BY <1>2, <2>1, Disconnected
  <2>4. UiTypes' /\ ConnTypes' /\ QueueTypes'
    BY <1>1, <1>2, <2>1, <2>2, <2>3 DEF UiTypes, ConnTypes, QueueTypes
  <2>. QED  BY <1>1, <1>2, <2>3, <2>4 DEF WindowInv
<1>12. CASE b \in {"full", "refused", "left", "ended"} /\ AfterOther
  <2>1. boxes' \in Seq(Boxes) => UiTypes'
    BY <1>1, <1>2, <1>12 DEF AfterOther, UiTypes
  <2>. QED  BY <1>1, <1>2, <1>12, <2>1, BoxStep DEF AfterOther, QueueTypes
<1>. QED  BY <1>4, <1>5, <1>6, <1>7, <1>8, <1>9, <1>10, <1>11, <1>12 DEF CloseBox

-----------------------------------------------------------------------------
(* The theorems *)

LEMMA WindowInit == Init => WindowInv
<1> SUFFICES ASSUME Init  PROVE WindowInv
  OBVIOUS
<1>1. /\ enabled \subseteq Buttons /\ role \in Roles
      /\ boxes = <<>> /\ createmeet = FALSE /\ joinmeet = FALSE /\ partners = {} /\ meetno = 0
      /\ conn = "off" /\ roomNo = 0 /\ session = 0
      /\ textqueue = <<>> /\ out = <<>> /\ inq = <<>> /\ posted = <<>>
      /\ srv = 0 /\ members = {} /\ tangled = FALSE /\ erred = FALSE
  BY DEF Init, Buttons
<1>2. UiTypes
  BY <1>1, EmptySeq DEF UiTypes
<1>3. ConnTypes /\ QueueTypes /\ SrvTypes
  BY <1>1, EmptySeq DEF ConnTypes, QueueTypes, SrvTypes
<1>4. NotesOfSessions
  BY <1>1, NothingIn DEF NotesOfSessions
<1>5. ConnectEnds /\ SendPending
  BY <1>1 DEF ConnectEnds, SendPending
<1>. QED  BY <1>1, <1>2, <1>3, <1>4, <1>5 DEF WindowInv

LEMMA WindowStep == WindowInv /\ [Next]_vars => WindowInv'
<1> SUFFICES ASSUME WindowInv, [Next]_vars  PROVE WindowInv'
  OBVIOUS
<1>1. CASE User
  BY <1>1, ConnectStep, RequestStep, ExitStep DEF User
<1>2. CASE Threads
  BY <1>2, SendTextStep, RecvSolveStep, SendDataStep, DropDataStep, ReconnectStep DEF Threads
<1>3. CASE Lose \/ PeerComes \/ Handle \/ CloseBox
  BY <1>3, LoseStep, PeerStep, HandleStep, CloseBoxStep
<1>4. CASE UNCHANGED vars
  <2>1. UNCHANGED <<uiVars, connVars, queueVars, srvVars, tangled, erred>>
    BY <1>4 DEF vars, history
  <2>2. ConnTypes' /\ QueueTypes' /\ SrvTypes' /\ NotesOfSessions' /\ SendPending'
    BY <2>1 DEF uiVars, connVars, queueVars, srvVars, WindowInv, ConnTypes, QueueTypes, SrvTypes,
                NotesOfSessions, SendPending
  <2>. QED  BY <2>1, <2>2, WindowLeft DEF connVars
<1>. QED  BY <1>1, <1>2, <1>3, <1>4 DEF Next

LEMMA WindowAlways == Spec => []WindowInv
  BY WindowInit, WindowStep, PTL DEF Spec

LEMMA WindowTyped == WindowInv => TypeOK
<1> SUFFICES ASSUME WindowInv  PROVE TypeOK
  OBVIOUS
<1>1. UiTypes /\ ConnTypes /\ QueueTypes /\ SrvTypes /\ NotesOfSessions /\ ConnectEnds
      /\ tangled \in BOOLEAN /\ erred \in BOOLEAN
  BY DEF WindowInv
<1>2. \A i \in DOMAIN boxes : boxes[i] \in Boxes
  BY <1>1, LenProperties DEF UiTypes
<1>3. /\ \A i \in DOMAIN textqueue : textqueue[i] \in Requests
      /\ \A i \in DOMAIN out : out[i] \in Requests
      /\ \A i \in DOMAIN inq : inq[i] \in Notes
      /\ \A i \in DOMAIN posted : posted[i] \in Notes
  BY <1>1, LenProperties DEF QueueTypes
<1>4. \A m \in Requests : IsRequest(m)
  BY DEF Requests, IsRequest
<1>5. /\ \A i \in DOMAIN inq : inq[i].session <= session
      /\ \A i \in DOMAIN posted : posted[i].session <= session
  BY <1>1 DEF NotesOfSessions, Elements
<1>6. \A n \in Notes : n.session <= session => IsNote(n)
  BY <1>1 DEF Notes, IsNote, ConnTypes
<1>7. conn = "off" => \A i \in DOMAIN inq : inq[i].kind = "error"
  BY <1>1 DEF NotesOfSessions, Elements
<1>8. "connect" \in enabled /\ boxes = <<>> => conn = "off"
  BY <1>1, NothingIn DEF ConnectEnds
<1>. QED  BY <1>1, <1>2, <1>3, <1>4, <1>5, <1>6, <1>7, <1>8
          DEF TypeOK, UiTypes, ConnTypes, SrvTypes

\* Every variable of the window keeps to its type, whatever boxes are open while the
\* connection changes; the window is never told anything of a connection to come, and
\* nobody can ask for a connection while there is one.
THEOREM MeetingTypeCorrect == Spec => []TypeOK
  BY WindowAlways, WindowTyped, PTL

LEMMA WindowGivesBack == WindowInv => SendComesBack
<1> SUFFICES ASSUME WindowInv, Settled, conn = "up"  PROVE "send" \in enabled
  BY DEF SendComesBack
<1>1. /\ Elements(boxes) = {} /\ Elements(posted) = {}
      /\ Elements(textqueue) = {} /\ Elements(out) = {}
  BY NothingIn DEF Settled
<1>. QED  BY <1>1 DEF WindowInv, SendPending

\* The send button is back once there is a connection and nothing more to come, wherever
\* the text that disabled it was dropped.
THEOREM SendButtonComesBack == Spec => []SendComesBack
  BY WindowAlways, WindowGivesBack, PTL

-----------------------------------------------------------------------------
(* Who is on the screen once everything has been shown *)

Adds(n, p)    == (n.kind = "members" /\ p \in n.arg) \/ (n.kind = "enters" /\ n.arg = p)
Removes(n, p) == n.kind = "leaves" /\ n.arg = p

\* Whether p is on the screen after the events of s, when S was on it before.
Says(s, p, S) ==
    \/ \E i \in DOMAIN s : Adds(s[i], p) /\ \A j \in DOMAIN s : j > i => ~Removes(s[j], p)
    \/ p \in S /\ \A j \in DOMAIN s : ~Removes(s[j], p)

\* The peers on the screen after one event, and after those of s.
After(n, S) == {p \in Peers : Adds(n, p) \/ (p \in S /\ ~Removes(n, p))}
Shown(s, S) == {p \in Peers : Says(s, p, S)}

LEMMA SaysAppended ==
  ASSUME NEW s \in Seq(Notes), NEW n \in Notes, NEW p \in Peers, NEW S
  PROVE  Says(Append(s, n), p, S) <=> (Adds(n, p) \/ (Says(s, p, S) /\ ~Removes(n, p)))
<1> DEFINE a == Append(s, n)
<1>1. Len(s) \in Nat /\ DOMAIN s = 1..Len(s)
  BY LenProperties
<1>2. /\ Len(a) = Len(s) + 1 /\ a \in Seq(Notes)
      /\ \A i \in 1..Len(s) : a[i] = s[i]
      /\ a[Len(s) + 1] = n
  BY AppendProperties
<1>3. DOMAIN a = 1..(Len(s) + 1)
  BY <1>2, LenProperties
<1>. HIDE DEF a
<1>4. ASSUME Adds(n, p)  PROVE Says(a, p, S)
  <2>1. Len(s) + 1 \in DOMAIN a /\ Adds(a[Len(s) + 1], p)
    BY <1>1, <1>2, <1>3, <1>4
  <2>2. \A j \in DOMAIN a : ~(j > Len(s) + 1)
    BY <1>1, <1>3
  <2>. QED  BY <2>1, <2>2 DEF Says
<1>5. ASSUME Says(s, p, S), ~Removes(n, p)  PROVE Says(a, p, S)
  <2>1. \A j \in DOMAIN a : (j \in DOMAIN s /\ a[j] = s[j]) \/ a[j] = n
    BY <1>1, <1>2, <1>3
  <2>2. \A j \in DOMAIN s : j \in DOMAIN a /\ a[j] = s[j]
    BY <1>1, <1>2, <1>3
  <2>. QED  BY <1>5, <2>1, <2>2 DEF Says
<1>6. ASSUME Says(a, p, S)  PROVE Adds(n, p) \/ (Says(s, p, S) /\ ~Removes(n, p))
  <2>1. Len(s) + 1 \in DOMAIN a
    BY <1>1, <1>3
  <2>2. \A j \in DOMAIN s : j \in DOMAIN a /\ a[j] = s[j] /\ Len(s) + 1 > j
    BY <1>1, <1>2, <1>3
  <2>3. \A j \in DOMAIN a : j \in DOMAIN s \/ a[j] = n
    BY <1>1, <1>2, <1>3
  <2>4. CASE \A j \in DOMAIN a : ~Removes(a[j], p)
    BY <1>2, <1>6, <2>1, <2>2, <2>3, <2>4 DEF Says
  <2>5. CASE \E i \in DOMAIN a : Adds(a[i], p) /\ \A j \in DOMAIN a : j > i => ~Removes(a[j], p)
    <3>1. PICK i \in DOMAIN a : Adds(a[i], p) /\ \A j \in DOMAIN a : j > i => ~Removes(a[j], p)
      BY <2>5
    <3>2. CASE a[i] = n
      BY <3>1, <3>2
    <3>3. CASE i \in DOMAIN s
      <4>1. ~Removes(n, p)
        BY <1>2, <2>1, <2>2, <3>1, <3>3
      <4>2. Says(s, p, S)
        BY <2>2, <3>1, <3>3 DEF Says
      <4>. QED  BY <4>1, <4>2
    <3>. QED  BY <2>3, <3>1, <3>2, <3>3
  <2>. QED  BY <1>6, <2>4, <2>5 DEF Says
<1>. QED  BY <1>4, <1>5, <1>6 DEF a

LEMMA SaysTaken ==
  ASSUME NEW s \in Seq(Notes), s # <<>>, NEW p \in Peers, NEW S
  PROVE  Says(s, p, S)
           <=> Says(Tail(s), p, After(Head(s), S))
<1> DEFINE t == Tail(s)
           b == After(Head(s), S)
<1>1. Len(s) \in Nat \ {0} /\ DOMAIN s = 1..Len(s)
  BY LenProperties, EmptySeq
<1>2. /\ t \in Seq(Notes) /\ Head(s) = s[1] /\ Len(t) = Len(s) - 1
      /\ \A i \in 1..Len(t) : t[i] = s[i + 1]
  BY HeadTailProperties
<1>3. DOMAIN t = 1..(Len(s) - 1)
  BY <1>2, LenProperties
<1>4. p \in b <=> Adds(s[1], p) \/ (p \in S /\ ~Removes(s[1], p))
  BY <1>2 DEF After
<1>. HIDE DEF t, b
<1>5. 1 \in DOMAIN s /\ \A j \in DOMAIN s : j = 1 \/ (j - 1 \in DOMAIN t /\ t[j - 1] = s[j] /\ j > 1)
  <2>1. ASSUME NEW j \in DOMAIN s, j # 1  PROVE j - 1 \in DOMAIN t /\ t[j - 1] = s[j] /\ j > 1
    <3>1. j - 1 \in 1..(Len(s) - 1) /\ j \in Nat /\ (j - 1) + 1 = j /\ j > 1
      BY <1>1, <2>1
    <3>2. t[j - 1] = s[(j - 1) + 1]
      BY <1>2, <3>1
    <3>. QED  BY <1>3, <3>1, <3>2
  <2>. QED  BY <1>1, <2>1
<1>6. \A j \in DOMAIN t : j + 1 \in DOMAIN s /\ s[j + 1] = t[j] /\ j + 1 > 1
  BY <1>1, <1>2, <1>3
<1>7. \A i \in DOMAIN t : i \in Int /\ \A j \in DOMAIN s : j \in Int /\ (j - 1 > i <=> j > i + 1)
  BY <1>1, <1>3
<1>8. ASSUME Says(s, p, S)  PROVE Says(t, p, b)
  <2>1. CASE \E i \in DOMAIN s : Adds(s[i], p) /\ \A j \in DOMAIN s : j > i => ~Removes(s[j], p)
    <3>1. PICK i \in DOMAIN s : Adds(s[i], p) /\ \A j \in DOMAIN s : j > i => ~Removes(s[j], p)
      BY <2>1
    <3>2. CASE i = 1
      <4>1. \A j \in DOMAIN t : ~Removes(t[j], p)
        BY <1>6, <3>1, <3>2
      <4>. QED  BY <1>4, <3>1, <3>2, <4>1 DEF Says
    <3>3. CASE i # 1
      <4>1. i - 1 \in DOMAIN t /\ t[i - 1] = s[i]
        BY <1>5, <3>3
      <4>2. \A j \in DOMAIN t : j > i - 1 => j + 1 > i
        BY <1>1, <1>3
      <4>3. \A j \in DOMAIN t : j > i - 1 => ~Removes(t[j], p)
        BY <1>6, <3>1, <4>2
      <4>. QED  BY <3>1, <4>1, <4>3 DEF Says
    <3>. QED  BY <3>2, <3>3
  <2>2. CASE p \in S /\ \A j \in DOMAIN s : ~Removes(s[j], p)
    <3>1. \A j \in DOMAIN t : ~Removes(t[j], p)
      BY <1>6, <2>2
    <3>. QED  BY <1>4, <1>5, <2>2, <3>1 DEF Says
  <2>. QED  BY <1>8, <2>1, <2>2 DEF Says
<1>9. ASSUME Says(t, p, b)  PROVE Says(s, p, S)
  <2>1. CASE \E i \in DOMAIN t : Adds(t[i], p) /\ \A j \in DOMAIN t : j > i => ~Removes(t[j], p)
    <3>1. PICK i \in DOMAIN t : Adds(t[i], p) /\ \A j \in DOMAIN t : j > i => ~Removes(t[j], p)
      BY <2>1
    <3>2. i + 1 \in DOMAIN s /\ Adds(s[i + 1], p)
      BY <1>6, <3>1
    <3>3. ASSUME NEW j \in DOMAIN s, j > i + 1  PROVE ~Removes(s[j], p)
      <4>1. j # 1 /\ j - 1 > i
        BY <1>1, <1>3, <1>7, <3>3
      <4>. QED  BY <1>5, <3>1, <4>1
    <3>. QED  BY <3>2, <3>3 DEF Says
  <2>2. CASE p \in b /\ \A j \in DOMAIN t : ~Removes(t[j], p)
    <3>1. \A j \in DOMAIN s : j > 1 => ~Removes(s[j], p)
      <4>1. \A j \in DOMAIN s : j > 1 => j # 1
        BY <1>1
      <4>. QED  BY <1>5, <2>2, <4>1
    <3>2. CASE Adds(s[1], p)
      BY <1>5, <3>1, <3>2 DEF Says
    <3>3. CASE p \in S /\ ~Removes(s[1], p)
      <4>1. \A j \in DOMAIN s : ~Removes(s[j], p)
        BY <1>5, <3>1, <3>3
      <4>. QED  BY <3>3, <4>1 DEF Says
    <3>. QED  BY <1>4, <2>2, <3>2, <3>3
  <2>. QED  BY <1>9, <2>1, <2>2 DEF Says
<1>. QED  BY <1>8, <1>9 DEF t, b

LEMMA ShownAppended ==
  ASSUME NEW s \in Seq(Notes), NEW n \in Notes, NEW S
  PROVE  Shown(Append(s, n), S) = After(n, Shown(s, S))
<1>1. ASSUME NEW p \in Peers
      PROVE  Says(Append(s, n), p, S) <=> (Adds(n, p) \/ (Says(s, p, S) /\ ~Removes(n, p)))
  BY SaysAppended
<1>. QED  BY <1>1 DEF Shown, After

LEMMA ShownTaken ==
  ASSUME NEW s \in Seq(Notes), s # <<>>, NEW S
  PROVE  Shown(s, S) = Shown(Tail(s), After(Head(s), S))
<1>1. ASSUME NEW p \in Peers
      PROVE  Says(s, p, S) <=> Says(Tail(s), p, After(Head(s), S))
  BY SaysTaken
<1>. QED  BY <1>1 DEF Shown

LEMMA ShownMore ==
  ASSUME NEW s, NEW S, NEW T, S \cap Peers \subseteq T
  PROVE  Shown(s, S) \subseteq Shown(s, T)
  BY DEF Shown, Says

\* Without a connection nobody is in a meeting.
NotServed == conn # "up" => srv = 0

\* The members of the meeting will be on the screen once the window has handled all
\* that is posted and all that is on its way.
PeersTold ==
    conn = "up" /\ srv > 0 => members \subseteq Shown(inq, Shown(posted, partners))

\* What puts the user on the screen when the box it opens is closed.
Entered(n) == (n.kind = "created" /\ n.arg # 0) \/ (n.kind = "joined" /\ n.arg > 0)

MeTold ==
    conn = "up" /\ srv > 0 =>
        \/ Me \in partners
        \/ \E n \in Elements(inq) \cup Elements(posted) : Entered(n)
        \/ Elements(boxes) \cap {"created", "joined"} # {}

ScreenInv == WindowInv /\ NotServed /\ PeersTold /\ MeTold

\* An event that says nothing of the others.
Plain(n) == n.kind \notin {"members", "enters", "leaves"}

LEMMA PlainAfter ==
  ASSUME NEW n, Plain(n), NEW S
  PROVE  After(n, Shown(posted, S)) = Shown(posted, S)
         /\ After(n, Shown(inq, S)) = Shown(inq, S)
  BY DEF Plain, After, Adds, Removes, Shown

LEMMA NobodyTold ==
  ASSUME srv' = 0
  PROVE  NotServed' /\ PeersTold' /\ MeTold'
<1>1. ~(srv' > 0)
  OBVIOUS
<1>. QED  BY <1>1 DEF NotServed, PeersTold, MeTold

\* Steps of the user, and of SendText.
LEMMA NothingTold ==
  ASSUME ScreenInv, UNCHANGED <<partners, posted, srv, members>>,
         conn' = conn \/ conn' = "up",
         \/ inq' = inq
         \/ \E n \in Notes : Plain(n) /\ inq' = Append(inq, n),
         Elements(boxes) \subseteq Elements(boxes')
  PROVE  NotServed' /\ PeersTold' /\ MeTold'
<1>1. CASE srv = 0
  BY <1>1, NobodyTold
<1>2. CASE srv # 0
  <2>1. conn = "up" /\ conn' = "up" /\ inq \in Seq(Notes)
    BY <1>2 DEF ScreenInv, NotServed, WindowInv, QueueTypes
  <2>2. Elements(inq) \subseteq Elements(inq')
    <3>1. \A n \in Notes : Elements(Append(inq, n)) = Elements(inq) \cup {n}
      BY <2>1, Appended
    <3>. QED  BY <3>1
  <2>3. \A S : Shown(inq', S) = Shown(inq, S)
    <3>1. CASE inq' = inq
      BY <3>1
    <3>2. CASE \E n \in Notes : Plain(n) /\ inq' = Append(inq, n)
      <4>1. PICK n \in Notes : Plain(n) /\ inq' = Append(inq, n)
        BY <3>2
      <4>2. TAKE S
      <4>3. Shown(inq', S) = After(n, Shown(inq, S))
        BY <2>1, <4>1, ShownAppended
      <4>. QED  BY <4>1, <4>3, PlainAfter
    <3>. QED  BY <3>1, <3>2
  <2>4. Shown(posted, partners)' = Shown(posted, partners)
    BY DEF Shown
  <2>5. PeersTold'
    BY <2>1, <2>3, <2>4 DEF ScreenInv, PeersTold
  <2>6. MeTold'
    BY <2>1, <2>2 DEF ScreenInv, MeTold
  <2>. QED  BY <2>1, <2>5, <2>6 DEF NotServed
<1>. QED  BY <1>1, <1>2

LEMMA UserTells ==
  ASSUME ScreenInv, User \/ SendTextRun
  PROVE  NotServed' /\ PeersTold' /\ MeTold'
<1>1. UiTypes /\ ConnTypes /\ QueueTypes
  BY DEF ScreenInv, WindowInv
<1>2. CASE ClickExit
  BY <1>2, NobodyTold DEF ClickExit, DisconnectFromHost
<1>3. CASE ClickConnect
  <2>1. /\ UNCHANGED <<partners, posted, srv, members>>
        /\ conn' = conn \/ conn' = "up"
        /\ inq' = inq \/ inq' = Append(inq, Note("error", 0))
        /\ \E b \in Boxes : Push(b)
    BY <1>3 DEF ClickConnect, srvVars, Boxes
  <2>2. Elements(boxes) \subseteq Elements(boxes')
    BY <1>1, <2>1, BoxPushed
  <2>3. Note("error", 0) \in Notes /\ Plain(Note("error", 0))
    <3>1. /\ "error" \in Kinds /\ session \in Nat
          /\ 0 \in Meetings \cup {0, -1} \cup Peers \cup SUBSET Peers
      BY <1>1 DEF Kinds, ConnTypes
    <3>. QED  BY <3>1, NoteTyped DEF Note, Plain
  <2>. QED  BY <2>1, <2>2, <2>3, NothingTold
<1>4. CASE EditMeetno \/ ClickCreate \/ ClickJoin \/ ClickSend \/ SendTextRun
  <2>1. /\ UNCHANGED <<partners, posted, srv, members, conn, inq>>
        /\ boxes' = boxes \/ Push("no right")
    BY <1>4 DEF EditMeetno, ClickCreate, ClickJoin, ClickSend, SendTextRun, uiVars, connVars,
                queueVars, srvVars
  <2>2. Elements(boxes) \subseteq Elements(boxes')
    BY <1>1, <2>1, BoxPushed DEF Boxes
  <2>. QED  BY <2>1, <2>2, NothingTold
<1>. QED  BY <1>2, <1>3, <1>4 DEF User

LEMMA RecvSolveTells ==
  ASSUME ScreenInv, RecvSolveRun
  PROVE  NotServed' /\ PeersTold' /\ MeTold'
<1>1. /\ inq # <<>> /\ inq' = Tail(inq) /\ posted' = Append(posted, Head(inq))
      /\ UNCHANGED <<boxes, partners, conn, srv, members>>
      /\ inq \in Seq(Notes) /\ posted \in Seq(Notes)
  BY DEF RecvSolveRun, uiVars, connVars, srvVars, ScreenInv, WindowInv, QueueTypes
<1>2. /\ Head(inq) \in Notes /\ Elements(inq) = Elements(inq') \cup {Head(inq)}
  BY <1>1, Taken
<1>3. Elements(posted') = Elements(posted) \cup {Head(inq)}
  BY <1>1, <1>2, Appended
<1>4. Shown(inq, Shown(posted, partners)) = Shown(inq', After(Head(inq), Shown(posted, partners)))
  BY <1>1, ShownTaken
<1>5. Shown(posted', partners') = After(Head(inq), Shown(posted, partners))
  BY <1>1, <1>2, ShownAppended
<1>6. PeersTold'
  BY <1>1, <1>4, <1>5 DEF ScreenInv, PeersTold
<1>7. MeTold' /\ NotServed'
  BY <1>1, <1>2, <1>3 DEF ScreenInv, MeTold, NotServed
<1>. QED  BY <1>6, <1>7

-----------------------------------------------------------------------------
(* What the server tells *)

\* An answer that lets the user into a room names everybody there, and the user.
LEMMA AnswerTells ==
  ASSUME QueueTypes, SrvTypes, NEW s \in Nat, NEW type, NEW r \in Meetings \cup {0},
         Answer(s, type, r)
  PROVE  \/ srv' \in {0, -1}
         \/ srv # 0 /\ UNCHANGED <<srv, members, inq>>
         \/ /\ \A S : members' \subseteq Shown(inq', S)
            /\ \E n \in Elements(inq') : Entered(n)
<1>1. Meetings \subseteq Nat \ {0} /\ inq \in Seq(Notes)
  BY MeetingAssumption DEF QueueTypes
<1>2. CASE srv # 0
  BY <1>2 DEF Answer
<1>3. CASE srv = 0 /\ type = "TEXT_SEND"
  BY <1>3 DEF Answer
<1>4. CASE srv = 0 /\ type = "CREATE_MEETING"
  <2>1. CASE srv' = 0
    BY <2>1
  <2>2. CASE srv' # 0
    <3>1. PICK n \in Meetings : members' = {} /\ inq' = Append(inq, NoteOf(s, "created", n))
      BY <1>4, <2>2 DEF Answer
    <3>2. "created" \in Kinds /\ n \in Meetings \cup {0, -1} \cup Peers \cup SUBSET Peers
      BY DEF Kinds
    <3>3. NoteOf(s, "created", n) \in Notes /\ Entered(NoteOf(s, "created", n))
      BY <1>1, <3>2, NoteTyped DEF Entered
    <3>. QED  BY <1>1, <3>1, <3>3, Appended
  <2>. QED  BY <2>1, <2>2
<1>5. CASE srv = 0 /\ type = "JOIN_MEETING"
  <2>1. CASE srv' = 0
    BY <2>1
  <2>2. CASE srv' # 0
    <3>1. PICK T \in SUBSET Peers :
             /\ srv' = r /\ members' = T
             /\ \/ inq' = inq \o <<NoteOf(s, "joined", r), NoteOf(s, "members", T)>>
                \/ inq' = inq \o <<NoteOf(s, "members", T), NoteOf(s, "joined", r)>>
      BY <1>5, <2>2 DEF Answer
    <3>2. /\ "joined" \in Kinds /\ "members" \in Kinds /\ r > 0
          /\ r \in Meetings \cup {0, -1} \cup Peers \cup SUBSET Peers
          /\ T \in Meetings \cup {0, -1} \cup Peers \cup SUBSET Peers
      BY <1>1, <2>2, <3>1 DEF Kinds
    <3>3. /\ NoteOf(s, "joined", r) \in Notes /\ NoteOf(s, "joined", r).kind = "joined"
          /\ NoteOf(s, "joined", r).arg = r
      BY <3>2, NoteTyped
    <3>4. /\ NoteOf(s, "members", T) \in Notes /\ NoteOf(s, "members", T).kind = "members"
          /\ NoteOf(s, "members", T).arg = T
      BY <3>2, NoteTyped
    <3>5. PICK j \in Notes : j.kind = "joined" /\ j.arg = r /\ j = NoteOf(s, "joined", r)
      BY <3>3
    <3>6. PICK m \in Notes : m.kind = "members" /\ m.arg = T /\ m = NoteOf(s, "members", T)
      BY <3>4
    <3>7. /\ Entered(j) /\ \A S : T \subseteq After(m, S)
          /\ \A S : S \cap Peers \subseteq After(j, S)
      BY <3>2, <3>5, <3>6 DEF Entered, After, Adds, Removes
    <3>8. \A a \in Notes, b \in Notes :
             /\ inq \o <<a, b>> \in Seq(Notes)
             /\ b \in Elements(inq \o <<a, b>>) /\ a \in Elements(inq \o <<a, b>>)
             /\ \A S : Shown(inq \o <<a, b>>, S) = After(b, After(a, Shown(inq, S)))
      <4>1. TAKE a \in Notes, b \in Notes
      <4>2. PICK q : q = Append(inq, a)
        OBVIOUS
      <4>3. q \in Seq(Notes) /\ a \in Elements(q)
        BY <1>1, <4>2, Appended
      <4>4. inq \o <<a, b>> = Append(q, b)
        BY <1>1, <4>2, TwoAppended
      <4>5. Append(q, b) \in Seq(Notes) /\ Elements(Append(q, b)) = Elements(q) \cup {b}
        BY <4>3, Appended
      <4>6. ASSUME NEW S
            PROVE  Shown(Append(q, b), S) = After(b, After(a, Shown(inq, S)))
        <5>1. Shown(Append(q, b), S) = After(b, Shown(q, S))
          BY <4>3, ShownAppended
        <5>2. Shown(q, S) = After(a, Shown(inq, S))
          BY <1>1, <4>2, ShownAppended
        <5>. QED  BY <5>1, <5>2
      <4>. QED  BY <4>3, <4>4, <4>5, <4>6
    <3>9. inq' = inq \o <<j, m>> \/ inq' = inq \o <<m, j>>
      BY <3>1, <3>5, <3>6
    <3>10. \A S : T \subseteq Shown(inq', S)
      <4>1. CASE inq' = inq \o <<j, m>>
        BY <3>7, <3>8, <4>1
      <4>2. CASE inq' = inq \o <<m, j>>
        BY <3>7, <3>8, <4>2
      <4>. QED  BY <3>9, <4>1, <4>2
    <3>11. j \in Elements(inq')
      BY <3>8, <3>9
    <3>. QED  BY <3>1, <3>7, <3>10, <3>11
  <2>. QED  BY <2>1, <2>2
<1>. QED  BY <1>2, <1>3, <1>4, <1>5 DEF Answer

LEMMA SendDataTells ==
  ASSUME ScreenInv, SendData
  PROVE  NotServed' /\ PeersTold' /\ MeTold'
<1>1. /\ QueueTypes /\ SrvTypes /\ session \in Nat /\ posted \in Seq(Notes)
      /\ Meetings \subseteq Nat \ {0}
  BY MeetingAssumption DEF ScreenInv, WindowInv, ConnTypes, QueueTypes
<1>2. /\ conn = "up" /\ conn' = "up" /\ out # <<>>
      /\ Answer(session, Head(out)[1], Head(out)[2])
      /\ posted' = Append(posted, Note("text sent", 0)) \/ posted' = posted
      /\ UNCHANGED <<boxes, partners>>
  BY DEF SendData, uiVars, connVars
<1>3. Head(out)[2] \in Meetings \cup {0}
  BY <1>1, <1>2, RequestTaken
<1>4. NotServed'
  BY <1>2 DEF NotServed
<1>5. CASE srv' \in {0, -1}
  <2>1. ~(srv' > 0)
    BY <1>5
  <2>. QED  BY <1>4, <2>1 DEF PeersTold, MeTold
<1>6. CASE srv # 0 /\ UNCHANGED <<srv, members, inq>>
  <2>1. NoteOf(session, "text sent", 0) \in Notes /\ Plain(NoteOf(session, "text sent", 0))
    <3>1. "text sent" \in Kinds
      BY DEF Kinds
    <3>. QED  BY <1>1, <3>1 DEF NoteOf, Notes, Plain
  <2>2. PICK n \in Notes : n = Note("text sent", 0) /\ Plain(n)
    BY <2>1 DEF Note
  <2>3. /\ Shown(Append(posted, n), partners) = Shown(posted, partners)
        /\ Elements(Append(posted, n)) = Elements(posted) \cup {n}
    <3>1. Shown(Append(posted, n), partners) = After(n, Shown(posted, partners))
      BY <1>1, ShownAppended
    <3>2. After(n, Shown(posted, partners)) = Shown(posted, partners)
      BY <2>2, PlainAfter
    <3>3. Elements(Append(posted, n)) = Elements(posted) \cup {n}
      BY <1>1, Appended
    <3>. QED  BY <3>1, <3>2, <3>3
  <2>4. Shown(posted', partners') = Shown(posted, partners)
    BY <1>2, <2>2, <2>3
  <2>5. Elements(posted) \subseteq Elements(posted')
    BY <1>2, <2>2, <2>3
  <2>6. PeersTold'
    BY <1>2, <1>6, <2>4 DEF ScreenInv, PeersTold
  <2>7. MeTold'
    BY <1>2, <1>6, <2>5 DEF ScreenInv, MeTold
  <2>. QED  BY <1>4, <2>6, <2>7
<1>7. CASE /\ \A S : members' \subseteq Shown(inq', S)
           /\ \E n \in Elements(inq') : Entered(n)
  BY <1>4, <1>7 DEF PeersTold, MeTold
<1>. QED  BY <1>1, <1>2, <1>3, <1>5, <1>6, <1>7, AnswerTells

LEMMA ReconnectTells ==
  ASSUME ScreenInv, Reconnect
  PROVE  NotServed' /\ PeersTold' /\ MeTold'
<1>1. /\ QueueTypes /\ SrvTypes /\ session \in Nat /\ roomNo \in Meetings \cup {0}
  BY DEF ScreenInv, WindowInv, ConnTypes
<1>2. /\ conn = "lost" /\ conn' = "up" /\ session' = session + 1
      /\ \/ Answer(session', "JOIN_MEETING", roomNo)
         \/ srv' = srv
  BY DEF Reconnect, srvVars
<1>3. srv = 0 /\ NotServed'
  BY <1>2 DEF ScreenInv, NotServed
<1>4. CASE srv' \in {0, -1}
  <2>1. ~(srv' > 0)
    BY <1>4
  <2>. QED  BY <1>3, <2>1 DEF PeersTold, MeTold
<1>5. CASE /\ \A S : members' \subseteq Shown(inq', S)
           /\ \E n \in Elements(inq') : Entered(n)
  BY <1>3, <1>5 DEF PeersTold, MeTold
<1>6. session' \in Nat
  BY <1>1, <1>2
<1>. QED  BY <1>1, <1>2, <1>3, <1>4, <1>5, <1>6, AnswerTells

LEMMA PeerTells ==
  ASSUME ScreenInv, PeerComes
  PROVE  NotServed' /\ PeersTold' /\ MeTold'
<1>1. inq \in Seq(Notes) /\ session \in Nat /\ members \subseteq Peers
  BY DEF ScreenInv, WindowInv, ConnTypes, QueueTypes, SrvTypes
<1>2. PICK p \in Peers :
         /\ members' = IF p \in members THEN members \ {p} ELSE members \cup {p}
         /\ inq' = Append(inq, Note(IF p \in members THEN "leaves" ELSE "enters", p))
  BY DEF PeerComes
<1>3. conn = "up" /\ srv > 0 /\ UNCHANGED <<boxes, partners, conn, posted, srv>>
  BY DEF PeerComes, uiVars, connVars
<1>4. p \in Meetings \cup {0, -1} \cup Peers \cup SUBSET Peers
  OBVIOUS
<1>5. PICK n \in Notes : /\ inq' = Append(inq, n) /\ n.arg = p
                         /\ n.kind = IF p \in members THEN "leaves" ELSE "enters"
  <2>1. CASE p \in members
    <3>1. "leaves" \in Kinds \ {"created", "members"}
      BY DEF Kinds
    <3>. QED  BY <1>1, <1>2, <1>4, <2>1, <3>1, NoteTyped DEF Note
  <2>2. CASE p \notin members
    <3>1. "enters" \in Kinds \ {"created", "members"}
      BY DEF Kinds
    <3>. QED  BY <1>1, <1>2, <1>4, <2>2, <3>1, NoteTyped DEF Note
  <2>. QED  BY <2>1, <2>2
<1>6. Elements(inq') = Elements(inq) \cup {n}
  BY <1>1, <1>5, Appended
<1>7. Shown(inq', Shown(posted, partners)) = After(n, Shown(inq, Shown(posted, partners)))
  BY <1>1, <1>5, ShownAppended
<1>8. members \subseteq Shown(inq, Shown(posted, partners))
  BY <1>3 DEF ScreenInv, PeersTold
<1>9. members' \subseteq After(n, Shown(inq, Shown(posted, partners)))
  <2>1. CASE p \in members
    BY <1>1, <1>2, <1>5, <1>8, <2>1 DEF After, Adds, Removes
  <2>2. CASE p \notin members
    BY <1>1, <1>2, <1>5, <1>8, <2>2 DEF After, Adds, Removes
  <2>. QED  BY <2>1, <2>2
<1>10. PeersTold'
  BY <1>3, <1>7, <1>9 DEF PeersTold
<1>11. MeTold' /\ NotServed'
  BY <1>3, <1>6 DEF ScreenInv, MeTold, NotServed
<1>. QED  BY <1>10, <1>11

-----------------------------------------------------------------------------
(* What the window shows *)

\* A slot that shows what its event says, and opens the box after which the user is
\* on the screen.
LEMMA SlotTells ==
  ASSUME ScreenInv, posted # <<>>, posted' = Tail(posted),
         UNCHANGED <<conn, inq, srv, members>>,
         After(Head(posted), partners) \subseteq partners',
         Me \in partners => Me \in partners',
         Elements(boxes) \subseteq Elements(boxes'),
         Entered(Head(posted)) => Elements(boxes') \cap {"created", "joined"} # {}
  PROVE  NotServed' /\ PeersTold' /\ MeTold'
<1>1. posted \in Seq(Notes)
  BY DEF ScreenInv, WindowInv, QueueTypes
<1>2. Shown(posted, partners) = Shown(posted', After(Head(posted), partners))
  BY <1>1, ShownTaken
<1>3. Shown(posted, partners) \subseteq Shown(posted', partners')
  BY <1>2, ShownMore
<1>4. Shown(inq, Shown(posted, partners)) \subseteq Shown(inq, Shown(posted', partners'))
  BY <1>3, ShownMore
<1>5. PeersTold'
  BY <1>4 DEF ScreenInv, PeersTold
<1>6. Elements(posted) = Elements(posted') \cup {Head(posted)}
  BY <1>1, Taken
<1>7. MeTold' /\ NotServed'
  BY <1>6 DEF ScreenInv, MeTold, NotServed
<1>. QED  BY <1>5, <1>7

LEMMA HandleTells ==
  ASSUME ScreenInv, Handle
  PROVE  NotServed' /\ PeersTold' /\ MeTold'
<1> DEFINE n == Head(posted)
<1>1. UiTypes /\ QueueTypes /\ Me \notin Peers
  BY MeetingAssumption DEF ScreenInv, WindowInv
<1>2. posted # <<>> /\ posted' = Tail(posted)
  BY DEF Handle
<1>3. n \in Notes
  BY <1>1, <1>2, NoteTaken
<1>4. CASE n.kind = "closed" /\ Closed
  BY <1>4, NobodyTold DEF Closed, DisconnectFromHost
<1>5. CASE n.kind = "created" /\ Created(n.arg)
  <2>1. /\ UNCHANGED <<partners, conn, inq, srv, members>>
        /\ Push(IF n.arg # 0 THEN "created" ELSE "not created")
    BY <1>5 DEF Created, srvVars
  <2>2. Elements(boxes') = Elements(boxes) \cup {IF n.arg # 0 THEN "created" ELSE "not created"}
    BY <1>1, <2>1, BoxPushed DEF Boxes
  <2>3. After(n, partners) \subseteq partners'
    BY <1>5, <2>1 DEF After, Adds
  <2>4. Entered(n) => Elements(boxes') \cap {"created", "joined"} # {}
    BY <1>5, <2>2 DEF Entered
  <2>. QED  BY <1>2, <2>1, <2>2, <2>3, <2>4, SlotTells
<1>6. CASE n.kind = "joined" /\ Joined(n.arg)
  <2> DEFINE b == IF n.arg > 0 THEN "joined" ELSE IF n.arg = 0 THEN "no meeting" ELSE "full"
  <2>1. /\ UNCHANGED <<partners, conn, inq, srv, members>>
        /\ Push(b)
    BY <1>6 DEF Joined, srvVars
  <2>2. b \in Boxes
    BY DEF Boxes
  <2>3. Elements(boxes') = Elements(boxes) \cup {b}
    BY <1>1, <2>1, <2>2, BoxPushed
  <2>4. After(n, partners) \subseteq partners'
    BY <1>6, <2>1 DEF After, Adds
  <2>5. Entered(n) => b = "joined"
    BY <1>6 DEF Entered
  <2>. QED  BY <1>2, <2>1, <2>3, <2>4, <2>5, SlotTells
<1>7. ASSUME NEW S \in SUBSET Peers, AddPartners(S), OnlyScreen,
             n.kind \in {"members", "enters"}, n.kind = "members" => S = n.arg,
             n.kind = "enters" => S = {n.arg}
      PROVE  NotServed' /\ PeersTold' /\ MeTold'
  <2>1. /\ UNCHANGED <<boxes, conn, inq, srv, members>>
        /\ partners' = partners \cup S
    BY <1>7 DEF AddPartners, OnlyScreen, connVars, srvVars
  <2>2. After(n, partners) \subseteq partners'
    BY <1>7, <2>1 DEF After, Adds
  <2>3. ~Entered(n)
    BY <1>7 DEF Entered
  <2>. QED  BY <1>2, <2>1, <2>2, <2>3, SlotTells
<1>8. CASE n.kind = "members" /\ MembersListed(n.arg)
  <2>1. n.arg \in SUBSET Peers
    BY <1>3, <1>8 DEF Notes
  <2>. QED  BY <1>7, <1>8, <2>1 DEF MembersListed
<1>9. CASE n.kind = "enters" /\ AddPartners({n.arg}) /\ OnlyScreen
  <2>1. {n.arg} \in SUBSET Peers
    BY <1>3, <1>9 DEF Notes
  <2>. QED  BY <1>7, <1>9, <2>1
<1>10. CASE n.kind = "leaves" /\ partners' = partners \ {n.arg} /\ enabled' = enabled /\ OnlyScreen
  <2>1. UNCHANGED <<boxes, conn, inq, srv, members>>
    BY <1>10 DEF OnlyScreen, connVars, srvVars
  <2>2. n.arg \in Peers
    BY <1>3, <1>10 DEF Notes
  <2>3. After(n, partners) \subseteq partners'
    BY <1>10 DEF After, Adds, Removes
  <2>4. Me \in partners => Me \in partners'
    BY <1>1, <1>10, <2>2
  <2>5. ~Entered(n)
    BY <1>10 DEF Entered
  <2>. QED  BY <1>2, <2>1, <2>3, <2>4, <2>5, SlotTells
<1>11. CASE /\ n.kind = "error" /\ Push("error")
            /\ UNCHANGED <<enabled, createmeet, joinmeet, partners, connVars, out, inq, srvVars>>
  <2>1. /\ UNCHANGED <<partners, conn, inq, srv, members>> /\ Elements(boxes) \subseteq Elements(boxes')
    BY <1>1, <1>11, BoxPushed DEF connVars, srvVars, Boxes
  <2>2. After(n, partners) \subseteq partners' /\ ~Entered(n)
    BY <1>11, <2>1 DEF After, Adds, Entered
  <2>. QED  BY <1>2, <2>1, <2>2, SlotTells
<1>12. CASE \/ n.kind = "reconnected" /\ Reconnected
            \/ n.kind = "text sent" /\ partners' = partners /\ OnlyScreen
  <2>1. UNCHANGED <<boxes, partners, conn, inq, srv, members>>
    BY <1>12 DEF Reconnected, OnlyScreen, connVars, srvVars
  <2>2. After(n, partners) \subseteq partners' /\ ~Entered(n)
    BY <1>12, <2>1 DEF After, Adds, Entered
  <2>. QED  BY <1>2, <2>1, <2>2, SlotTells
<1>. QED  BY <1>4, <1>5, <1>6, <1>8, <1>9, <1>10, <1>11, <1>12 DEF Handle

\* Closing a box takes nobody off the screen, but with a connection that is given up.
LEMMA CloseBoxTells ==
  ASSUME ScreenInv, CloseBox
  PROVE  NotServed' /\ PeersTold' /\ MeTold'
<1> DEFINE b == boxes[Len(boxes)]
<1>1. UiTypes /\ boxes # <<>> /\ posted' = posted
  BY DEF ScreenInv, WindowInv, CloseBox
<1>2. CASE b = "error" /\ AfterError
  BY <1>2, NobodyTold DEF AfterError, DisconnectFromHost
<1>3. ASSUME UNCHANGED <<conn, inq, srv, members>>, partners \subseteq partners',
             Elements(boxes) \subseteq Elements(boxes') \cup {b},
             b \in {"created", "joined"} => Me \in partners'
      PROVE  NotServed' /\ PeersTold' /\ MeTold'
  <2>1. Shown(posted, partners) \subseteq Shown(posted', partners')
    BY <1>1, <1>3, ShownMore
  <2>2. Shown(inq, Shown(posted, partners)) \subseteq Shown(inq, Shown(posted', partners'))
    BY <2>1, ShownMore
  <2>3. PeersTold'
    BY <1>3, <2>2 DEF ScreenInv, PeersTold
  <2>4. MeTold' /\ NotServed'
    BY <1>1, <1>3 DEF ScreenInv, MeTold, NotServed
  <2>. QED  BY <2>3, <2>4
<1>4. Pop => Elements(boxes) \subseteq Elements(boxes') \cup {b}
  BY <1>1, BoxPopped
<1>5. CASE b = "created" /\ AfterCreated
  BY <1>3, <1>4, <1>5 DEF AfterCreated, connVars, srvVars
<1>6. CASE b = "joined" /\ AfterJoined
  BY <1>3, <1>4, <1>6 DEF AfterJoined, connVars, srvVars
<1>7. CASE b = "no create" /\ AfterNoCreate
  <2>1. boxes \in Seq(Boxes) /\ "connected" \in Boxes
    BY <1>1 DEF UiTypes, Boxes
  <2>2. Elements(boxes) \subseteq Elements(boxes') \cup {b}
    BY <1>1, <1>7, <2>1, LastReplaced DEF AfterNoCreate
  <2>. QED  BY <1>3, <1>7, <2>2 DEF AfterNoCreate, connVars, srvVars
<1>8. CASE \/ b = "not created" /\ AfterNotCreated
           \/ b = "no meeting" /\ AfterNoMeeting
           \/ b = "connected" /\ AfterConnected
           \/ b = "no right" /\ AfterNoRight
           \/ b \in {"full", "refused", "left", "ended"} /\ AfterOther
  <2>1. Pop /\ UNCHANGED <<partners, conn, inq, srv, members>> /\ b \notin {"created", "joined"}
    BY <1>8 DEF AfterNotCreated, AfterNoMeeting, AfterConnected, AfterNoRight, AfterOther,
                connVars, srvVars
  <2>. QED  BY <1>3, <1>4, <2>1
<1>. QED  BY <1>2, <1>5, <1>6, <1>7, <1>8 DEF CloseBox

LEMMA ScreenInit == Init => ScreenInv
<1> SUFFICES ASSUME Init  PROVE ScreenInv
  OBVIOUS
<1>1. srv = 0 /\ ~(srv > 0)
  BY DEF Init
<1>. QED  BY <1>1, WindowInit DEF ScreenInv, NotServed, PeersTold, MeTold

LEMMA ScreenStep == ScreenInv /\ [Next]_vars => ScreenInv'
<1> SUFFICES ASSUME ScreenInv, [Next]_vars  PROVE ScreenInv'
  OBVIOUS
<1>1. WindowInv'
  BY WindowStep DEF ScreenInv
<1>2. CASE User \/ SendTextRun
  BY <1>1, <1>2, UserTells DEF ScreenInv
<1>3. CASE RecvSolveRun \/ SendData \/ Reconnect
  BY <1>1, <1>3, RecvSolveTells, SendDataTells, ReconnectTells DEF ScreenInv
<1>4. CASE DropData
  <2>1. srv' = 0
    BY <1>4 DEF DropData, ScreenInv, NotServed, srvVars
  <2>. QED  BY <1>1, <2>1, NobodyTold DEF ScreenInv
<1>5. CASE Lose
  <2>1. srv' = 0
    BY <1>5 DEF Lose
  <2>. QED  BY <1>1, <2>1, NobodyTold DEF ScreenInv
<1>6. CASE PeerComes \/ Handle \/ CloseBox
  BY <1>1, <1>6, PeerTells, HandleTells, CloseBoxTells DEF ScreenInv
<1>7. CASE UNCHANGED vars
  <2>1. UNCHANGED <<partners, conn, posted, inq, srv, members, boxes>>
    BY <1>7 DEF vars, uiVars, connVars, queueVars, srvVars
  <2>2. NotServed' /\ PeersTold' /\ MeTold'
    BY <2>1, NothingTold
  <2>. QED  BY <1>1, <2>2 DEF ScreenInv
<1>. QED  BY <1>2, <1>3, <1>4, <1>5, <1>6, <1>7 DEF Next, Threads

LEMMA ScreenComplete == ScreenInv => NobodyMissing
<1> SUFFICES ASSUME ScreenInv, Settled, conn = "up", srv > 0
             PROVE  members \cup {Me} \subseteq partners
  BY DEF NobodyMissing
<1>1. inq = <<>> /\ posted = <<>> /\ boxes = <<>>
  BY DEF Settled
<1>2. \A S : Shown(<<>>, S) = S \cap Peers
  BY DEF Shown, Says
<1>3. members \subseteq partners
  BY <1>1, <1>2 DEF ScreenInv, PeersTold
<1>4. Me \in partners
  BY <1>1, NothingIn DEF ScreenInv, MeTold
<1>. QED  BY <1>3, <1>4

\* Once everything is shown, everybody in the meeting is on the screen, the user
\* included, whatever boxes were open while they came and however often the connection
\* was lost and the room entered again.
THEOREM EverybodyIsShown == Spec => []NobodyMissing
  BY ScreenInit, ScreenStep, ScreenComplete, PTL DEF Spec

-----------------------------------------------------------------------------
(* Which buttons are enabled, while no answer and no error meets an open box or a   *)
(* later connection                                                                 *)

Telling == {"created", "joined", "closed", "error", "reconnected"}

\* The last event of s that changes the buttons for meetings lets the user in.
LetsIn(s) ==
    \E i \in DOMAIN s : Entered(s[i]) /\ \A j \in DOMAIN s : j > i => s[j].kind \notin Telling

\* Nothing in s changes those buttons.
Quiet(s) == \A i \in DOMAIN s : s[i].kind \notin Telling

Open(B) == Elements(boxes) \cap B # {}

\* Slots are not stopped inside each other.
OneBox == ~tangled => boxes = <<>> \/ \E b \in Boxes : boxes = <<b>>

ErrorSeen == Open({"error"}) => erred

\* An answer that lets the user in is on its way only while the user is in a room.
EnteredHere ==
    conn = "up" =>
        \A n \in Elements(inq) \cup Elements(posted) :
            n.session = session /\ Entered(n) => srv > 0

OffNotes == conn = "off" => \A n \in Elements(posted) : n.session = session => n.kind = "error"

\* In a room: the answer that lets the user in is the last to come, or its box is open,
\* or the window knows.
Knows ==
    /\ boxes = <<>> /\ "exit" \in enabled /\ (createmeet \/ joinmeet)
    /\ "create" \in enabled => createmeet

InsideFit ==
    conn = "up" /\ srv > 0 /\ ~tangled =>
        \/ LetsIn(inq)
        \/ Quiet(inq) /\ LetsIn(posted)
        \/ Quiet(inq) /\ Quiet(posted) /\ (Open({"created", "joined"}) \/ Knows)

\* In none: the button for joining is enabled or will be, and nothing disables it.
Again == \E n \in Elements(posted) : n.kind = "reconnected"

JoinFit ==
    conn = "up" /\ srv = 0 /\ ~tangled =>
        \/ Again
        \/ ("join" \in enabled \/ Open({"no create"})) /\ ~Open({"created", "joined"})

\* The same of creating: the request that disables the button is answered.
CreateFit ==
    conn = "up" /\ srv = 0 /\ ~tangled /\ role = "factory" =>
        \/ Again
        \/ "create" \in enabled
        \/ \E m \in Elements(textqueue) \cup Elements(out) : m[1] = "CREATE_MEETING"
        \/ \E n \in Elements(inq) \cup Elements(posted) : n.kind = "created"
        \/ Open({"not created"})

\* Not connected: no slot that would disable the button for connecting is stopped.
OutsideFit ==
    conn = "off" /\ ~tangled /\ ~erred =>
        "connect" \in enabled /\ ~Open({"connected", "no create", "no meeting"})

Fits ==
    /\ OneBox /\ ErrorSeen /\ EnteredHere /\ OffNotes
    /\ InsideFit /\ JoinFit /\ CreateFit /\ OutsideFit

LEMMA LastAppended ==
  ASSUME NEW s \in Seq(Notes), NEW n \in Notes
  PROVE  /\ Quiet(Append(s, n)) <=> (Quiet(s) /\ n.kind \notin Telling)
         /\ LetsIn(Append(s, n)) <=> (Entered(n) \/ (LetsIn(s) /\ n.kind \notin Telling))
<1> DEFINE a == Append(s, n)
<1>1. Len(s) \in Nat /\ DOMAIN s = 1..Len(s)
  BY LenProperties
<1>2. /\ Len(a) = Len(s) + 1 /\ a \in Seq(Notes)
      /\ \A i \in 1..Len(s) : a[i] = s[i]
      /\ a[Len(s) + 1] = n
  BY AppendProperties
<1>3. DOMAIN a = 1..(Len(s) + 1)
  BY <1>2, LenProperties
<1>. HIDE DEF a
<1>4. /\ Len(s) + 1 \in DOMAIN a
      /\ \A j \in DOMAIN s : j \in DOMAIN a /\ a[j] = s[j] /\ Len(s) + 1 > j
      /\ \A j \in DOMAIN a : ~(j > Len(s) + 1)
      /\ \A j \in DOMAIN a : (j \in DOMAIN s /\ a[j] = s[j]) \/ j = Len(s) + 1
  BY <1>1, <1>2, <1>3
<1>5. Quiet(a) <=> (Quiet(s) /\ n.kind \notin Telling)
  BY <1>2, <1>4 DEF Quiet
<1>6. Entered(n) => LetsIn(a)
  BY <1>2, <1>4 DEF LetsIn
<1>7. LetsIn(s) /\ n.kind \notin Telling => LetsIn(a)
  BY <1>2, <1>4 DEF LetsIn
<1>8. ASSUME LetsIn(a), ~Entered(n)  PROVE LetsIn(s) /\ n.kind \notin Telling
  <2>1. PICK i \in DOMAIN a : Entered(a[i]) /\ \A j \in DOMAIN a : j > i => a[j].kind \notin Telling
    BY <1>8 DEF LetsIn
  <2>2. i \in DOMAIN s /\ a[i] = s[i]
    BY <1>2, <1>4, <1>8, <2>1
  <2>3. n.kind \notin Telling
    BY <1>2, <1>4, <2>1, <2>2
  <2>4. LetsIn(s)
    BY <1>4, <2>1, <2>2 DEF LetsIn
  <2>. QED  BY <2>3, <2>4
<1>. QED  BY <1>5, <1>6, <1>7, <1>8 DEF a

LEMMA LastTakenOff ==
  ASSUME NEW s \in Seq(Notes), s # <<>>
  PROVE  /\ Quiet(s) <=> (Quiet(Tail(s)) /\ Head(s).kind \notin Telling)
         /\ LetsIn(s) <=> (LetsIn(Tail(s)) \/ (Entered(Head(s)) /\ Quiet(Tail(s))))
<1> DEFINE t == Tail(s)
<1>1. Len(s) \in Nat \ {0} /\ DOMAIN s = 1..Len(s)
  BY LenProperties, EmptySeq
<1>2. /\ t \in Seq(Notes) /\ Head(s) = s[1] /\ Len(t) = Len(s) - 1
      /\ \A i \in 1..Len(t) : t[i] = s[i + 1]
  BY HeadTailProperties
<1>3. DOMAIN t = 1..(Len(s) - 1)
  BY <1>2, LenProperties
<1>. HIDE DEF t
<1>4. 1 \in DOMAIN s /\ \A j \in DOMAIN s : j = 1 \/ (j - 1 \in DOMAIN t /\ t[j - 1] = s[j] /\ j > 1)
  <2>1. ASSUME NEW j \in DOMAIN s, j # 1  PROVE j - 1 \in DOMAIN t /\ t[j - 1] = s[j] /\ j > 1
    <3>1. j - 1 \in 1..(Len(s) - 1) /\ j \in Nat /\ (j - 1) + 1 = j /\ j > 1
      BY <1>1, <2>1
    <3>2. t[j - 1] = s[(j - 1) + 1]
      BY <1>2, <3>1
    <3>. QED  BY <1>3, <3>1, <3>2
  <2>. QED  BY <1>1, <2>1
<1>5. \A j \in DOMAIN t : j + 1 \in DOMAIN s /\ s[j + 1] = t[j] /\ j + 1 > 1
  BY <1>1, <1>2, <1>3
<1>6. \A i \in DOMAIN t : i \in Int /\ \A j \in DOMAIN s : j \in Int /\ (j - 1 > i <=> j > i + 1)
  BY <1>1, <1>3
<1>7. Quiet(s) <=> (Quiet(t) /\ Head(s).kind \notin Telling)
  BY <1>2, <1>4, <1>5 DEF Quiet
<1>8. ASSUME Entered(Head(s)), Quiet(t)  PROVE LetsIn(s)
  <2>1. \A j \in DOMAIN s : j > 1 => j # 1
    BY <1>1
  <2>2. \A j \in DOMAIN s : j > 1 => s[j].kind \notin Telling
    BY <1>4, <1>8, <2>1 DEF Quiet
  <2>. QED  BY <1>2, <1>4, <1>8, <2>2 DEF LetsIn
<1>9. ASSUME LetsIn(t)  PROVE LetsIn(s)
  <2>1. PICK i \in DOMAIN t : Entered(t[i]) /\ \A j \in DOMAIN t : j > i => t[j].kind \notin Telling
    BY <1>9 DEF LetsIn
  <2>2. i + 1 \in DOMAIN s /\ Entered(s[i + 1])
    BY <1>5, <2>1
  <2>3. ASSUME NEW j \in DOMAIN s, j > i + 1  PROVE s[j].kind \notin Telling
    <3>1. j # 1 /\ j - 1 > i
      BY <1>1, <1>3, <1>6, <2>3
    <3>. QED  BY <1>4, <2>1, <3>1
  <2>. QED  BY <2>2, <2>3 DEF LetsIn
<1>10. ASSUME LetsIn(s)  PROVE LetsIn(t) \/ (Entered(Head(s)) /\ Quiet(t))
  <2>1. PICK i \in DOMAIN s : Entered(s[i]) /\ \A j \in DOMAIN s : j > i => s[j].kind \notin Telling
    BY <1>10 DEF LetsIn
  <2>2. CASE i = 1
    <3>1. \A j \in DOMAIN t : t[j].kind \notin Telling
      BY <1>5, <2>1, <2>2
    <3>. QED  BY <1>2, <2>1, <2>2, <3>1 DEF Quiet
  <2>3. CASE i # 1
    <3>1. i - 1 \in DOMAIN t /\ t[i - 1] = s[i]
      BY <1>4, <2>3
    <3>2. \A j \in DOMAIN t : j > i - 1 => j + 1 > i
      BY <1>1, <1>3
    <3>3. \A j \in DOMAIN t : j > i - 1 => t[j].kind \notin Telling
      BY <1>5, <2>1, <3>2
    <3>. QED  BY <2>1, <3>1, <3>3 DEF LetsIn
  <2>. QED  BY <2>2, <2>3
<1>. QED  BY <1>7, <1>8, <1>9, <1>10 DEF t

LEMMA OneIn == \A b : Elements(<<b>>) = {b}
<1> TAKE b
<1>1. DOMAIN <<b>> = {1} /\ <<b>>[1] = b
  OBVIOUS
<1>. QED  BY <1>1 DEF Elements

\* The only box there is.
LEMMA PushedOne ==
  ASSUME NEW b, Push(b), boxes = <<>>
  PROVE  boxes' = <<b>> /\ Elements(boxes') = {b}
<1>1. boxes' = <<b>>
  BY DEF Push
<1>. QED  BY <1>1, OneIn

LEMMA ClosedOne ==
  ASSUME OneBox, ~tangled, boxes # <<>>
  PROVE  /\ Elements(boxes) = {boxes[Len(boxes)]}
         /\ Pop => boxes' = <<>> /\ Elements(boxes') = {}
         /\ \A e : [boxes EXCEPT ![Len(boxes)] = e] = <<e>>
<1>1. PICK b \in Boxes : boxes = <<b>>
  BY DEF OneBox
<1>2. Len(boxes) = 1 /\ boxes[Len(boxes)] = b /\ SubSeq(boxes, 1, 0) = <<>>
  BY <1>1
<1>3. Pop => boxes' = <<>>
  BY <1>2 DEF Pop
<1>4. \A e : [boxes EXCEPT ![Len(boxes)] = e] = <<e>>
  BY <1>1, <1>2
<1>. QED  BY <1>1, <1>2, <1>3, <1>4, OneIn, NothingIn

\* Without a connection there is little to keep.
LEMMA FitsOffline ==
  ASSUME OneBox', ErrorSeen', conn' # "up", OffNotes', OutsideFit'
  PROVE  Fits'
  BY DEF Fits, EnteredHere, InsideFit, JoinFit, CreateFit

LEMMA NoRoom == \A k : k = 0 => ~(k > 0)
  OBVIOUS

LEMMA ConnectFits ==
  ASSUME ScreenInv, Fits, ClickConnect
  PROVE  Fits'
<1>1. /\ boxes = <<>> /\ conn = "off" /\ srv = 0
  BY NothingIn DEF ClickConnect, CanClick, ScreenInv, WindowInv, ConnectEnds, NotServed
<1>2. UNCHANGED <<role, createmeet, joinmeet, session, textqueue, out, posted, srv, tangled, erred>>
  BY DEF ClickConnect, srvVars
<1>3. CASE /\ conn' = "up" /\ inq' = inq
           /\ IF role = "factory"
              THEN enabled' = (enabled \cup {"create", "join"}) \ {"exit"} /\ Push("connected")
              ELSE enabled' = enabled \ {"create"} /\ Push("no create")
  <2>1. PICK b \in {"connected", "no create"} :
           /\ boxes' = <<b>> /\ Elements(boxes') = {b}
           /\ role = "factory" => "create" \in enabled' /\ "join" \in enabled'
           /\ role # "factory" => b = "no create"
    BY <1>1, <1>3, PushedOne
  <2>2. OneBox' /\ ErrorSeen'
    BY <2>1 DEF OneBox, ErrorSeen, Open, Boxes
  <2>3. EnteredHere'
    <3>1. \A n \in Elements(inq) \cup Elements(posted) : n.session = session => n.kind = "error"
      BY <1>1 DEF Fits, OffNotes, ScreenInv, WindowInv, NotesOfSessions
    <3>. QED  BY <1>2, <1>3, <3>1 DEF EnteredHere, Entered
  <2>4. ~(srv' > 0)
    <3>1. srv' = 0
      BY <1>1, <1>2
    <3>. QED  BY <3>1, NoRoom
  <2>5. InsideFit' /\ OffNotes' /\ OutsideFit'
    BY <1>3, <2>4 DEF InsideFit, OffNotes, OutsideFit
  <2>6. JoinFit' /\ CreateFit'
    BY <1>2, <2>1 DEF JoinFit, CreateFit, Open
  <2>. QED  BY <2>2, <2>3, <2>5, <2>6 DEF Fits
<1>4. CASE UNCHANGED <<conn, enabled>> /\ Push("refused")
  <2>1. boxes' = <<"refused">> /\ Elements(boxes') = {"refused"}
    BY <1>1, <1>4, PushedOne
  <2>2. OneBox' /\ ErrorSeen'
    BY <2>1 DEF OneBox, ErrorSeen, Open, Boxes
  <2>3. OffNotes' /\ OutsideFit'
    BY <1>1, <1>2, <1>4, <2>1 DEF Fits, OffNotes, OutsideFit, Open
  <2>. QED  BY <1>1, <1>4, <2>2, <2>3, FitsOffline
<1>. QED  BY <1>3, <1>4 DEF ClickConnect

\* What has been told is of an earlier connection once there is a new one.
LEMMA OldNotes ==
  ASSUME WindowInv, session' = session + 1
  PROVE  \A n \in Elements(inq) \cup Elements(posted) : n.session # session'
<1>1. /\ session \in Nat
      /\ \A n \in Elements(inq) \cup Elements(posted) : n.session <= session
  BY DEF WindowInv, ConnTypes, NotesOfSessions
<1>2. \A n \in Elements(inq) \cup Elements(posted) : n \in Notes
  <2>1. /\ \A i \in DOMAIN posted : posted[i] \in Notes
        /\ \A i \in DOMAIN inq : inq[i] \in Notes
    BY LenProperties DEF WindowInv, QueueTypes
  <2>. QED  BY <2>1 DEF Elements
<1>3. \A n \in Notes : n.session \in Nat
  BY DEF Notes
<1>4. TAKE n \in Elements(inq) \cup Elements(posted)
<1>5. n.session \in Nat /\ n.session <= session
  BY <1>1, <1>2, <1>3
<1>. QED  BY <1>1, <1>5

\* Nothing comes from a connection that has been given up but what is posted.
LEMMA FitsDisconnected ==
  ASSUME ScreenInv, DisconnectFromHost, Elements(posted') \subseteq Elements(posted)
  PROVE  conn' = "off" /\ OffNotes'
<1>1. conn' = "off" /\ session' = session + 1
  BY DEF DisconnectFromHost
<1>2. \A n \in Elements(posted) : n.session # session'
  BY <1>1, OldNotes DEF ScreenInv
<1>. QED  BY <1>1, <1>2 DEF OffNotes

LEMMA ExitFits ==
  ASSUME ScreenInv, Fits, ClickExit
  PROVE  Fits'
<1>1. /\ boxes = <<>> /\ enabled' = (enabled \ {"create", "exit"}) \cup {"connect"}
      /\ DisconnectFromHost /\ Push("left") /\ UNCHANGED <<posted, tangled, erred>>
  BY DEF ClickExit, CanClick, history
<1>2. boxes' = <<"left">> /\ Elements(boxes') = {"left"}
  BY <1>1, PushedOne
<1>3. conn' = "off" /\ OffNotes'
  BY <1>1, FitsDisconnected
<1>4. OneBox' /\ ErrorSeen' /\ OutsideFit'
  BY <1>1, <1>2 DEF OneBox, ErrorSeen, OutsideFit, Open, Boxes
<1>. QED  BY <1>3, <1>4, FitsOffline

\* A step that leaves the connection and what comes from it alone.
LEMMA FitsHere ==
  ASSUME Fits, UNCHANGED <<role, conn, session, srv, inq, posted, tangled, erred>>,
         OneBox', ErrorSeen', InsideFit', JoinFit', CreateFit', OutsideFit'
  PROVE  Fits'
<1>1. EnteredHere' /\ OffNotes'
  BY DEF Fits, EnteredHere, OffNotes
<1>. QED  BY <1>1 DEF Fits

LEMMA ClickFits ==
  ASSUME ScreenInv, Fits, EditMeetno \/ ClickCreate \/ ClickJoin \/ ClickSend
  PROVE  Fits'
<1>1. /\ UNCHANGED <<role, conn, session, srv, inq, posted, out, createmeet, joinmeet, tangled, erred>>
      /\ boxes = <<>>
      /\ UiTypes /\ QueueTypes
  BY DEF EditMeetno, ClickCreate, ClickJoin, ClickSend, CanClick, uiVars, connVars, queueVars,
         srvVars, history, ScreenInv, WindowInv
<1>2. Elements(textqueue) \subseteq Elements(textqueue')
  <2>1. \/ textqueue' = textqueue \/ PushText("CREATE_MEETING", 0)
        \/ PushText("JOIN_MEETING", meetno) \/ PushText("TEXT_SEND", 0)
    BY DEF EditMeetno, ClickCreate, AskForMeeting, ClickJoin, ClickSend, queueVars
  <2>2. meetno \in Meetings \cup {0}
    BY <1>1 DEF UiTypes
  <2>. QED  BY <1>1, <2>1, <2>2, TextPushed
<1>3. Elements(boxes) = {}
  BY <1>1, NothingIn
<1>4. CASE boxes' = boxes /\ (enabled' = enabled \/ enabled' = enabled \ {"send"})
  <2>1. OneBox' /\ ErrorSeen'
    BY <1>1, <1>4 DEF Fits, OneBox, ErrorSeen, Open
  <2>2. InsideFit'
    BY <1>1, <1>4 DEF Fits, InsideFit, Knows, Open
  <2>3. JoinFit' /\ CreateFit'
    BY <1>1, <1>2, <1>4 DEF Fits, JoinFit, CreateFit, Again, Open
  <2>4. OutsideFit'
    BY <1>1, <1>4 DEF Fits, OutsideFit, Open
  <2>. QED  BY <1>1, <2>1, <2>2, <2>3, <2>4, FitsHere
<1>5. CASE ClickCreate
  <2>1. "create" \in enabled /\ ~createmeet /\ ~Knows
    BY <1>5 DEF ClickCreate, CanClick, Knows
  <2>2. InsideFit'
    <3>1. ~Open({"created", "joined"})
      BY <1>3 DEF Open
    <3>. QED  BY <1>1, <2>1, <3>1 DEF Fits, InsideFit
  <2>3. CASE role = "expert"
    <3>1. /\ boxes' = <<"no right">> /\ Elements(boxes') = {"no right"} /\ enabled' = enabled
      BY <1>1, <1>5, <2>3, PushedOne DEF ClickCreate
    <3>2. OneBox' /\ ErrorSeen'
      BY <3>1 DEF OneBox, ErrorSeen, Open, Boxes
    <3>3. JoinFit' /\ CreateFit' /\ OutsideFit'
      BY <1>1, <1>3, <2>3, <3>1 DEF Fits, JoinFit, CreateFit, OutsideFit, Again, Open
    <3>. QED  BY <1>1, <2>2, <3>2, <3>3, FitsHere
  <2>4. CASE role # "expert"
    <3>1. /\ boxes' = boxes /\ enabled' = enabled \ {"create", "exit"}
          /\ PushText("CREATE_MEETING", 0)
      BY <1>5, <2>4 DEF ClickCreate, AskForMeeting
    <3>2. \E m \in Elements(textqueue') : m[1] = "CREATE_MEETING"
      BY <1>1, <3>1, TextPushed
    <3>3. OneBox' /\ ErrorSeen'
      BY <1>1, <3>1 DEF Fits, OneBox, ErrorSeen, Open
    <3>4. JoinFit' /\ CreateFit' /\ OutsideFit'
      BY <1>1, <3>1, <3>2 DEF Fits, JoinFit, CreateFit, OutsideFit, Again, Open
    <3>. QED  BY <1>1, <2>2, <3>3, <3>4, FitsHere
  <2>. QED  BY <2>3, <2>4
<1>6. CASE EditMeetno \/ ClickJoin \/ ClickSend
  BY <1>4, <1>6 DEF EditMeetno, ClickJoin, ClickSend, uiVars
<1>. QED  BY <1>5, <1>6

LEMMA SendTextFits ==
  ASSUME ScreenInv, Fits, SendTextRun
  PROVE  Fits'
<1>1. /\ UNCHANGED <<role, conn, session, srv, inq, posted, tangled, erred, boxes, enabled,
                     createmeet, joinmeet>>
      /\ QueueTypes /\ textqueue # <<>> /\ textqueue' = Tail(textqueue)
      /\ out' = Append(out, Head(textqueue))
  BY DEF SendTextRun, uiVars, connVars, srvVars, history, ScreenInv, WindowInv
<1>2. /\ Head(textqueue) \in Requests
      /\ Elements(textqueue) = Elements(textqueue') \cup {Head(textqueue)}
  BY <1>1, Taken DEF QueueTypes
<1>3. Elements(out') = Elements(out) \cup {Head(textqueue)}
  BY <1>1, <1>2, Appended DEF QueueTypes
<1>4. OneBox' /\ ErrorSeen' /\ InsideFit' /\ JoinFit' /\ OutsideFit'
  BY <1>1 DEF Fits, OneBox, ErrorSeen, InsideFit, Knows, JoinFit, Again, OutsideFit, Open
<1>5. CreateFit'
  BY <1>1, <1>2, <1>3 DEF Fits, CreateFit, Again, Open
<1>. QED  BY <1>1, <1>4, <1>5, FitsHere

LEMMA RecvSolveFits ==
  ASSUME ScreenInv, Fits, RecvSolveRun
  PROVE  Fits'
<1>1. /\ UNCHANGED <<role, conn, session, srv, textqueue, out, tangled, erred, boxes, enabled,
                     createmeet, joinmeet>>
      /\ inq # <<>> /\ inq' = Tail(inq) /\ posted' = Append(posted, Head(inq))
      /\ inq \in Seq(Notes) /\ posted \in Seq(Notes)
  BY DEF RecvSolveRun, uiVars, connVars, srvVars, history, ScreenInv, WindowInv, QueueTypes
<1>2. /\ Head(inq) \in Notes
      /\ Elements(inq) = Elements(inq') \cup {Head(inq)}
  BY <1>1, Taken
<1>3. Elements(posted') = Elements(posted) \cup {Head(inq)}
  BY <1>1, <1>2, Appended
<1>4. OneBox' /\ ErrorSeen' /\ OutsideFit'
  BY <1>1 DEF Fits, OneBox, ErrorSeen, OutsideFit, Open
<1>5. EnteredHere'
  BY <1>1, <1>2, <1>3 DEF Fits, EnteredHere
<1>6. OffNotes'
  BY <1>1, <1>2, <1>3 DEF Fits, OffNotes, ScreenInv, WindowInv, NotesOfSessions
<1>7. JoinFit' /\ CreateFit'
  BY <1>1, <1>2, <1>3 DEF Fits, JoinFit, CreateFit, Again, Open
<1>8. InsideFit'
  <2>1. /\ Quiet(inq) <=> (Quiet(inq') /\ Head(inq).kind \notin Telling)
        /\ LetsIn(inq) <=> (LetsIn(inq') \/ (Entered(Head(inq)) /\ Quiet(inq')))
    BY <1>1, LastTakenOff
  <2>2. /\ Quiet(posted') <=> (Quiet(posted) /\ Head(inq).kind \notin Telling)
        /\ LetsIn(posted') <=> (Entered(Head(inq)) \/ (LetsIn(posted) /\ Head(inq).kind \notin Telling))
    BY <1>1, <1>2, LastAppended
  <2>3. Knows' = Knows /\ Open({"created", "joined"})' = Open({"created", "joined"})
    BY <1>1 DEF Knows, Open
  <2>. QED  BY <1>1, <2>1, <2>2, <2>3 DEF Fits, InsideFit
<1>. QED  BY <1>4, <1>5, <1>6, <1>7, <1>8 DEF Fits

\* Two events at the end of s.
LEMMA TwoLast ==
  ASSUME NEW s \in Seq(Notes), NEW a \in Notes, NEW b \in Notes
  PROVE  /\ Elements(s \o <<a, b>>) = Elements(s) \cup {a, b}
         /\ LetsIn(s \o <<a, b>>) <=>
              \/ Entered(b)
              \/ (Entered(a) \/ (LetsIn(s) /\ a.kind \notin Telling)) /\ b.kind \notin Telling
<1>1. PICK q : q = Append(s, a)
  OBVIOUS
<1>2. q \in Seq(Notes) /\ Elements(q) = Elements(s) \cup {a}
  BY <1>1, Appended
<1>3. s \o <<a, b>> = Append(q, b)
  BY <1>1, TwoAppended
<1>4. Elements(Append(q, b)) = Elements(q) \cup {b}
  BY <1>2, Appended
<1>5. LetsIn(q) <=> (Entered(a) \/ (LetsIn(s) /\ a.kind \notin Telling))
  BY <1>1, LastAppended
<1>6. LetsIn(Append(q, b)) <=> (Entered(b) \/ (LetsIn(q) /\ b.kind \notin Telling))
  BY <1>2, LastAppended
<1>. QED  BY <1>2, <1>3, <1>4, <1>5, <1>6

\* The answer that lets the user into a room is the last to tell of one, and a request
\* to create a meeting is answered.
LEMMA AnswerFits ==
  ASSUME QueueTypes, SrvTypes, NEW s \in Nat, NEW type, NEW r \in Meetings \cup {0},
         Answer(s, type, r)
  PROVE  /\ Elements(inq) \subseteq Elements(inq')
         /\ srv # 0 => UNCHANGED <<srv, inq>>
         /\ srv = 0 /\ srv' > 0 => LetsIn(inq')
         /\ srv' > 0 \/ \A n \in Elements(inq') : Entered(n) => n \in Elements(inq)
         /\ srv = 0 /\ srv' = 0 /\ type = "CREATE_MEETING" =>
              \E n \in Elements(inq') : n.kind = "created"
<1>1. Meetings \subseteq Nat \ {0} /\ inq \in Seq(Notes)
  BY MeetingAssumption DEF QueueTypes
<1>2. CASE srv # 0
  <2>1. UNCHANGED <<srv, inq>>
    BY <1>2 DEF Answer
  <2>. QED  BY <1>2, <2>1
<1>3. CASE srv = 0 /\ type = "TEXT_SEND"
  <2>1. srv' = -1 /\ inq' = inq /\ type # "CREATE_MEETING"
    BY <1>3 DEF Answer
  <2>2. ~(srv' > 0)
    BY <2>1
  <2>. QED  BY <1>3, <2>1, <2>2
<1>4. CASE srv = 0 /\ type = "CREATE_MEETING"
  <2>1. PICK c \in Meetings \cup {0} : srv' = c /\ inq' = Append(inq, NoteOf(s, "created", c))
    BY <1>4 DEF Answer
  <2>2. "created" \in Kinds /\ c \in Meetings \cup {0, -1} \cup Peers \cup SUBSET Peers
    BY DEF Kinds
  <2>3. PICK n \in Notes : n.kind = "created" /\ n.arg = c /\ n = NoteOf(s, "created", c)
    BY <2>2, NoteTyped
  <2>4. inq' = Append(inq, n) /\ Elements(inq') = Elements(inq) \cup {n}
    BY <1>1, <2>1, <2>3, Appended
  <2>5. Entered(n) => LetsIn(inq')
    BY <1>1, <2>4, LastAppended
  <2>6. Entered(n) <=> srv' > 0
    BY <1>1, <2>1, <2>3 DEF Entered
  <2>. QED  BY <1>4, <2>3, <2>4, <2>5, <2>6
<1>5. CASE srv = 0 /\ type = "JOIN_MEETING"
  <2>1. CASE \E c \in {0, -1} : srv' = 0 /\ inq' = Append(inq, NoteOf(s, "joined", c))
    <3>1. PICK c \in {0, -1} : srv' = 0 /\ inq' = Append(inq, NoteOf(s, "joined", c))
      BY <2>1
    <3>2. "joined" \in Kinds /\ c \in Meetings \cup {0, -1} \cup Peers \cup SUBSET Peers
      BY DEF Kinds
    <3>3. PICK n \in Notes : n.kind = "joined" /\ n.arg = c /\ n = NoteOf(s, "joined", c)
      BY <3>2, NoteTyped
    <3>4. Elements(inq') = Elements(inq) \cup {n}
      BY <1>1, <3>1, <3>3, Appended
    <3>5. ~Entered(n)
      BY <3>3 DEF Entered
    <3>6. ~(srv' > 0)
      BY <3>1
    <3>. QED  BY <1>5, <3>4, <3>5, <3>6
  <2>2. CASE \E S \in SUBSET Peers :
                /\ srv' = r
                /\ \/ inq' = inq \o <<NoteOf(s, "joined", r), NoteOf(s, "members", S)>>
                   \/ inq' = inq \o <<NoteOf(s, "members", S), NoteOf(s, "joined", r)>>
    <3>1. PICK T \in SUBSET Peers :
             /\ srv' = r
             /\ \/ inq' = inq \o <<NoteOf(s, "joined", r), NoteOf(s, "members", T)>>
                \/ inq' = inq \o <<NoteOf(s, "members", T), NoteOf(s, "joined", r)>>
      BY <2>2
    <3>2. /\ "joined" \in Kinds /\ "members" \in Kinds
          /\ r \in Meetings \cup {0, -1} \cup Peers \cup SUBSET Peers
          /\ T \in Meetings \cup {0, -1} \cup Peers \cup SUBSET Peers
      BY DEF Kinds
    <3>3. PICK j \in Notes : j.kind = "joined" /\ j.arg = r /\ j = NoteOf(s, "joined", r)
      BY <3>2, NoteTyped
    <3>4. PICK m \in Notes : m.kind = "members" /\ m = NoteOf(s, "members", T)
      BY <3>2, NoteTyped
    <3>5. inq' = inq \o <<j, m>> \/ inq' = inq \o <<m, j>>
      BY <3>1, <3>3, <3>4
    <3>6. m.kind \notin Telling /\ ~Entered(m)
      BY <3>4 DEF Entered, Telling
    <3>7. ASSUME NEW a \in Notes, NEW b \in Notes, {a, b} = {j, m}, a = m \/ b = m,
                 inq' = inq \o <<a, b>>
          PROVE  Elements(inq') = Elements(inq) \cup {j, m} /\ (Entered(j) => LetsIn(inq'))
      <4>1. /\ Elements(inq') = Elements(inq) \cup {a, b}
            /\ Entered(b) => LetsIn(inq')
            /\ Entered(a) /\ b.kind \notin Telling => LetsIn(inq')
        BY <1>1, <3>7, TwoLast
      <4>. QED  BY <3>6, <3>7, <4>1
    <3>8. Elements(inq') = Elements(inq) \cup {j, m} /\ (Entered(j) => LetsIn(inq'))
      BY <3>5, <3>7
    <3>9. Entered(j) <=> srv' > 0
      BY <3>1, <3>3 DEF Entered
    <3>. QED  BY <1>5, <3>6, <3>8, <3>9
  <2>. QED  BY <1>5, <2>1, <2>2 DEF Answer
<1>. QED  BY <1>2, <1>3, <1>4, <1>5 DEF Answer

\* An event that changes no button for meetings.
Mute(n) == n.kind \notin Telling

\* Such as the end of a text.
LEMMA TextOver ==
  ASSUME posted \in Seq(Notes), NEW note \in Notes, Mute(note),
         posted' = Append(posted, note) \/ posted' = posted
  PROVE  /\ Elements(posted) \subseteq Elements(posted')
         /\ \A n \in Elements(posted') : Entered(n) => n \in Elements(posted)
         /\ Quiet(posted') <=> Quiet(posted)
         /\ LetsIn(posted') <=> LetsIn(posted)
<1>1. note.kind \notin Telling /\ ~Entered(note)
  BY DEF Mute, Telling, Entered
<1>2. CASE posted' = Append(posted, note)
  <2>1. /\ Quiet(Append(posted, note)) <=> (Quiet(posted) /\ note.kind \notin Telling)
        /\ LetsIn(Append(posted, note)) <=> (Entered(note) \/ (LetsIn(posted) /\ note.kind \notin Telling))
    BY LastAppended
  <2>2. Elements(posted') = Elements(posted) \cup {note}
    BY <1>2, Appended
  <2>3. (Quiet(posted') <=> Quiet(posted)) /\ (LetsIn(posted') <=> LetsIn(posted))
    BY <1>1, <1>2, <2>1
  <2>. QED  BY <1>1, <2>2, <2>3
<1>3. CASE posted' = posted
  <2>1. Quiet(posted') = Quiet(posted) /\ LetsIn(posted') = LetsIn(posted)
    BY <1>3
  <2>. QED  BY <1>3, <2>1
<1>. QED  BY <1>2, <1>3

LEMMA SendDataFits ==
  ASSUME ScreenInv, Fits, SendData
  PROVE  Fits'
<1>1. /\ QueueTypes /\ SrvTypes /\ session \in Nat
  BY DEF ScreenInv, WindowInv, ConnTypes
<1>2. /\ conn = "up" /\ conn' = "up" /\ out # <<>> /\ out' = Tail(out)
      /\ Answer(session, Head(out)[1], Head(out)[2])
      /\ posted' = Append(posted, Note("text sent", 0)) \/ posted' = posted
      /\ UNCHANGED <<role, boxes, enabled, createmeet, joinmeet, session, textqueue, tangled, erred>>
  BY DEF SendData, uiVars, connVars, history
<1>3. Head(out)[2] \in Meetings \cup {0} /\ Elements(out) = Elements(out') \cup {Head(out)}
  BY <1>1, <1>2, RequestTaken
<1>4. /\ Elements(inq) \subseteq Elements(inq')
      /\ srv # 0 => UNCHANGED <<srv, inq>>
      /\ srv = 0 /\ srv' > 0 => LetsIn(inq')
      /\ srv' > 0 \/ \A n \in Elements(inq') : Entered(n) => n \in Elements(inq)
      /\ srv = 0 /\ srv' = 0 /\ Head(out)[1] = "CREATE_MEETING" =>
           \E n \in Elements(inq') : n.kind = "created"
  BY <1>1, <1>2, <1>3, AnswerFits
<1>5. /\ Elements(posted) \subseteq Elements(posted')
      /\ \A n \in Elements(posted') : Entered(n) => n \in Elements(posted)
      /\ Quiet(posted') <=> Quiet(posted)
      /\ LetsIn(posted') <=> LetsIn(posted)
  <2>1. PICK e \in Notes : e.kind = "text sent" /\ e = Note("text sent", 0)
    <3>1. "text sent" \in Kinds
      BY DEF Kinds
    <3>. QED  BY <1>1, <3>1 DEF Note, NoteOf, Notes
  <2>2. posted' = Append(posted, e) \/ posted' = posted
    BY <1>2, <2>1
  <2>3. Mute(e)
    BY <2>1 DEF Mute, Telling
  <2>. QED  BY <1>1, <2>2, <2>3, TextOver DEF QueueTypes
<1>6. OneBox' /\ ErrorSeen' /\ OutsideFit' /\ OffNotes'
  BY <1>2 DEF Fits, OneBox, ErrorSeen, OutsideFit, OffNotes, Open
<1>7. EnteredHere'
  <2>1. SUFFICES ASSUME NEW n \in Elements(inq') \cup Elements(posted'), n.session = session,
                        Entered(n), ~(srv' > 0)
                 PROVE  FALSE
    BY <1>2 DEF EnteredHere
  <2>2. n \in Elements(inq) \cup Elements(posted)
    BY <1>4, <1>5, <2>1
  <2>3. srv > 0
    BY <1>2, <2>1, <2>2 DEF Fits, EnteredHere
  <2>4. srv # 0
    BY <2>3
  <2>. QED  BY <1>4, <2>1, <2>3, <2>4
<1>8. InsideFit'
  <2>1. CASE srv = 0
    BY <1>4, <2>1 DEF InsideFit
  <2>2. CASE srv # 0
    BY <1>2, <1>4, <1>5, <2>2 DEF Fits, InsideFit, Knows, Open
  <2>. QED  BY <2>1, <2>2
<1>9. JoinFit' /\ CreateFit'
  <2>1. CASE srv' # 0
    BY <2>1 DEF JoinFit, CreateFit
  <2>2. CASE srv' = 0
    <3>1. srv = 0
      BY <1>4, <2>2
    <3>2. Again => Again'
      BY <1>5 DEF Again
    <3>3. JoinFit'
      BY <1>2, <3>1, <3>2 DEF Fits, JoinFit, Open
    <3>4. CreateFit'
      BY <1>2, <1>3, <1>4, <1>5, <2>2, <3>1, <3>2 DEF Fits, CreateFit, Open
    <3>. QED  BY <3>3, <3>4
  <2>. QED  BY <2>1, <2>2
<1>. QED  BY <1>6, <1>7, <1>8, <1>9 DEF Fits

LEMMA OfflineStepFits ==
  ASSUME Fits, DropData \/ Lose
  PROVE  Fits'
<1>1. conn' = "lost" /\ UNCHANGED <<boxes, tangled, erred>>
  BY DEF DropData, Lose, uiVars, connVars, history
<1>2. OneBox' /\ ErrorSeen' /\ OffNotes' /\ OutsideFit'
  BY <1>1 DEF Fits, OneBox, ErrorSeen, OffNotes, OutsideFit, Open
<1>. QED  BY <1>1, <1>2, FitsOffline

LEMMA ReconnectFits ==
  ASSUME ScreenInv, Fits, Reconnect
  PROVE  Fits'
<1>1. /\ QueueTypes /\ SrvTypes /\ session \in Nat /\ roomNo \in Meetings \cup {0}
      /\ srv = 0
  BY DEF Reconnect, ScreenInv, WindowInv, ConnTypes, NotServed
<1>2. /\ conn' = "up" /\ session' = session + 1 /\ session' \in Nat
      /\ posted' = Append(posted, NoteOf(session', "reconnected", 0))
      /\ Answer(session', "JOIN_MEETING", roomNo) \/ UNCHANGED <<srv, inq>>
      /\ UNCHANGED <<boxes, tangled, erred>>
  BY <1>1 DEF Reconnect, uiVars, srvVars, history
<1>3. PICK n \in Notes : n.kind = "reconnected" /\ n = NoteOf(session', "reconnected", 0)
  <2>1. "reconnected" \in Kinds /\ 0 \in Meetings \cup {0, -1} \cup Peers \cup SUBSET Peers
    BY DEF Kinds
  <2>. QED  BY <1>2, <2>1, NoteTyped
<1>4. Elements(posted') = Elements(posted) \cup {n}
  BY <1>1, <1>2, <1>3, Appended DEF QueueTypes
<1>5. Again'
  BY <1>3, <1>4 DEF Again
<1>6. /\ srv' > 0 => LetsIn(inq')
      /\ srv' > 0 \/ \A e \in Elements(inq') : Entered(e) => e \in Elements(inq)
  <2>1. CASE Answer(session', "JOIN_MEETING", roomNo)
    <3>1. PICK c \in Nat : c = session'
      BY <1>2
    <3>2. Answer(c, "JOIN_MEETING", roomNo)
      BY <2>1, <3>1
    <3>. QED  BY <1>1, <3>2, AnswerFits
  <2>2. CASE UNCHANGED <<srv, inq>>
    <3>1. ~(srv' > 0)
      BY <1>1, <2>2
    <3>. QED  BY <2>2, <3>1
  <2>. QED  BY <1>2, <2>1, <2>2
<1>7. \A e \in Elements(inq) \cup Elements(posted) : e.session # session'
  BY <1>2, OldNotes DEF ScreenInv
<1>8. EnteredHere'
  <2>1. ~Entered(n)
    BY <1>3 DEF Entered
  <2>. QED  BY <1>4, <1>6, <1>7, <2>1 DEF EnteredHere
<1>9. InsideFit' /\ JoinFit' /\ CreateFit'
  BY <1>5, <1>6 DEF InsideFit, JoinFit, CreateFit
<1>10. OneBox' /\ ErrorSeen' /\ OffNotes' /\ OutsideFit'
  BY <1>2 DEF Fits, OneBox, ErrorSeen, OffNotes, OutsideFit, Open
<1>. QED  BY <1>8, <1>9, <1>10 DEF Fits

LEMMA PeerFits ==
  ASSUME ScreenInv, Fits, PeerComes
  PROVE  Fits'
<1>1. inq \in Seq(Notes) /\ session \in Nat
  BY DEF ScreenInv, WindowInv, ConnTypes, QueueTypes
<1>2. /\ conn = "up" /\ srv > 0 /\ srv # 0
      /\ UNCHANGED <<conn, srv, session, posted, boxes, enabled, createmeet, joinmeet, tangled, erred>>
  BY DEF PeerComes, uiVars, connVars
<1>3. PICK p \in Peers, k \in {"leaves", "enters"} : inq' = Append(inq, Note(k, p))
  BY DEF PeerComes
<1>4. PICK n \in Notes : n.kind = k /\ n = Note(k, p)
  <2>1. k \in Kinds /\ p \in Meetings \cup {0, -1} \cup Peers \cup SUBSET Peers
        /\ k \notin {"created", "members"}
    BY DEF Kinds
  <2>. QED  BY <1>1, <2>1, NoteTyped DEF Note
<1>5. n.kind \notin Telling
  BY <1>4 DEF Telling
<1>6. (Quiet(inq') <=> Quiet(inq)) /\ (LetsIn(inq) => LetsIn(inq'))
  BY <1>1, <1>3, <1>4, <1>5, LastAppended
<1>7. InsideFit'
  BY <1>2, <1>6 DEF Fits, InsideFit, Knows, Open
<1>8. EnteredHere' /\ JoinFit' /\ CreateFit'
  BY <1>2 DEF EnteredHere, JoinFit, CreateFit
<1>9. OneBox' /\ ErrorSeen' /\ OffNotes' /\ OutsideFit'
  BY <1>2 DEF Fits, OneBox, ErrorSeen, OffNotes, OutsideFit, Open
<1>. QED  BY <1>7, <1>8, <1>9 DEF Fits

\* An event that changes no button for meetings.
LEMMA MuteFits ==
  ASSUME ScreenInv, Fits, posted # <<>>, posted' = Tail(posted), Mute(Head(posted)),
         UNCHANGED <<role, boxes, createmeet, joinmeet, conn, session, srv, inq, out, textqueue, erred>>,
         tangled => tangled',
         \E B \in SUBSET {"send"} : enabled' = enabled \cup B
  PROVE  Fits'
<1>1. PICK n : n = Head(posted) /\ n.kind \notin Telling
  BY DEF Mute
<1>2. /\ posted \in Seq(Notes)
      /\ Elements(posted) = Elements(posted') \cup {n}
      /\ Quiet(posted) <=> (Quiet(posted') /\ n.kind \notin Telling)
      /\ LetsIn(posted) <=> (LetsIn(posted') \/ (Entered(n) /\ Quiet(posted')))
  <2>1. posted \in Seq(Notes)
    BY DEF ScreenInv, WindowInv, QueueTypes
  <2>. QED  BY <1>1, <2>1, Taken, LastTakenOff
<1>3. ~Entered(n) /\ n.kind \notin {"reconnected", "created"}
  BY <1>1 DEF Entered, Telling
<1>4. \A b \in {"connect", "create", "join", "exit"} : b \in enabled' <=> b \in enabled
  OBVIOUS
<1>5. OneBox' /\ ErrorSeen' /\ OutsideFit'
  BY <1>4 DEF Fits, OneBox, ErrorSeen, OutsideFit, Open
<1>6. EnteredHere' /\ OffNotes'
  BY <1>2 DEF Fits, EnteredHere, OffNotes
<1>7. InsideFit'
  BY <1>1, <1>2, <1>3, <1>4 DEF Fits, InsideFit, Knows, Open
<1>8. Again => Again'
  BY <1>2, <1>3 DEF Again
<1>9. JoinFit'
  BY <1>4, <1>8 DEF Fits, JoinFit, Open
<1>10. CreateFit'
  BY <1>2, <1>3, <1>4, <1>8 DEF Fits, CreateFit, Open
<1>. QED  BY <1>5, <1>6, <1>7, <1>9, <1>10 DEF Fits

\* An event that changes them, and leaves the connection as it is: without a box open
\* and without a later connection, it is what the invariant waits for.
LEMMA TellingFits ==
  ASSUME ScreenInv, Fits, posted # <<>>, posted' = Tail(posted),
         UNCHANGED <<role, conn, session, srv, inq, out, textqueue>>,
         erred => erred',
         boxes' = boxes \/ \E b \in Boxes : Push(b) /\ (b = "error" => erred'),
         NEW n \in Notes, n = Head(posted), n.kind \in Telling,
         ~tangled' => ~tangled /\ boxes = <<>> /\ n.session = session,
         n.kind = "error" => erred',
         Entered(n) => Open({"created", "joined"})',
         ~tangled' /\ Open({"created", "joined"})' => Entered(n),
         n.kind = "created" /\ ~tangled' => Open({"not created"})' \/ Entered(n),
         n.kind = "reconnected" => "join" \in enabled' /\ "create" \in enabled',
         n.kind # "reconnected" => enabled' = enabled
  PROVE  Fits'
<1>1. UiTypes /\ posted \in Seq(Notes)
  BY DEF ScreenInv, WindowInv, QueueTypes
<1>2. /\ Elements(posted) = Elements(posted') \cup {n}
      /\ ~Quiet(posted)
      /\ LetsIn(posted) <=> (LetsIn(posted') \/ (Entered(n) /\ Quiet(posted')))
  BY <1>1, Taken, LastTakenOff
<1>3. OneBox'
  <2>1. SUFFICES ASSUME ~tangled'  PROVE boxes' = <<>> \/ \E b \in Boxes : boxes' = <<b>>
    BY DEF OneBox
  <2>2. boxes = <<>>
    BY <2>1
  <2>3. ASSUME NEW b \in Boxes, Push(b)  PROVE boxes' = <<b>>
    BY <2>2, <2>3, PushedOne
  <2>. QED  BY <2>2, <2>3
<1>4. ErrorSeen'
  <2>1. \A b \in Boxes : Push(b) => Elements(boxes') = Elements(boxes) \cup {b}
    BY <1>1, BoxPushed
  <2>. QED  BY <2>1 DEF Fits, ErrorSeen, Open
<1>5. EnteredHere' /\ OffNotes'
  BY <1>2 DEF Fits, EnteredHere, OffNotes
<1>6. InsideFit'
  <2>1. SUFFICES ASSUME conn = "up", srv > 0, ~tangled'
                 PROVE  \/ LetsIn(inq)
                        \/ Quiet(inq) /\ LetsIn(posted')
                        \/ Quiet(inq) /\ Quiet(posted') /\ Open({"created", "joined"})'
    BY DEF InsideFit
  <2>2. LetsIn(inq) \/ (Quiet(inq) /\ LetsIn(posted))
    BY <1>2, <2>1 DEF Fits, InsideFit
  <2>. QED  BY <1>2, <2>2
<1>7. ASSUME conn = "up", srv = 0, ~tangled'
      PROVE  ~Entered(n) /\ ~Open({"created", "joined"})'
  <2>1. ~(srv > 0)
    BY <1>7, NoRoom
  <2>2. ~Entered(n)
    BY <1>2, <1>7, <2>1 DEF Fits, EnteredHere
  <2>. QED  BY <1>7, <2>2
<1>8. ASSUME ~tangled'  PROVE \A B : ~Open(B)
  BY <1>8, NothingIn DEF Open
<1>9. n.kind # "reconnected" => (Again => Again')
  BY <1>2 DEF Again
<1>10. JoinFit'
  <2>1. SUFFICES ASSUME conn = "up", srv = 0, ~tangled'
                 PROVE  Again' \/ ("join" \in enabled' /\ ~Open({"created", "joined"})')
    BY DEF JoinFit
  <2>2. Again \/ "join" \in enabled
    BY <1>8, <2>1 DEF Fits, JoinFit
  <2>. QED  BY <1>7, <1>9, <2>1, <2>2
<1>11. CreateFit'
  <2>1. SUFFICES ASSUME conn = "up", srv = 0, ~tangled', role = "factory"
                 PROVE  \/ Again' \/ "create" \in enabled'
                        \/ \E m \in Elements(textqueue) \cup Elements(out) : m[1] = "CREATE_MEETING"
                        \/ \E e \in Elements(inq) \cup Elements(posted') : e.kind = "created"
                        \/ Open({"not created"})'
    BY DEF CreateFit
  <2>2. \/ Again \/ "create" \in enabled
        \/ \E m \in Elements(textqueue) \cup Elements(out) : m[1] = "CREATE_MEETING"
        \/ \E e \in Elements(inq) \cup Elements(posted) : e.kind = "created"
    BY <1>8, <2>1 DEF Fits, CreateFit
  <2>3. CASE n.kind = "created"
    BY <1>7, <2>1, <2>3
  <2>4. CASE n.kind # "created"
    BY <1>2, <1>9, <2>2, <2>4
  <2>. QED  BY <2>3, <2>4
<1>12. OutsideFit'
  <2>1. ASSUME conn = "off", ~tangled', ~erred'  PROVE FALSE
    BY <1>2, <2>1 DEF Fits, OffNotes
  <2>. QED  BY <2>1 DEF OutsideFit
<1>. QED  BY <1>3, <1>4, <1>5, <1>6, <1>10, <1>11, <1>12 DEF Fits

\* The slot for RemoteHostClosed gives the connection up.
LEMMA ClosedFits ==
  ASSUME ScreenInv, Fits, Closed, Elements(posted') \subseteq Elements(posted),
         ~tangled' => ~tangled /\ boxes = <<>>, erred => erred'
  PROVE  Fits'
<1>1. UiTypes
  BY DEF ScreenInv, WindowInv
<1>2. /\ conn' = "off" /\ OffNotes'
      /\ "connect" \in enabled'
      /\ boxes' = boxes \/ Push("ended")
  BY FitsDisconnected DEF Closed
<1>3. Push("ended") => Elements(boxes') = Elements(boxes) \cup {"ended"}
  BY <1>1, BoxPushed DEF Boxes
<1>4. boxes = <<>> => Elements(boxes) = {} /\ (Push("ended") => boxes' = <<"ended">>)
  BY NothingIn, PushedOne
<1>5. OneBox'
  BY <1>2, <1>4 DEF OneBox, Boxes
<1>6. ErrorSeen'
  BY <1>2, <1>3 DEF Fits, ErrorSeen, Open
<1>7. OutsideFit'
  BY <1>2, <1>3, <1>4 DEF OutsideFit, Open
<1>. QED  BY <1>2, <1>5, <1>6, <1>7, FitsOffline

\* What the window does with an event.
LEMMA HandleFits ==
  ASSUME ScreenInv, Fits, Handle
  PROVE  Fits'
<1>1. /\ UiTypes /\ posted \in Seq(Notes) /\ posted # <<>> /\ posted' = Tail(posted)
      /\ UNCHANGED <<role, textqueue>>
  BY DEF Handle, ScreenInv, WindowInv, QueueTypes
<1>2. PICK n \in Notes : n = Head(posted)
  BY <1>1, Taken
<1>3. /\ ~tangled' => ~tangled /\ (n.kind \in Telling => boxes = <<>> /\ n.session = session)
      /\ erred => erred'
      /\ n.kind = "error" => erred'
      /\ n.kind # "error" => erred' = erred
  BY <1>2 DEF Handle, Telling, Fits, ScreenInv, WindowInv
<1>4. Elements(posted') \subseteq Elements(posted)
  BY <1>1, Taken
<1>5. \A b \in Boxes : Push(b) => Elements(boxes') = Elements(boxes) \cup {b}
  BY <1>1, BoxPushed
<1>6. boxes = <<>> => Elements(boxes) = {}
  BY NothingIn
<1>7. ~tangled' => ~tangled /\ (n.kind \in Telling => Elements(boxes) = {})
  BY <1>3, <1>6
<1>8. CASE n.kind = "created" /\ Created(n.arg)
  <2>1. PICK b \in {"created", "not created"} :
           /\ Push(b) /\ (b = "created" <=> n.arg # 0)
           /\ UNCHANGED <<enabled, conn, session, srv, inq, out>>
    BY <1>8 DEF Created, srvVars
  <2>2. b \in Boxes /\ Elements(boxes') = Elements(boxes) \cup {b}
    BY <1>5, <2>1 DEF Boxes
  <2>3. Entered(n) <=> b = "created"
    BY <1>8, <2>1 DEF Entered
  <2>4. /\ Entered(n) => Open({"created", "joined"})'
        /\ ~Entered(n) => Open({"not created"})'
        /\ ~tangled' /\ Open({"created", "joined"})' => Entered(n)
    BY <1>7, <1>8, <2>1, <2>2, <2>3 DEF Open, Telling
  <2>. QED  BY <1>1, <1>2, <1>3, <1>8, <2>1, <2>2, <2>4, TellingFits DEF Telling
<1>9. CASE n.kind = "joined" /\ Joined(n.arg)
  <2>1. PICK b \in {"joined", "no meeting", "full"} :
           /\ Push(b) /\ (b = "joined" <=> n.arg > 0)
           /\ UNCHANGED <<enabled, conn, session, srv, inq, out>>
    BY <1>9 DEF Joined, srvVars
  <2>2. b \in Boxes /\ Elements(boxes') = Elements(boxes) \cup {b}
    BY <1>5, <2>1 DEF Boxes
  <2>3. Entered(n) <=> b = "joined"
    BY <1>9, <2>1 DEF Entered
  <2>4. /\ Entered(n) => Open({"created", "joined"})'
        /\ ~tangled' /\ Open({"created", "joined"})' => Entered(n)
    BY <1>7, <1>9, <2>1, <2>2, <2>3 DEF Open, Telling
  <2>. QED  BY <1>1, <1>2, <1>3, <1>9, <2>1, <2>2, <2>4, TellingFits DEF Telling
<1>10. CASE /\ n.kind = "error" /\ Push("error")
            /\ UNCHANGED <<enabled, createmeet, joinmeet, partners, connVars, out, inq, srvVars>>
  <2>1. "error" \in Boxes /\ Elements(boxes') = Elements(boxes) \cup {"error"}
    BY <1>5, <1>10 DEF Boxes
  <2>2. ~Entered(n) /\ (~tangled' => ~Open({"created", "joined"})')
    BY <1>7, <1>10, <2>1 DEF Entered, Open, Telling
  <2>3. UNCHANGED <<enabled, conn, session, srv, inq, out>>
    BY <1>10 DEF connVars, srvVars
  <2>. QED  BY <1>1, <1>2, <1>3, <1>10, <2>1, <2>2, <2>3, TellingFits DEF Telling
<1>11. CASE n.kind = "reconnected" /\ Reconnected
  <2>1. /\ UNCHANGED <<boxes, conn, session, srv, inq, out>>
        /\ "join" \in enabled' /\ "create" \in enabled'
    BY <1>11 DEF Reconnected, OnlyScreen, connVars, srvVars
  <2>2. ~Entered(n) /\ (~tangled' => ~Open({"created", "joined"})')
    BY <1>7, <1>11, <2>1 DEF Entered, Open, Telling
  <2>. QED  BY <1>1, <1>2, <1>3, <1>11, <2>1, <2>2, TellingFits DEF Telling
<1>12. CASE n.kind = "closed" /\ Closed
  BY <1>3, <1>4, <1>12, ClosedFits DEF Telling
<1>13. CASE /\ n.kind \in {"members", "enters", "leaves", "text sent"}
            /\ OnlyScreen
            /\ \E B \in SUBSET {"send"} : enabled' = enabled \cup B
  <2>1. UNCHANGED <<boxes, createmeet, joinmeet, conn, session, srv, inq, out>>
    BY <1>13 DEF OnlyScreen, connVars, srvVars
  <2>2. Mute(Head(posted)) /\ erred' = erred /\ (tangled => tangled')
    BY <1>2, <1>3, <1>13 DEF Mute, Telling
  <2>. QED  BY <1>1, <1>13, <2>1, <2>2, MuteFits
<1>14. \A S : AddPartners(S) => \E B \in SUBSET {"send"} : enabled' = enabled \cup B
  BY SendForSend DEF AddPartners
<1>15. CASE n.kind = "members" /\ MembersListed(n.arg)
  BY <1>13, <1>14, <1>15 DEF MembersListed
<1>16. CASE n.kind = "enters" /\ AddPartners({n.arg}) /\ OnlyScreen
  BY <1>13, <1>14, <1>16
<1>17. CASE /\ n.kind \in {"leaves", "text sent"} /\ OnlyScreen
            /\ enabled' = enabled \/ enabled' = enabled \cup {"send"}
  <2>1. enabled' = enabled \cup {} \/ enabled' = enabled \cup {"send"}
    BY <1>1, <1>17 DEF UiTypes
  <2>. QED  BY <1>13, <1>17, <2>1
<1>. QED  BY <1>2, <1>8, <1>9, <1>10, <1>11, <1>12, <1>15, <1>16, <1>17 DEF Handle

\* Closing a box, as long as there is only one: what its slot does to the buttons.
LEMMA BoxFits ==
  ASSUME ScreenInv, Fits, boxes # <<>>,
         UNCHANGED <<role, conn, session, srv, inq, out, posted, tangled, erred>>,
         NEW b \in Boxes, b = boxes[Len(boxes)],
         Elements(textqueue) \subseteq Elements(textqueue'),
         \/ Pop
         \/ b = "no create" /\ boxes' = [boxes EXCEPT ![Len(boxes)] = "connected"],
         b \in {"created", "joined"} =>
             /\ "exit" \in enabled' /\ (createmeet' \/ joinmeet')
             /\ "create" \in enabled' => createmeet',
         b \notin {"created", "joined"} =>
             /\ "join" \in enabled => "join" \in enabled'
             /\ "create" \in enabled =>
                  \/ "create" \in enabled'
                  \/ \E m \in Elements(textqueue') : m[1] = "CREATE_MEETING",
         b = "no create" => "join" \in enabled',
         b = "not created" => "create" \in enabled',
         b \notin {"connected", "no create", "no meeting"} /\ "connect" \in enabled =>
             "connect" \in enabled'
  PROVE  Fits'
<1>1. UiTypes
  BY DEF ScreenInv, WindowInv
<1>2. ErrorSeen'
  <2>1. Elements(boxes') \subseteq Elements(boxes) \cup {"connected"}
    <3>1. CASE Pop
      BY <1>1, <3>1, BoxPopped
    <3>2. CASE boxes' = [boxes EXCEPT ![Len(boxes)] = "connected"]
      <4>1. boxes \in Seq(Boxes) /\ "connected" \in Boxes
        BY <1>1 DEF UiTypes, Boxes
      <4>. QED  BY <3>2, <4>1, LastReplaced
    <3>. QED  BY <3>1, <3>2
  <2>. QED  BY <2>1 DEF Fits, ErrorSeen, Open
<1>3. EnteredHere' /\ OffNotes'
  BY DEF Fits, EnteredHere, OffNotes
<1>4. CASE tangled
  BY <1>2, <1>3, <1>4 DEF Fits, OneBox, InsideFit, JoinFit, CreateFit, OutsideFit
<1>5. CASE ~tangled
  <2>1. /\ Elements(boxes) = {b}
        /\ Pop => boxes' = <<>> /\ Elements(boxes') = {}
        /\ b = "no create" /\ ~Pop => boxes' = <<"connected">>
    BY <1>5, ClosedOne DEF Fits
  <2>2. /\ boxes' = <<>> \/ (b = "no create" /\ boxes' = <<"connected">>)
        /\ Elements(boxes') \subseteq {"connected"}
        /\ b # "no create" => boxes' = <<>> /\ Elements(boxes') = {}
    BY <2>1, NothingIn, OneIn
  <2>3. OneBox'
    BY <2>2 DEF OneBox, Boxes
  <2>4. /\ ~Open({"created", "joined", "not created", "no create", "no meeting"})'
        /\ \A B : Open(B) <=> b \in B
    BY <2>1, <2>2 DEF Open
  <2>5. InsideFit'
    <3>1. SUFFICES ASSUME conn = "up", srv > 0
                   PROVE  \/ LetsIn(inq)
                          \/ Quiet(inq) /\ LetsIn(posted)
                          \/ Quiet(inq) /\ Quiet(posted) /\ Knows'
      BY DEF InsideFit
    <3>2. ~Knows
      BY DEF Knows
    <3>3. b \in {"created", "joined"} => Knows'
      BY <2>2 DEF Knows
    <3>. QED  BY <1>5, <2>4, <3>1, <3>2, <3>3 DEF Fits, InsideFit
  <2>6. ASSUME conn = "up", srv = 0, ~Again  PROVE b \notin {"created", "joined"}
    BY <1>5, <2>4, <2>6 DEF Fits, JoinFit
  <2>7. JoinFit'
    <3>1. SUFFICES ASSUME conn = "up", srv = 0, ~Again
                   PROVE  "join" \in enabled' /\ ~Open({"created", "joined"})'
      BY DEF JoinFit, Again
    <3>2. "join" \in enabled \/ b = "no create"
      BY <1>5, <2>4, <3>1 DEF Fits, JoinFit
    <3>3. ~Open({"created", "joined"})'
      BY <2>2 DEF Open
    <3>. QED  BY <2>6, <3>1, <3>2, <3>3
  <2>8. CreateFit'
    <3>1. SUFFICES ASSUME conn = "up", srv = 0, ~Again, role = "factory"
                   PROVE  \/ "create" \in enabled'
                          \/ \E m \in Elements(textqueue') \cup Elements(out) : m[1] = "CREATE_MEETING"
                          \/ \E n \in Elements(inq) \cup Elements(posted) : n.kind = "created"
      BY DEF CreateFit, Again
    <3>2. \/ "create" \in enabled
          \/ \E m \in Elements(textqueue) \cup Elements(out) : m[1] = "CREATE_MEETING"
          \/ \E n \in Elements(inq) \cup Elements(posted) : n.kind = "created"
          \/ b = "not created"
      <4>1. Open({"not created"}) <=> b = "not created"
        BY <2>1 DEF Open
      <4>. QED  BY <1>5, <3>1, <4>1 DEF Fits, CreateFit
    <3>. QED  BY <2>6, <3>1, <3>2
  <2>9. OutsideFit'
    <3>1. SUFFICES ASSUME conn = "off", ~erred
                   PROVE  "connect" \in enabled' /\ ~Open({"connected", "no create", "no meeting"})'
      BY DEF OutsideFit
    <3>2. "connect" \in enabled /\ b \notin {"connected", "no create", "no meeting"}
      BY <1>5, <2>4, <3>1 DEF Fits, OutsideFit
    <3>3. ~Open({"connected", "no create", "no meeting"})'
      BY <2>2, <3>2 DEF Open
    <3>. QED  BY <3>2, <3>3
  <2>. QED  BY <1>2, <1>3, <2>3, <2>5, <2>7, <2>8, <2>9 DEF Fits
<1>. QED  BY <1>4, <1>5

LEMMA CloseBoxFits ==
  ASSUME ScreenInv, Fits, CloseBox
  PROVE  Fits'
<1>1. /\ UiTypes /\ QueueTypes /\ boxes # <<>>
      /\ UNCHANGED <<role, posted, tangled, erred>>
  BY DEF CloseBox, ScreenInv, WindowInv
<1>2. PICK b \in Boxes : b = boxes[Len(boxes)]
  BY <1>1, BoxPopped, LastTaken DEF UiTypes
<1>3. SendFor({Me}) \subseteq {"send"}
  BY SendForSend
<1>4. CASE b = "created" /\ AfterCreated
  <2>1. /\ Pop /\ UNCHANGED <<conn, session, srv, inq, out, textqueue>>
        /\ createmeet' /\ "exit" \in enabled' /\ ("connect" \in enabled => "connect" \in enabled')
    BY <1>4 DEF AfterCreated, connVars, srvVars
  <2>. QED  BY <1>1, <1>2, <1>4, <2>1, BoxFits
<1>5. CASE b = "joined" /\ AfterJoined
  <2>1. /\ Pop /\ UNCHANGED <<conn, session, srv, inq, out, textqueue>>
        /\ joinmeet' /\ "exit" \in enabled' /\ "create" \notin enabled'
        /\ "connect" \in enabled => "connect" \in enabled'
    BY <1>5 DEF AfterJoined, connVars, srvVars
  <2>. QED  BY <1>1, <1>2, <1>5, <2>1, BoxFits
<1>6. CASE b = "not created" /\ AfterNotCreated
  <2>1. /\ Pop /\ UNCHANGED <<conn, session, srv, inq, out, textqueue>>
        /\ enabled' = enabled \cup {"create"}
    BY <1>6 DEF AfterNotCreated, connVars, srvVars
  <2>. QED  BY <1>1, <1>2, <1>6, <2>1, BoxFits
<1>7. CASE b = "no meeting" /\ AfterNoMeeting
  <2>1. /\ Pop /\ UNCHANGED <<conn, session, srv, inq, out, textqueue>>
        /\ "join" \in enabled' /\ ("create" \in enabled => "create" \in enabled')
    BY <1>7 DEF AfterNoMeeting, connVars, srvVars
  <2>. QED  BY <1>1, <1>2, <1>7, <2>1, BoxFits
<1>8. CASE b = "no create" /\ AfterNoCreate
  <2>1. /\ boxes' = [boxes EXCEPT ![Len(boxes)] = "connected"]
        /\ UNCHANGED <<conn, session, srv, inq, out, textqueue>>
        /\ "join" \in enabled' /\ ("create" \in enabled => "create" \in enabled')
    BY <1>8 DEF AfterNoCreate, connVars, srvVars
  <2>. QED  BY <1>1, <1>2, <1>8, <2>1, BoxFits
<1>9. CASE b = "connected" /\ AfterConnected
  <2>1. /\ Pop /\ UNCHANGED <<conn, session, srv, inq, out, textqueue>>
        /\ "join" \in enabled => "join" \in enabled'
        /\ "create" \in enabled => "create" \in enabled'
    BY <1>9 DEF AfterConnected, connVars, srvVars
  <2>. QED  BY <1>1, <1>2, <1>9, <2>1, BoxFits
<1>10. CASE b = "no right" /\ AfterNoRight
  <2>1. /\ Pop /\ UNCHANGED <<conn, session, srv, inq, out>>
    BY <1>10 DEF AfterNoRight, connVars, srvVars
  <2>2. /\ Elements(textqueue) \subseteq Elements(textqueue')
        /\ "join" \in enabled => "join" \in enabled'
        /\ "connect" \in enabled => "connect" \in enabled'
        /\ "create" \in enabled =>
             \/ "create" \in enabled'
             \/ \E m \in Elements(textqueue') : m[1] = "CREATE_MEETING"
    <3>1. CASE createmeet
      BY <1>10, <3>1 DEF AfterNoRight
    <3>2. CASE ~createmeet
      <4>1. PushText("CREATE_MEETING", 0) /\ enabled' = enabled \ {"create", "exit"}
        BY <1>10, <3>2 DEF AfterNoRight, AskForMeeting
      <4>. QED  BY <1>1, <4>1, TextPushed
    <3>. QED  BY <3>1, <3>2
  <2>. QED  BY <1>1, <1>2, <1>10, <2>1, <2>2, BoxFits
<1>11. CASE b = "error" /\ AfterError
  <2>1. Pop /\ DisconnectFromHost
    BY <1>11 DEF AfterError
  <2>2. conn' = "off" /\ OffNotes'
    BY <1>1, <2>1, FitsDisconnected
  <2>3. Elements(boxes) = Elements(boxes') \cup {b}
    BY <1>1, <1>2, <2>1, BoxPopped
  <2>4. ErrorSeen' /\ erred'
    BY <1>1, <1>11, <2>3 DEF Fits, ErrorSeen, Open
  <2>5. OneBox'
    BY <1>1, <2>1, ClosedOne DEF Fits, OneBox
  <2>6. OutsideFit'
    BY <2>4 DEF OutsideFit
  <2>. QED  BY <2>2, <2>4, <2>5, <2>6, FitsOffline
<1>12. CASE b \in {"full", "refused", "left", "ended"} /\ AfterOther
  <2>1. Pop /\ UNCHANGED <<enabled, conn, session, srv, inq, out, textqueue>>
    BY <1>12 DEF AfterOther, connVars, srvVars
  <2>. QED  BY <1>1, <1>2, <1>12, <2>1, BoxFits
<1>. QED
  BY <1>2, <1>4, <1>5, <1>6, <1>7, <1>8, <1>9, <1>10, <1>11, <1>12 DEF CloseBox

LEMMA FitsInit == Init => Fits
<1> SUFFICES ASSUME Init  PROVE Fits
  OBVIOUS
<1>1. /\ boxes = <<>> /\ posted = <<>> /\ conn = "off" /\ "connect" \in enabled
      /\ Elements(boxes) = {} /\ Elements(posted) = {}
  BY NothingIn DEF Init
<1>. QED
  BY <1>1 DEF Fits, OneBox, ErrorSeen, EnteredHere, OffNotes, InsideFit, JoinFit, CreateFit,
              OutsideFit, Open

LEMMA FitsStep == ScreenInv /\ Fits /\ [Next]_vars => Fits'
<1> SUFFICES ASSUME ScreenInv, Fits, [Next]_vars  PROVE Fits'
  OBVIOUS
<1>1. CASE User
  BY <1>1, ConnectFits, ClickFits, ExitFits DEF User
<1>2. CASE Threads
  BY <1>2, SendTextFits, RecvSolveFits, SendDataFits, OfflineStepFits, ReconnectFits DEF Threads
<1>3. CASE Lose \/ PeerComes \/ Handle \/ CloseBox
  BY <1>3, OfflineStepFits, PeerFits, HandleFits, CloseBoxFits
<1>4. CASE UNCHANGED vars
  <2>1. UNCHANGED <<role, enabled, boxes, createmeet, joinmeet, conn, session, srv, textqueue, out,
                    inq, posted, tangled, erred>>
    BY <1>4 DEF vars, uiVars, connVars, queueVars, srvVars, history
  <2>2. OneBox' /\ ErrorSeen' /\ InsideFit' /\ JoinFit' /\ CreateFit' /\ OutsideFit'
    BY <2>1 DEF Fits, OneBox, ErrorSeen, InsideFit, JoinFit, CreateFit, OutsideFit, Open, Knows,
                Again
  <2>. QED  BY <2>1, <2>2, FitsHere
<1>. QED  BY <1>1, <1>2, <1>3, <1>4 DEF Next

LEMMA FitsGive == ScreenInv /\ Fits => ButtonsFit
<1> SUFFICES ASSUME ScreenInv, Fits, Settled, ~tangled  PROVE ButtonsFit
  BY DEF ButtonsFit
<1>1. /\ inq = <<>> /\ posted = <<>>
      /\ Elements(boxes) = {} /\ Elements(inq) = {} /\ Elements(posted) = {}
      /\ Elements(textqueue) = {} /\ Elements(out) = {}
  BY NothingIn DEF Settled
<1>2. ~LetsIn(inq) /\ ~LetsIn(posted)
  BY <1>1 DEF LetsIn
<1>3. ASSUME conn = "up", srv > 0  PROVE "exit" \in enabled /\ (createmeet \/ joinmeet)
  BY <1>1, <1>2, <1>3 DEF Fits, InsideFit, Knows, Open
<1>4. ASSUME conn = "up", srv = 0
      PROVE  "join" \in enabled /\ (role = "factory" => "create" \in enabled)
  BY <1>1, <1>4 DEF Fits, JoinFit, CreateFit, Again, Open
<1>5. ASSUME conn = "off", ~erred  PROVE "connect" \in enabled
  BY <1>5 DEF Fits, OutsideFit
<1>. QED  BY <1>3, <1>4, <1>5 DEF ButtonsFit

\* The buttons fit where the user is once there is nothing more to come: who is in a
\* meeting can leave it, who is in none can ask for one, and who is not connected can
\* connect, unless an answer or an error met an open box or a later connection.
THEOREM ButtonsAreRight == Spec => []ButtonsFit
<1>1. Init => ScreenInv /\ Fits
  BY ScreenInit, FitsInit
<1>2. ScreenInv /\ Fits /\ [Next]_vars => (ScreenInv /\ Fits)'
  BY ScreenStep, FitsStep
<1>. QED  BY <1>1, <1>2, FitsGive, PTL DEF Spec

=============================================================================
