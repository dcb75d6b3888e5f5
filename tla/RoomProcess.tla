---------------------------- MODULE RoomProcess -----------------------------
(***************************************************************************)
(* A room process, server/room.cpp: one meeting after another, served by   *)
(*   - the acceptor thread (accept_fd), which takes descriptors passed by  *)
(*     the parent out of the socketpair and puts them in the pool;         *)
(*   - the main thread (process_main), which reads the members' requests   *)
(*     and takes members out of the pool (fdclose, clear_room);            *)
(*   - the sender threads (send_func), which take messages off the send    *)
(*     queue and write them to members.                                    *)
(* A step is what a thread does under user_pool->lock, or one access to    *)
(* shared state without it.  The send queue is used through what it is     *)
(* proved to promise (BoundedFifo; SendQueue).  The parent, which RoomPool *)
(* models, appears here as the peer at the other end of the socketpair.    *)
(*                                                                         *)
(* fdset and num follow status and are not kept apart: descriptor fd is in *)
(* fdset exactly when status[fd] is ON, and num is never read.  A client   *)
(* stands for its address too: clients have distinct addresses.            *)
(***************************************************************************)
EXTENDS Integers, Sequences, FiniteSets, FiniteSetsExt

CONSTANTS
    Clients,      \* clients, and their addresses
    NFds,         \* descriptors for clients: 1..NFds
    SendThreads,  \* the SENDTHREADSIZE sender threads
    MAXSIZE,      \* capacity of the send queue
    Requests,     \* which of RequestKinds members send
    MaxMeetings,  \* bound: meetings this room holds
    MaxJoins,     \* bound: clients passed on with 'J'
    Reconnects,   \* whether a client comes back once its connection is over
    NoClient,     \* no client, the address 0
    NoMsg         \* no message

RequestKinds ==
    {"HEARTBEAT",   \* and AUTH: acknowledged
     "TEXT_SEND",   \* and IMG_SEND, AUDIO_SEND, CLOSE_CAMERA: forwarded
     "KICK_OUT",
     "malformed"}   \* a bad header, tail or length: the member is closed

Fds == 1..NFds

ASSUME RoomAssumption ==
    /\ IsFiniteSet(Clients)
    /\ NFds \in Nat
    /\ NFds > Cardinality(Clients)
    /\ SendThreads # {}
    /\ MAXSIZE \in Nat \ {0}
    /\ Requests \subseteq RequestKinds
    /\ MaxMeetings \in Nat
    /\ MaxJoins \in Nat
    /\ Reconnects \in BOOLEAN
    /\ NoClient \notin Clients

VARIABLES
    file,        \* per descriptor: the client at the other end, or NoClient
    status,      \* per descriptor: user_pool->status
    fdToIp,      \* per descriptor: user_pool->fdToIp, NoClient if absent
    quiet,       \* descriptors whose fdToLastSeen is over HEARTBEAT_TIMEOUT old
    owner,       \* user_pool->owner: a descriptor, or 0
    maxfd,
    roomstatus,
    sendqueue,
    mpc, rset, cfd, mode, ip, ki,  \* main thread: place, descriptors to look
                 \* at, the one in hand, the loop it is in, an address, an index
    apc, cmd, tfd, out,          \* acceptor: place, command, descriptor, message
    held,        \* per sender: the message it has popped, or NoMsg
    pipe,        \* descriptors in the socketpair, with their commands
    notices,     \* notices in the socketpair
    ready,       \* the parent holds the room ready
    conn,        \* per client: its connection
    known,       \* per client: the partners it shows
    meetings,    \* meetings opened so far (bounded)
    joins        \* 'J' commands so far (bounded)

poolVars == <<file, status, fdToIp, quiet, owner, maxfd, roomstatus>>
mainVars == <<mpc, rset, cfd, mode, ip, ki>>
acptVars == <<apc, cmd, tfd, out>>
linkVars == <<pipe, notices, ready, joins>>
vars == <<poolVars, sendqueue, mainVars, acptVars, held, linkVars, conn, known, meetings>>

Message == [type : {"CREATE_MEETING_RESPONSE", "PARTNER_JOIN", "PARTNER_JOIN2",
                    "PARTNER_EXIT", "TEXT_RECV", "HEARTBEAT_ACK",
                    "KICK_OUT_RESPONSE", "KICK_OUT_NOTIFY"},
            fd   : Fds \cup {0},                   \* targetfd
            ips  : SUBSET (Clients \cup {NoClient})]

ASSUME NoMsgAssumption == NoMsg \notin Message

Msg(type, fd, ips) == [type |-> type, fd |-> fd, ips |-> ips]

Queue == INSTANCE BoundedFifo WITH Msgs <- Message, Capacity <- MAXSIZE, buffer <- sendqueue

On == {fd \in Fds : status[fd] = "ON"}

Init ==
    /\ file = [fd \in Fds |-> NoClient]
    /\ status = [fd \in Fds |-> "CLOSE"]
    /\ fdToIp = [fd \in Fds |-> NoClient]
    /\ quiet = {}
    /\ owner = 0
    /\ maxfd = 0
    /\ roomstatus = "ON"
    /\ sendqueue = <<>>
    /\ mpc = "select" /\ rset = {} /\ cfd = 0 /\ mode = "scan" /\ ip = NoClient /\ ki = 0
    /\ apc = "recv" /\ cmd = "C" /\ tfd = 0 /\ out = NoMsg
    /\ held = [t \in SendThreads |-> NoMsg]
    /\ pipe = <<>>
    /\ notices = <<>>
    /\ ready = TRUE
    /\ conn = [c \in Clients |-> "out"]
    /\ known = [c \in Clients |-> {}]
    /\ meetings = 0
    /\ joins = 0

-----------------------------------------------------------------------------
(* The parent and the clients *)

Connects(c) == conn[c] = "out" \/ (Reconnects /\ conn[c] = "over")

\* CREATE_MEETING: a worker passes the creator to a room held ready.
Create(c) ==
    /\ ready
    /\ Connects(c)
    /\ meetings < MaxMeetings
    /\ ready' = FALSE
    /\ pipe' = Append(pipe, <<"C", c>>)
    /\ conn' = [conn EXCEPT ![c] = "pipe"]
    /\ UNCHANGED <<poolVars, sendqueue, mainVars, acptVars, held, notices, joins, known, meetings>>

\* JOIN_MEETING: a worker that once found the room occupied passes the guest.
Join(c) ==
    /\ Connects(c)
    /\ meetings > 0 \/ ~ready
    /\ joins < MaxJoins
    /\ joins' = joins + 1
    /\ pipe' = Append(pipe, <<"J", c>>)
    /\ conn' = [conn EXCEPT ![c] = "pipe"]
    /\ UNCHANGED <<poolVars, sendqueue, mainVars, acptVars, held, notices, ready, known, meetings>>

\* main of the parent handles a notice.
ParentReads ==
    /\ notices # <<>>
    /\ ready' = (ready \/ Head(notices) = "E")
    /\ notices' = Tail(notices)
    /\ UNCHANGED <<poolVars, sendqueue, mainVars, acptVars, held, pipe, joins, conn, known, meetings>>

\* A client closes its end of the connection.
HangUp(c) ==
    /\ conn[c] \in {"pipe", "in"}
    /\ conn' = [conn EXCEPT ![c] = "gone"]
    /\ known' = [known EXCEPT ![c] = {}]
    /\ UNCHANGED <<poolVars, sendqueue, mainVars, acptVars, held, linkVars, meetings>>

\* Nothing has come from a member for HEARTBEAT_TIMEOUT seconds.
FallSilent(fd) ==
    /\ status[fd] = "ON"
    /\ fd \notin quiet
    /\ quiet' = quiet \cup {fd}
    /\ UNCHANGED <<file, status, fdToIp, owner, maxfd, roomstatus, sendqueue, mainVars,
                   acptVars, held, linkVars, conn, known, meetings>>

\* The descriptors fds are closed: their clients' connections are over.
ClosedClients(fds) == {file[fd] : fd \in fds} \ {NoClient}
CloseAll(fds) ==
    /\ file' = [fd \in Fds |-> IF fd \in fds THEN NoClient ELSE file[fd]]
    /\ conn' = [c \in Clients |-> IF c \in ClosedClients(fds) THEN "over" ELSE conn[c]]
    /\ known' = [c \in Clients |-> IF c \in ClosedClients(fds) THEN {} ELSE known[c]]

-----------------------------------------------------------------------------
(* The acceptor: accept_fd *)

\* read_fd installs the descriptor under the lowest number that is free.
AcceptRecv ==
    /\ apc = "recv"
    /\ pipe # <<>>
    /\ cmd' = Head(pipe)[1]
    /\ tfd' = Min({fd \in Fds : file[fd] = NoClient})
    /\ file' = [file EXCEPT ![tfd'] = Head(pipe)[2]]
    /\ conn' = [conn EXCEPT ![Head(pipe)[2]] = IF @ = "pipe" THEN "in" ELSE @]
    /\ pipe' = Tail(pipe)
    /\ apc' = "admit"
    /\ UNCHANGED <<status, fdToIp, quiet, owner, maxfd, roomstatus, sendqueue, mainVars,
                   out, held, notices, ready, joins, known, meetings>>

\* What both commands do under the lock.
Enter(fd) ==
    /\ status' = [status EXCEPT ![fd] = "ON"]
    /\ fdToIp' = [fdToIp EXCEPT ![fd] = file[fd]]
    /\ quiet' = quiet \ {fd}
    /\ maxfd' = IF fd > maxfd THEN fd ELSE maxfd

\* 'C': the client owns the room; its number is sent to it.
AcceptCreate ==
    /\ apc = "admit" /\ cmd = "C"
    /\ Enter(tfd)
    /\ owner' = tfd
    /\ roomstatus' = "ON"
    /\ meetings' = meetings + 1
    /\ out' = Msg("CREATE_MEETING_RESPONSE", tfd, {})
    /\ apc' = "push"
    /\ UNCHANGED <<file, sendqueue, mainVars, cmd, tfd, held, linkVars, conn, known>>

\* Faulty variant: the thread returns instead of going on.
AcceptTooLateReturns ==
    /\ apc = "admit" /\ cmd = "J"
    /\ roomstatus = "CLOSE"
    /\ CloseAll({tfd})
    /\ apc' = "dead"
    /\ UNCHANGED <<status, fdToIp, quiet, owner, maxfd, roomstatus, sendqueue, mainVars,
                   cmd, tfd, out, held, linkVars, meetings>>

\* 'J' when the meeting is over: the descriptor is closed, nobody is told.
AcceptTooLate ==
    /\ apc = "admit" /\ cmd = "J"
    /\ roomstatus = "CLOSE"
    /\ CloseAll({tfd})
    /\ apc' = "recv"
    /\ UNCHANGED <<status, fdToIp, quiet, owner, maxfd, roomstatus, sendqueue, mainVars,
                   cmd, tfd, out, held, linkVars, meetings>>

AcceptJoin ==
    /\ apc = "admit" /\ cmd = "J"
    /\ roomstatus = "ON"
    /\ Enter(tfd)
    /\ apc' = "compose"
    /\ UNCHANGED <<file, owner, roomstatus, sendqueue, mainVars, cmd, tfd, out, held, linkVars,
                   conn, known, meetings>>

\* PARTNER_JOIN is put together; the address is read without the lock.
AcceptCompose ==
    /\ apc = "compose"
    /\ out' = Msg("PARTNER_JOIN", tfd, {fdToIp[tfd]})
    /\ apc' = "push"
    /\ UNCHANGED <<poolVars, sendqueue, mainVars, cmd, tfd, held, linkVars, conn, known, meetings>>

\* Faulty variant: PARTNER_JOIN2 is forgotten.
AcceptPushOnce ==
    /\ apc = "push"
    /\ Queue!Put(out)
    /\ apc' = "recv"
    /\ out' = NoMsg
    /\ UNCHANGED <<poolVars, mainVars, cmd, tfd, held, linkVars, conn, known, meetings>>

\* push_msg, which waits while the queue is full.
AcceptPush ==
    /\ apc = "push"
    /\ Queue!Put(out)
    /\ apc' = IF out.type = "PARTNER_JOIN" THEN "list" ELSE "recv"
    /\ out' = NoMsg
    /\ UNCHANGED <<poolVars, mainVars, cmd, tfd, held, linkVars, conn, known, meetings>>

\* PARTNER_JOIN2 for the new member: everybody else in the pool by now.
AcceptList ==
    /\ apc = "list"
    /\ out' = Msg("PARTNER_JOIN2", tfd,
                  {fdToIp[fd] : fd \in {g \in On : g <= maxfd /\ g # tfd}})
    /\ apc' = "push"
    /\ UNCHANGED <<poolVars, sendqueue, mainVars, cmd, tfd, held, linkVars, conn, known, meetings>>

-----------------------------------------------------------------------------
(* The main thread: process_main *)

\* Descriptors that are readable whatever the members do: closed by the client.
Ended == {fd \in On : file[fd] # NoClient /\ conn[file[fd]] = "gone"}

\* Select reports the members that have closed or sent a request.  With a
\* closed descriptor in the set it fails, and the process exits (net.cpp:26).
MainSelect ==
    /\ mpc = "select"
    /\ \A fd \in On : file[fd] # NoClient
    /\ \E ready_fds \in SUBSET {fd \in On : fd <= maxfd /\ (fd \in Ended \/ Requests # {})} :
         /\ ready_fds # {}
         /\ Ended \subseteq ready_fds
         /\ rset' = ready_fds
    /\ mpc' = "next"
    /\ mode' = "scan"
    /\ UNCHANGED <<poolVars, sendqueue, cfd, ip, ki, acptVars, held, linkVars, conn, known, meetings>>

MainDies ==
    /\ mpc = "select"
    /\ \E fd \in On : file[fd] = NoClient
    /\ mpc' = "dead"
    /\ apc' = "dead"
    /\ CloseAll(Fds)
    /\ status' = [fd \in Fds |-> "CLOSE"]
    /\ owner' = 0
    /\ sendqueue' = <<>>
    /\ held' = [t \in SendThreads |-> NoMsg]
    /\ UNCHANGED <<fdToIp, quiet, maxfd, roomstatus, rset, cfd, mode, ip, ki, cmd, tfd, out,
                   linkVars, meetings>>

\* Faulty variant: every member is collected.
MainTimeoutAll ==
    /\ mpc = "select"
    /\ \A fd \in On : file[fd] # NoClient
    /\ Ended = {}
    /\ rset' = {fd \in On : fd <= maxfd}
    /\ rset' # {}
    /\ mpc' = "next"
    /\ mode' = "timeouts"
    /\ UNCHANGED <<poolVars, sendqueue, cfd, ip, ki, acptVars, held, linkVars, conn, known, meetings>>

\* Select times out: the silent members are collected, then closed one by one.
MainTimeout ==
    /\ mpc = "select"
    /\ \A fd \in On : file[fd] # NoClient
    /\ Ended = {}
    /\ rset' = {fd \in On \cap quiet : fd <= maxfd}
    /\ rset' # {}
    /\ mpc' = "next"
    /\ mode' = "timeouts"
    /\ UNCHANGED <<poolVars, sendqueue, cfd, ip, ki, acptVars, held, linkVars, conn, known, meetings>>

\* Both loops go through their descriptors in ascending order; the scan stops
\* at maxfd as it is now, and notes that something has come from the member.
MainNext ==
    /\ mpc = "next"
    /\ LET todo == IF mode = "scan" THEN {fd \in rset : fd <= maxfd} ELSE rset
       IN  IF todo = {}
           THEN /\ mpc' = "select"
                /\ rset' = {}
                /\ cfd' = 0
                /\ UNCHANGED quiet
           ELSE /\ cfd' = Min(todo)
                /\ rset' = todo \ {cfd'}
                /\ mpc' = IF mode = "scan" THEN "read" ELSE "close"
                /\ quiet' = IF mode = "scan" THEN quiet \ {cfd'} ELSE quiet
    /\ UNCHANGED <<file, status, fdToIp, owner, maxfd, roomstatus, sendqueue, mode, ip, ki,
                   acptVars, held, linkVars, conn, known, meetings>>

\* Faulty variant: only a failing Readn is noticed, not the end of the stream.
MainReadFailsNoEof ==
    /\ mpc = "read"
    /\ mpc' = IF file[cfd] = NoClient THEN "close" ELSE "next"
    /\ file[cfd] = NoClient \/ conn[file[cfd]] = "gone"
    /\ UNCHANGED <<poolVars, sendqueue, rset, cfd, mode, ip, ki, acptVars, held, linkVars, conn,
                   known, meetings>>

\* Readn fails or finds the end of the stream (or what was read is malformed).
MainReadFails ==
    /\ mpc = "read"
    /\ \/ file[cfd] = NoClient
       \/ file[cfd] # NoClient /\ conn[file[cfd]] = "gone"
       \/ "malformed" \in Requests
    /\ mpc' = "close"
    /\ UNCHANGED <<poolVars, sendqueue, rset, cfd, mode, ip, ki, acptVars, held, linkVars, conn,
                   known, meetings>>

\* A request that is answered by one message: push_msg waits for room.
Answer(m) ==
    /\ mpc = "read"
    /\ file[cfd] # NoClient /\ conn[file[cfd]] = "in"
    /\ Queue!Put(m)
    /\ mpc' = "next"
    /\ UNCHANGED <<poolVars, rset, cfd, mode, ip, ki, acptVars, held, linkVars, conn, known, meetings>>

MainHeartbeat ==
    /\ "HEARTBEAT" \in Requests
    /\ Answer(Msg("HEARTBEAT_ACK", cfd, {}))

\* The sender's address is the one the pool has for it.
MainForward ==
    /\ "TEXT_SEND" \in Requests
    /\ Answer(Msg("TEXT_RECV", cfd, {fdToIp[cfd]}))

\* KICK_OUT by someone else than the owner, or of an address not in the pool.
MainKickRefused ==
    /\ "KICK_OUT" \in Requests
    /\ \/ cfd # owner
       \/ \E c \in Clients : \A fd \in Fds : fdToIp[fd] # c
    /\ Answer(Msg("KICK_OUT_RESPONSE", cfd, {}))

\* KICK_OUT by the owner: every member is told in turn, then the owner is
\* answered.  The member itself is not closed.
MainKick ==
    /\ mpc = "read"
    /\ "KICK_OUT" \in Requests
    /\ cfd = owner
    /\ file[cfd] # NoClient /\ conn[file[cfd]] = "in"
    /\ ip' \in {fdToIp[fd] : fd \in Fds} \ {NoClient}
    /\ ki' = 1
    /\ mpc' = "kick"
    /\ UNCHANGED <<poolVars, sendqueue, rset, cfd, mode, acptVars, held, linkVars, conn, known,
                   meetings>>

MainKickNotify ==
    /\ mpc = "kick"
    /\ IF ki <= maxfd
       THEN /\ IF status[ki] = "ON"
               THEN Queue!Put(Msg("KICK_OUT_NOTIFY", ki, {ip}))
               ELSE UNCHANGED sendqueue
            /\ ki' = ki + 1
            /\ UNCHANGED <<mpc, ip>>
       ELSE /\ Queue!Put(Msg("KICK_OUT_RESPONSE", cfd, {}))
            /\ ki' = 0
            /\ ip' = NoClient
            /\ mpc' = "next"
    /\ UNCHANGED <<poolVars, rset, cfd, mode, acptVars, held, linkVars, conn, known, meetings>>

-----------------------------------------------------------------------------
(* The main thread: fdclose(cfd) *)

\* Whether cfd is the owner's is looked up without the lock.
CloseTest ==
    /\ mpc = "close"
    /\ mpc' = IF owner = cfd THEN "clear" ELSE "drop"
    /\ UNCHANGED <<poolVars, sendqueue, rset, cfd, mode, ip, ki, acptVars, held, linkVars, conn,
                   known, meetings>>

\* Faulty variant: the owner is not reset.
ClearRoomKeepsOwner ==
    /\ mpc = "clear"
    /\ roomstatus' = "CLOSE"
    /\ CloseAll({fd \in On : fd <= maxfd})
    /\ status' = [fd \in Fds |-> "CLOSE"]
    /\ fdToIp' = [fd \in Fds |-> NoClient]
    /\ quiet' = {}
    /\ sendqueue' = <<>>
    /\ mpc' = "notify E"
    /\ UNCHANGED <<owner, maxfd, rset, cfd, mode, ip, ki, acptVars, held, linkVars, meetings>>

\* Faulty variant: "no owner" is -1 here and 0 elsewhere.
ClearRoomMinusOne ==
    /\ mpc = "clear"
    /\ roomstatus' = "CLOSE"
    /\ CloseAll({fd \in On : fd <= maxfd})
    /\ status' = [fd \in Fds |-> "CLOSE"]
    /\ fdToIp' = [fd \in Fds |-> NoClient]
    /\ quiet' = {}
    /\ owner' = -1
    /\ sendqueue' = <<>>
    /\ mpc' = "notify E"
    /\ UNCHANGED <<maxfd, rset, cfd, mode, ip, ki, acptVars, held, linkVars, meetings>>

\* clear_room, with the queue: messages senders have popped are not cleared.
ClearRoom ==
    /\ mpc = "clear"
    /\ roomstatus' = "CLOSE"
    /\ CloseAll({fd \in On : fd <= maxfd})
    /\ status' = [fd \in Fds |-> "CLOSE"]
    /\ fdToIp' = [fd \in Fds |-> NoClient]
    /\ quiet' = {}
    /\ owner' = 0
    /\ sendqueue' = <<>>
    /\ mpc' = "notify E"
    /\ UNCHANGED <<maxfd, rset, cfd, mode, ip, ki, acptVars, held, linkVars, meetings>>

\* Faulty variant: the member stays ON.
DropMemberStaysOn ==
    /\ mpc = "drop"
    /\ ip' = fdToIp[cfd]
    /\ fdToIp' = [fdToIp EXCEPT ![cfd] = NoClient]
    /\ quiet' = quiet \ {cfd}
    /\ maxfd' = IF cfd = maxfd THEN maxfd - 1 ELSE maxfd
    /\ mpc' = "notify Q"
    /\ UNCHANGED <<file, status, owner, roomstatus, sendqueue, rset, cfd, mode, ki, acptVars,
                   held, linkVars, conn, known, meetings>>

\* Faulty variant: maxfd goes down whoever leaves.
DropMemberLowersMaxfd ==
    /\ mpc = "drop"
    /\ ip' = fdToIp[cfd]
    /\ fdToIp' = [fdToIp EXCEPT ![cfd] = NoClient]
    /\ status' = [status EXCEPT ![cfd] = "CLOSE"]
    /\ quiet' = quiet \ {cfd}
    /\ maxfd' = IF maxfd > 0 THEN maxfd - 1 ELSE 0
    /\ mpc' = "notify Q"
    /\ UNCHANGED <<file, owner, roomstatus, sendqueue, rset, cfd, mode, ki, acptVars, held,
                   linkVars, conn, known, meetings>>

\* A member that is not the owner is taken out of the pool.
DropMember ==
    /\ mpc = "drop"
    /\ ip' = fdToIp[cfd]
    /\ fdToIp' = [fdToIp EXCEPT ![cfd] = NoClient]
    /\ status' = [status EXCEPT ![cfd] = "CLOSE"]
    /\ quiet' = quiet \ {cfd}
    /\ maxfd' = IF cfd = maxfd THEN maxfd - 1 ELSE maxfd
    /\ mpc' = "notify Q"
    /\ UNCHANGED <<file, owner, roomstatus, sendqueue, rset, cfd, mode, ki, acptVars, held,
                   linkVars, conn, known, meetings>>

\* The parent is told.
NotifyParent ==
    /\ \/ mpc = "notify E" /\ notices' = Append(notices, "E") /\ mpc' = "next"
       \/ mpc = "notify Q" /\ notices' = Append(notices, "Q") /\ mpc' = "close fd"
    /\ UNCHANGED <<poolVars, sendqueue, rset, cfd, mode, ip, ki, acptVars, held, pipe, ready,
                   joins, conn, known, meetings>>

\* Close, whatever the number refers to by now.
CloseFd ==
    /\ mpc = "close fd"
    /\ CloseAll({cfd})
    /\ mpc' = "push exit"
    /\ UNCHANGED <<status, fdToIp, quiet, owner, maxfd, roomstatus, sendqueue, rset, cfd, mode,
                   ip, ki, acptVars, held, linkVars, meetings>>

PushExit ==
    /\ mpc = "push exit"
    /\ Queue!Put(Msg("PARTNER_EXIT", 0, {ip}))
    /\ ip' = NoClient
    /\ mpc' = "next"
    /\ UNCHANGED <<poolVars, rset, cfd, mode, ki, acptVars, held, linkVars, conn, known, meetings>>

-----------------------------------------------------------------------------
(* The sender threads: send_func *)

SendPop(t) ==
    /\ held[t] = NoMsg
    /\ Queue!Take
    /\ held' = [held EXCEPT ![t] = Head(sendqueue)]
    /\ UNCHANGED <<poolVars, mainVars, acptVars, linkVars, conn, known, meetings>>

\* Which descriptors a message is written to.
Receivers(m) ==
    CASE m.type = "CREATE_MEETING_RESPONSE" -> {m.fd}
      [] m.type \in {"HEARTBEAT_ACK", "PARTNER_JOIN2", "KICK_OUT_RESPONSE", "KICK_OUT_NOTIFY"} ->
           {m.fd} \cap On
      [] OTHER -> {fd \in On : fd <= maxfd /\ fd # m.fd}

\* What a client shows once it has handled the message (widget.cpp, datasolve).
Shown(c, m) ==
    CASE m.type \in {"PARTNER_JOIN", "PARTNER_JOIN2"} -> known[c] \cup m.ips
      [] m.type = "PARTNER_EXIT" -> known[c] \ m.ips
      [] OTHER -> known[c]

\* Under the lock the message is written to its receivers, who get it in order.
SendDeliver(t) ==
    /\ held[t] # NoMsg
    /\ known' = [c \in Clients |->
                   IF conn[c] = "in" /\ \E fd \in Receivers(held[t]) : file[fd] = c
                   THEN Shown(c, held[t]) ELSE known[c]]
    /\ held' = [held EXCEPT ![t] = NoMsg]
    /\ UNCHANGED <<poolVars, sendqueue, mainVars, acptVars, linkVars, conn, meetings>>

-----------------------------------------------------------------------------

Acceptor == AcceptRecv \/ AcceptCreate \/ AcceptTooLate \/ AcceptJoin \/ AcceptCompose
            \/ AcceptPush \/ AcceptList

Closing == CloseTest \/ ClearRoom \/ DropMember \/ NotifyParent \/ CloseFd \/ PushExit

Main == MainSelect \/ MainDies \/ MainTimeout \/ MainNext \/ MainReadFails \/ MainHeartbeat
        \/ MainForward \/ MainKickRefused \/ MainKick \/ MainKickNotify \/ Closing

Sender(t) == SendPop(t) \/ SendDeliver(t)

Next ==
    \/ \E c \in Clients : Create(c) \/ Join(c) \/ HangUp(c)
    \/ \E fd \in Fds : FallSilent(fd)
    \/ ParentReads
    \/ Acceptor
    \/ Main
    \/ \E t \in SendThreads : Sender(t)

Spec == Init /\ [][Next]_vars

\* Threads are scheduled, and one that waits for space in the send queue gets
\* some in the end although another takes it now and then.
Fairness ==
    /\ SF_vars(Acceptor)
    /\ SF_vars(Main)
    /\ \A t \in SendThreads : WF_vars(Sender(t))
    /\ WF_vars(ParentReads)

FairSpec == Spec /\ Fairness

-----------------------------------------------------------------------------
(* Properties *)

TypeOK ==
    /\ file \in [Fds -> Clients \cup {NoClient}]
    /\ status \in [Fds -> {"ON", "CLOSE"}]
    /\ fdToIp \in [Fds -> Clients \cup {NoClient}]
    /\ quiet \subseteq Fds
    /\ owner \in Fds \cup {0}
    /\ maxfd \in Fds \cup {0}
    /\ roomstatus \in {"ON", "CLOSE"}
    /\ sendqueue \in Seq(Message)
    /\ mpc \in {"select", "next", "read", "kick", "close", "clear", "drop", "notify E",
                "notify Q", "close fd", "push exit", "dead"}
    /\ rset \subseteq Fds
    /\ cfd \in Fds \cup {0}
    /\ mode \in {"scan", "timeouts"}
    /\ ip \in Clients \cup {NoClient}
    /\ ki \in 0..NFds + 1
    /\ apc \in {"recv", "admit", "compose", "push", "list", "dead"}
    /\ cmd \in {"C", "J"}
    /\ tfd \in Fds \cup {0}
    /\ out \in Message \cup {NoMsg}
    /\ held \in [SendThreads -> Message \cup {NoMsg}]
    /\ pipe \in Seq({"C", "J"} \X Clients)
    /\ notices \in Seq({"E", "Q"})
    /\ ready \in BOOLEAN
    /\ conn \in [Clients -> {"out", "pipe", "in", "gone", "over"}]
    /\ known \in [Clients -> SUBSET (Clients \cup {NoClient})]
    /\ meetings \in Nat
    /\ joins \in Nat

\* maxfd covers every member: no loop that stops at it - the scan, the
\* timeouts, clear_room, a broadcast - passes a member over, although fdclose
\* lowers it by one at most and clear_room not at all.
MaxfdCoversMembers == \A fd \in On : fd <= maxfd

\* The members in the pool are connections the process still has open, each
\* under the address of its own client.
MembersAreOpen == \A fd \in On : file[fd] # NoClient /\ fdToIp[fd] = file[fd]

\* Nothing is under way: what the clients show is final until someone acts.
Settled ==
    /\ sendqueue = <<>>
    /\ \A t \in SendThreads : held[t] = NoMsg
    /\ apc = "recv"
    /\ mpc = "select"

Pool == {file[fd] : fd \in On} \ {NoClient}
Present == {c \in Pool : conn[c] = "in"}

\* When everything has settled, every member shows every other member: no order
\* in which acceptor, main thread and senders handle joins and exits makes
\* PARTNER_JOIN and PARTNER_JOIN2 together miss one.
KnowsEveryMember ==
    Settled => \A c, d \in Present : c # d => d \in known[c]

\* A member is closed for silence only if it has been silent.
OnlySilentTimeOut ==
    mpc = "close" /\ mode = "timeouts" /\ status[cfd] = "ON" => cfd \in quiet

\* While the room has an owner, the owner's connection is open and in the pool:
\* "the host closes -> the room closes" (room.cpp:419).
OwnerIsMember == owner # 0 => status[owner] = "ON" /\ file[owner] # NoClient

\* A client that has closed its connection is let go in the end, and one that
\* has been passed on is admitted or turned away: main thread and acceptor,
\* which wait for a full send queue, never wait for each other or for ever.
DepartedAreLetGo == \A c \in Clients : conn[c] = "gone" ~> conn[c] = "over"
PassedAreServed  == \A c \in Clients : conn[c] = "pipe" ~> conn[c] # "pipe"

=============================================================================
