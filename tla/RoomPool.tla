------------------------------ MODULE RoomPool ------------------------------
(***************************************************************************)
(* The server's parent process and how it shares the room processes out:   *)
(*   - server/main.cpp: the pool of room processes, struct Room (navail,   *)
(*     and for every room child_status and total, guarded by room->lock),  *)
(*     and the main loop that reads the rooms' one-byte notices;           *)
(*   - server/userdeal.cpp: one worker thread per connection, which        *)
(*     answers CREATE_MEETING and JOIN_MEETING by passing the connection's *)
(*     descriptor down the room's socketpair;                              *)
(*   - of server/room.cpp what the parent can see of a room: accept_fd     *)
(*     takes descriptors from the socketpair, fdclose and clear_room write *)
(*     'Q' and 'E' back.  RoomProcess models the room in detail.           *)
(*                                                                         *)
(* A worker serves one connection until it closes or is handed over, so a  *)
(* connection stands for its worker too.  Requests that only talk to the   *)
(* client (HEARTBEAT, AUTH, the account requests) change nothing here.     *)
(***************************************************************************)
EXTENDS Integers, Sequences, FiniteSets

CONSTANTS
    Conns,        \* client connections
    NRooms,       \* nprocesses: the rooms are 1..NRooms, in pptr's order
    NThreads,     \* nthreads: workers, hence connections served at once
    MaxMembers,   \* the 1024 of userdeal.cpp:245
    PipeCap,      \* bound: notices or descriptors a socketpair buffers
    MaxCreates,   \* bound: CREATE_MEETING requests
    Faults,       \* which of FaultKinds may happen
    NoConn        \* no connection

FaultKinds ==
    {"write_fd",    \* sendmsg fails although the room lives (ENOBUFS, ...)
     "command",     \* accept_fd misreads the command, an int of which only
                    \* one byte is written (room.cpp:466-467)
     "room_crash"}  \* a room process dies

ASSUME PoolAssumption ==
    /\ IsFiniteSet(Conns)
    /\ NRooms \in Nat \ {0}
    /\ NThreads \in Nat \ {0}
    /\ MaxMembers \in Nat \ {0}
    /\ PipeCap \in Nat \ {0}
    /\ MaxCreates \in Nat
    /\ Faults \subseteq FaultKinds
    /\ NoConn \notin Conns

Rooms == 1..NRooms

VARIABLES
    child_status,  \* per room: 0 ready, 1 occupied
    total,         \* per room: members, as the parent counts them
    navail,        \* rooms ready
    lock,          \* who holds room->lock, or NoConn
    heard,         \* the notice main has read and not yet applied, or <<>>
    up,            \* the parent process runs
    pc,            \* per connection: where its worker is
    room,          \* per connection: the room its worker chose (i)
    seat,          \* per connection: where the descriptor passed on is
    asked,         \* per connection: the meeting it looked up (history)
    toRoom,        \* per room: descriptors in the socketpair
    toParent,      \* per room: notices in the socketpair
    owner,         \* per room: user_pool->owner, or NoConn
    roomstatus,    \* per room: ON or CLOSE
    owed,          \* per room: notices the room's main thread has yet to write
    dead,          \* rooms whose process has died
    meeting,       \* per room: meetings started so far (history)
    creates        \* CREATE_MEETING requests so far (bounded)

parentVars == <<child_status, total, navail, lock, heard, up>>
workerVars == <<pc, room, seat, asked, creates>>
roomVars   == <<toRoom, toParent, owner, roomstatus, owed, dead, meeting>>
vars       == <<parentVars, workerVars, roomVars>>

-----------------------------------------------------------------------------
(* Shorthands *)

\* Phases of a connection.  "closed": not accepted, or closed again; "lobby":
\* its worker waits for a request; "handed": the worker has passed it on and
\* closed its copy; "orphan": its worker left it open (line 569).
Serving ==
    {"lobby", "create_lock", "create_write", "create_occupy", "create_done",
     "create_unlock", "join_check", "join_lock", "join_write", "join_reply"}
Phases == Serving \cup {"closed", "handed", "orphan"}

\* Where the room process has the descriptor.
Seats == {"none", "pipe", "room", "left", "lost"}

Busy == {c \in Conns : pc[c] \in Serving}

Members(r) == {c \in Conns : seat[c] = "room" /\ room[c] = r}
Waiting(r) == {c \in Conns : seat[c] = "pipe" /\ room[c] = r}

Free == {r \in Rooms : child_status[r] = 0}

\* A reply of the worker: the connection stays and waits for a request.
BackToLobby(c) ==
    /\ pc' = [pc EXCEPT ![c] = "lobby"]
    /\ room' = [room EXCEPT ![c] = 1]
    /\ asked' = [asked EXCEPT ![c] = 0]

Init ==
    /\ child_status = [r \in Rooms |-> 0]
    /\ total = [r \in Rooms |-> 0]
    /\ navail = NRooms
    /\ lock = NoConn
    /\ heard = <<>>
    /\ up = TRUE
    /\ pc = [c \in Conns |-> "closed"]
    /\ room = [c \in Conns |-> 1]
    /\ seat = [c \in Conns |-> "none"]
    /\ asked = [c \in Conns |-> 0]
    /\ toRoom = [r \in Rooms |-> <<>>]
    /\ toParent = [r \in Rooms |-> <<>>]
    /\ owner = [r \in Rooms |-> NoConn]
    /\ roomstatus = [r \in Rooms |-> "ON"]
    /\ owed = [r \in Rooms |-> <<>>]
    /\ dead = {}
    /\ meeting = [r \in Rooms |-> 0]
    /\ creates = 0

-----------------------------------------------------------------------------
(* Connections and workers *)

\* thread_main: an idle thread accepts a connection.  A client whose meeting is
\* over, or whom nobody serves, may connect again.
Accept(c) ==
    /\ up
    /\ Cardinality(Busy) < NThreads
    /\ \/ pc[c] \in {"closed", "orphan"}
       \/ pc[c] = "handed" /\ seat[c] \in {"left", "lost"}
    /\ pc' = [pc EXCEPT ![c] = "lobby"]
    /\ seat' = [seat EXCEPT ![c] = "none"]
    /\ asked' = [asked EXCEPT ![c] = 0]
    /\ room' = [room EXCEPT ![c] = 1]
    /\ UNCHANGED <<creates, parentVars, roomVars>>

\* Readn finds the connection closed, or the body too long: close, return.
Hangup(c) ==
    /\ up
    /\ pc[c] = "lobby"
    /\ pc' = [pc EXCEPT ![c] = "closed"]
    /\ UNCHANGED <<room, seat, asked, creates, parentVars, roomVars>>

\* Any request without a handler: the body is drained, then the loop is left
\* and dowithuser returns without closing the connection.
Unsupported(c) ==
    /\ up
    /\ pc[c] = "lobby"
    /\ pc' = [pc EXCEPT ![c] = "orphan"]
    /\ UNCHANGED <<room, seat, asked, creates, parentVars, roomVars>>

-----------------------------------------------------------------------------
(* CREATE_MEETING *)

\* navail is read without the lock; with no room left the worker replies 0.
CreateRequest(c) ==
    /\ up
    /\ pc[c] = "lobby"
    /\ navail > 0
    /\ creates < MaxCreates
    /\ creates' = creates + 1
    /\ pc' = [pc EXCEPT ![c] = "create_lock"]
    /\ UNCHANGED <<room, seat, asked, parentVars, roomVars>>

\* Faulty variant: the scan's result is used without the test i == nprocesses.
CreateLockOffTheEnd(c) ==
    /\ up
    /\ pc[c] = "create_lock"
    /\ lock = NoConn
    /\ lock' = c
    /\ pc' = [pc EXCEPT ![c] = "create_write"]
    /\ room' = [room EXCEPT ![c] = IF Free = {} THEN NRooms + 1
                                    ELSE CHOOSE r \in Free : \A s \in Free : r <= s]
    /\ UNCHANGED <<child_status, total, navail, heard, up, seat, asked, creates, roomVars>>

\* Faulty variant: the rooms are scanned without the lock.
CreateLockUnlocked(c) ==
    /\ up
    /\ pc[c] = "create_lock"
    /\ \E r \in Free :
         /\ \A s \in Free : r <= s
         /\ lock' = c
         /\ room' = [room EXCEPT ![c] = r]
         /\ pc' = [pc EXCEPT ![c] = "create_write"]
    /\ UNCHANGED <<child_status, total, navail, heard, up, seat, asked, creates, roomVars>>

\* The lock is taken and the first ready room looked for; without one the
\* worker replies 0 and unlocks.
CreateLock(c) ==
    /\ up
    /\ pc[c] = "create_lock"
    /\ lock = NoConn
    /\ \/ /\ Free = {}
          /\ BackToLobby(c)
          /\ UNCHANGED lock
       \/ \E r \in Free :
            /\ \A s \in Free : r <= s
            /\ lock' = c
            /\ room' = [room EXCEPT ![c] = r]
            /\ pc' = [pc EXCEPT ![c] = "create_write"]
            /\ UNCHANGED asked
    /\ UNCHANGED <<child_status, total, navail, heard, up, seat, creates, roomVars>>

\* write_fd 'C', with the lock held; it blocks while the socketpair is full.
CreateWrite(c) ==
    /\ up
    /\ pc[c] = "create_write"
    /\ room[c] \notin dead
    /\ Len(toRoom[room[c]]) < PipeCap
    /\ toRoom' = [toRoom EXCEPT ![room[c]] = Append(@, <<"C", c>>)]
    /\ seat' = [seat EXCEPT ![c] = "pipe"]
    /\ pc' = [pc EXCEPT ![c] = "create_occupy"]
    /\ meeting' = [meeting EXCEPT ![room[c]] = @ + 1]
    /\ UNCHANGED <<room, asked, creates, toParent, owner, roomstatus, owed, dead, parentVars>>

\* The bookkeeping after write_fd.  JOIN_MEETING reads child_status and total
\* without the lock, so it may look between the two.
CreateOccupy(c) ==
    /\ up
    /\ pc[c] = "create_occupy"
    /\ child_status' = [child_status EXCEPT ![room[c]] = 1]
    /\ pc' = [pc EXCEPT ![c] = "create_done"]
    /\ UNCHANGED <<total, navail, lock, heard, up, room, seat, asked, creates, roomVars>>

CreateDone(c) ==
    /\ up
    /\ pc[c] = "create_done"
    /\ navail' = navail - 1
    /\ total' = [total EXCEPT ![room[c]] = @ + 1]
    /\ lock' = NoConn
    /\ pc' = [pc EXCEPT ![c] = "handed"]
    /\ UNCHANGED <<child_status, heard, up, room, seat, asked, creates, roomVars>>

\* write_fd failed: unlock (line 185), and unlock again (line 198) although
\* somebody else may hold the lock by then.
CreateFails(c) ==
    /\ up
    /\ pc[c] = "create_write"
    /\ "write_fd" \in Faults
    /\ lock' = NoConn
    /\ pc' = [pc EXCEPT ![c] = "create_unlock"]
    /\ UNCHANGED <<child_status, total, navail, heard, up, room, seat, asked, creates, roomVars>>

CreateUnlock(c) ==
    /\ up
    /\ pc[c] = "create_unlock"
    /\ lock' = NoConn
    /\ BackToLobby(c)
    /\ UNCHANGED <<child_status, total, navail, heard, up, seat, creates, roomVars>>

-----------------------------------------------------------------------------
(* JOIN_MEETING *)

\* The room is looked up without the lock; the worker replies 0 if it is not
\* occupied, and otherwise goes on to look at its total.
JoinRequest(c, r) ==
    /\ up
    /\ pc[c] = "lobby"
    /\ child_status[r] = 1
    /\ room' = [room EXCEPT ![c] = r]
    /\ asked' = [asked EXCEPT ![c] = meeting[r]]
    /\ pc' = [pc EXCEPT ![c] = "join_check"]
    /\ UNCHANGED <<seat, creates, parentVars, roomVars>>

\* Faulty variant: > for >= in the test of the limit.
JoinCheckOffByOne(c) ==
    /\ up
    /\ pc[c] = "join_check"
    /\ IF total[room[c]] > MaxMembers
       THEN BackToLobby(c)
       ELSE pc' = [pc EXCEPT ![c] = "join_lock"] /\ UNCHANGED <<room, asked>>
    /\ UNCHANGED <<seat, creates, parentVars, roomVars>>

\* total is read without the lock too; a full room is answered -1.
JoinCheck(c) ==
    /\ up
    /\ pc[c] = "join_check"
    /\ IF total[room[c]] >= MaxMembers
       THEN BackToLobby(c)
       ELSE pc' = [pc EXCEPT ![c] = "join_lock"] /\ UNCHANGED <<room, asked>>
    /\ UNCHANGED <<seat, creates, parentVars, roomVars>>

JoinLock(c) ==
    /\ up
    /\ pc[c] = "join_lock"
    /\ lock = NoConn
    /\ lock' = c
    /\ pc' = [pc EXCEPT ![c] = "join_write"]
    /\ UNCHANGED <<child_status, total, navail, heard, up, room, seat, asked, creates, roomVars>>

\* write_fd 'J' with the lock held; the room's status is not looked at again.
JoinWrite(c) ==
    /\ up
    /\ pc[c] = "join_write"
    /\ room[c] \notin dead
    /\ Len(toRoom[room[c]]) < PipeCap
    /\ toRoom' = [toRoom EXCEPT ![room[c]] = Append(@, <<"J", c>>)]
    /\ seat' = [seat EXCEPT ![c] = "pipe"]
    /\ pc' = [pc EXCEPT ![c] = "join_reply"]
    /\ UNCHANGED <<room, asked, creates, toParent, owner, roomstatus, owed, dead, meeting, parentVars>>

\* Faulty variant: the guest is not counted.
JoinReplyUncounted(c) ==
    /\ up
    /\ pc[c] = "join_reply"
    /\ lock' = NoConn
    /\ pc' = [pc EXCEPT ![c] = "handed"]
    /\ UNCHANGED <<child_status, total, navail, heard, up, room, seat, asked, creates, roomVars>>

\* Faulty variant: the worker returns without unlocking.
JoinReplyLocked(c) ==
    /\ up
    /\ pc[c] = "join_reply"
    /\ total' = [total EXCEPT ![room[c]] = @ + 1]
    /\ pc' = [pc EXCEPT ![c] = "handed"]
    /\ UNCHANGED <<child_status, navail, lock, heard, up, room, seat, asked, creates, roomVars>>

\* The worker tells the client it has joined, counts it, unlocks and returns.
JoinReply(c) ==
    /\ up
    /\ pc[c] = "join_reply"
    /\ total' = [total EXCEPT ![room[c]] = @ + 1]
    /\ lock' = NoConn
    /\ pc' = [pc EXCEPT ![c] = "handed"]
    /\ UNCHANGED <<child_status, navail, heard, up, room, seat, asked, creates, roomVars>>

\* write_fd failed: unlock and go on; the client is told nothing.
JoinFails(c) ==
    /\ up
    /\ pc[c] = "join_write"
    /\ "write_fd" \in Faults
    /\ lock' = NoConn
    /\ BackToLobby(c)
    /\ UNCHANGED <<child_status, total, navail, heard, up, seat, creates, roomVars>>

-----------------------------------------------------------------------------
(* The room process, as far as the parent can tell *)

\* accept_fd, 'C': the new connection owns the room.  Nothing is cleared.
RoomCreate(r) ==
    /\ r \notin dead
    /\ toRoom[r] # <<>>
    /\ LET cmd == Head(toRoom[r])
       IN  /\ cmd[1] = "C"
           /\ owner' = [owner EXCEPT ![r] = cmd[2]]
           /\ seat' = [seat EXCEPT ![cmd[2]] = "room"]
    /\ roomstatus' = [roomstatus EXCEPT ![r] = "ON"]
    /\ toRoom' = [toRoom EXCEPT ![r] = Tail(@)]
    /\ UNCHANGED <<pc, room, asked, creates, toParent, owed, dead, meeting, parentVars>>

\* Faulty variant: the room's status is not looked at.
RoomJoinAlways(r) ==
    /\ r \notin dead
    /\ toRoom[r] # <<>>
    /\ LET cmd == Head(toRoom[r])
       IN  /\ cmd[1] = "J"
           /\ seat' = [seat EXCEPT ![cmd[2]] = "room"]
           /\ asked' = [asked EXCEPT ![cmd[2]] = 0]
    /\ toRoom' = [toRoom EXCEPT ![r] = Tail(@)]
    /\ UNCHANGED <<pc, room, creates, toParent, owner, roomstatus, owed, dead, meeting,
                   parentVars>>

\* accept_fd, 'J': a closed room closes the descriptor and tells nobody.
RoomJoin(r) ==
    /\ r \notin dead
    /\ toRoom[r] # <<>>
    /\ LET cmd == Head(toRoom[r])
       IN  /\ cmd[1] = "J"
           /\ seat' = [seat EXCEPT ![cmd[2]] =
                         IF roomstatus[r] = "CLOSE" THEN "left" ELSE "room"]
           /\ asked' = [asked EXCEPT ![cmd[2]] = 0]
    /\ toRoom' = [toRoom EXCEPT ![r] = Tail(@)]
    /\ UNCHANGED <<pc, room, creates, toParent, owner, roomstatus, owed, dead, meeting,
                   parentVars>>

\* accept_fd compares an int whose upper bytes were never written: it may take
\* the command for neither 'C' nor 'J' and forget the descriptor.
RoomIgnores(r) ==
    /\ "command" \in Faults
    /\ r \notin dead
    /\ toRoom[r] # <<>>
    /\ seat' = [seat EXCEPT ![Head(toRoom[r])[2]] = "lost"]
    /\ toRoom' = [toRoom EXCEPT ![r] = Tail(@)]
    /\ UNCHANGED <<pc, room, asked, creates, toParent, owner, roomstatus, owed, dead,
                   meeting, parentVars>>

\* fdclose of a member that is not the owner.
MemberLeaves(r, c) ==
    /\ r \notin dead
    /\ owed[r] = <<>>
    /\ c \in Members(r) /\ c # owner[r]
    /\ seat' = [seat EXCEPT ![c] = "left"]
    /\ owed' = [owed EXCEPT ![r] = <<"Q">>]
    /\ UNCHANGED <<pc, room, asked, creates, toRoom, toParent, owner, roomstatus, dead,
                   meeting, parentVars>>

\* Faulty variant: the parent is not told that the room is empty.
OwnerLeavesSilent(r) ==
    /\ r \notin dead
    /\ owed[r] = <<>>
    /\ owner[r] \in Members(r)
    /\ seat' = [c \in Conns |-> IF c \in Members(r) THEN "left" ELSE seat[c]]
    /\ owner' = [owner EXCEPT ![r] = NoConn]
    /\ roomstatus' = [roomstatus EXCEPT ![r] = "CLOSE"]
    /\ UNCHANGED <<pc, room, asked, creates, toRoom, toParent, owed, dead, meeting, parentVars>>

\* fdclose of the owner: clear_room closes every member.  Members whose
\* descriptors the same pass of the main loop still finds in its stale rset are
\* closed a second time, with a 'Q' each, after the 'E'.
OwnerLeaves(r) ==
    /\ r \notin dead
    /\ owed[r] = <<>>
    /\ owner[r] \in Members(r)
    /\ \E n \in 0..Cardinality(Members(r)) - 1 :
         owed' = [owed EXCEPT ![r] = <<"E">> \o [i \in 1..n |-> "Q"]]
    /\ seat' = [c \in Conns |-> IF c \in Members(r) THEN "left" ELSE seat[c]]
    /\ owner' = [owner EXCEPT ![r] = NoConn]
    /\ roomstatus' = [roomstatus EXCEPT ![r] = "CLOSE"]
    /\ UNCHANGED <<pc, room, asked, creates, toRoom, toParent, dead, meeting, parentVars>>

\* writen of one notice; it blocks while the socketpair is full.
Notify(r) ==
    /\ r \notin dead
    /\ owed[r] # <<>>
    /\ Len(toParent[r]) < PipeCap
    /\ toParent' = [toParent EXCEPT ![r] = Append(@, Head(owed[r]))]
    /\ owed' = [owed EXCEPT ![r] = Tail(@)]
    /\ UNCHANGED <<toRoom, owner, roomstatus, dead, meeting, workerVars, parentVars>>

-----------------------------------------------------------------------------
(* main of the parent *)

ReadNotice(r) ==
    /\ up
    /\ heard = <<>>
    /\ toParent[r] # <<>>
    /\ heard' = <<r, Head(toParent[r])>>
    /\ toParent' = [toParent EXCEPT ![r] = Tail(@)]
    /\ UNCHANGED <<child_status, total, navail, lock, up, toRoom, owner, roomstatus,
                   owed, dead, meeting, workerVars>>

\* Faulty variant: the room is made ready, but not counted as such.
RoomEmptyUncounted ==
    /\ up
    /\ heard # <<>> /\ heard[2] = "E"
    /\ lock = NoConn
    /\ child_status' = [child_status EXCEPT ![heard[1]] = 0]
    /\ heard' = <<>>
    /\ UNCHANGED <<total, navail, lock, up, workerVars, roomVars>>

\* Faulty variant: any notice makes the room ready.
RoomEmptyOnAnyNotice ==
    /\ up
    /\ heard # <<>>
    /\ lock = NoConn
    /\ child_status' = [child_status EXCEPT ![heard[1]] = 0]
    /\ navail' = navail + 1
    /\ heard' = <<>>
    /\ UNCHANGED <<total, lock, up, workerVars, roomVars>>

\* 'E': the room is ready again; its total is left as it is.
RoomEmpty ==
    /\ up
    /\ heard # <<>> /\ heard[2] = "E"
    /\ lock = NoConn
    /\ child_status' = [child_status EXCEPT ![heard[1]] = 0]
    /\ navail' = navail + 1
    /\ heard' = <<>>
    /\ UNCHANGED <<total, lock, up, workerVars, roomVars>>

\* 'Q': a member has quit.
PartnerQuit ==
    /\ up
    /\ heard # <<>> /\ heard[2] = "Q"
    /\ lock = NoConn
    /\ total' = [total EXCEPT ![heard[1]] = @ - 1]
    /\ heard' = <<>>
    /\ UNCHANGED <<child_status, navail, lock, up, workerVars, roomVars>>

-----------------------------------------------------------------------------
(* Processes that die *)

\* A room process dies, and its members' connections with it.
Die(r) ==
    /\ dead' = dead \cup {r}
    /\ seat' = [c \in Conns |->
                  IF c \in Members(r) \cup Waiting(r) THEN "left" ELSE seat[c]]
    /\ owner' = [owner EXCEPT ![r] = NoConn]
    /\ UNCHANGED <<pc, room, asked, creates, toRoom, toParent, roomstatus, owed,
                   meeting, parentVars>>

RoomCrash(r) ==
    /\ up
    /\ "room_crash" \in Faults
    /\ r \notin dead
    /\ Die(r)

\* main reads end-of-file from the dead room and calls err_quit; or a worker
\* writes a descriptor to it and SIGPIPE, not ignored here, ends the process.
ParentQuits(r) ==
    /\ up
    /\ r \in dead
    /\ \/ heard = <<>> /\ toParent[r] = <<>>
       \/ \E c \in Conns : room[c] = r /\ pc[c] \in {"create_write", "join_write"}
    /\ up' = FALSE
    /\ UNCHANGED <<child_status, total, navail, lock, heard, workerVars, roomVars>>

\* accept_fd of a room reads end-of-file and calls err_quit once every copy of
\* the parent's end is closed; the rooms forked later hold one.
RoomQuits(r) ==
    /\ ~up
    /\ r \notin dead
    /\ \A s \in Rooms : s > r => s \in dead
    /\ Die(r)

-----------------------------------------------------------------------------

Worker(c) ==
    \/ CreateLock(c) \/ CreateWrite(c) \/ CreateOccupy(c) \/ CreateDone(c)
    \/ CreateFails(c) \/ CreateUnlock(c)
    \/ JoinCheck(c) \/ JoinLock(c) \/ JoinWrite(c) \/ JoinReply(c) \/ JoinFails(c)

Next ==
    \/ \E c \in Conns : \/ Accept(c) \/ Hangup(c) \/ Unsupported(c)
                        \/ CreateRequest(c)
                        \/ \E r \in Rooms : JoinRequest(c, r)
                        \/ Worker(c)
    \/ \E r \in Rooms : \/ RoomCreate(r) \/ RoomJoin(r) \/ RoomIgnores(r)
                        \/ \E c \in Conns : MemberLeaves(r, c)
                        \/ OwnerLeaves(r) \/ Notify(r) \/ ReadNotice(r)
                        \/ RoomCrash(r) \/ ParentQuits(r) \/ RoomQuits(r)
    \/ RoomEmpty \/ PartnerQuit

Spec == Init /\ [][Next]_vars

\* Threads and processes are scheduled, and a thread that waits for room->lock
\* gets it in the end although others keep taking it.  Clients are free.
Fairness ==
    /\ \A c \in Conns : /\ SF_vars(CreateLock(c)) /\ SF_vars(JoinLock(c))
                        /\ WF_vars(CreateWrite(c)) /\ WF_vars(CreateOccupy(c))
                        /\ WF_vars(CreateDone(c)) /\ WF_vars(JoinCheck(c)) /\ WF_vars(JoinWrite(c))
                        /\ WF_vars(JoinReply(c)) /\ WF_vars(CreateUnlock(c))
    /\ \A r \in Rooms : /\ WF_vars(RoomCreate(r)) /\ WF_vars(RoomJoin(r))
                        /\ WF_vars(Notify(r)) /\ SF_vars(ReadNotice(r))
    /\ SF_vars(RoomEmpty) /\ SF_vars(PartnerQuit)

FairSpec == Spec /\ Fairness

-----------------------------------------------------------------------------
(* Properties *)

TypeOK ==
    /\ child_status \in [Rooms -> {0, 1}]
    /\ total \in [Rooms -> Int]
    /\ navail \in Int
    /\ lock \in Conns \cup {NoConn}
    /\ heard \in {<<>>} \cup (Rooms \X {"E", "Q"})
    /\ up \in BOOLEAN
    /\ pc \in [Conns -> Phases]
    /\ room \in [Conns -> Rooms]
    /\ seat \in [Conns -> Seats]
    /\ asked \in [Conns -> Nat]
    /\ toRoom \in [Rooms -> Seq({"C", "J"} \X Conns)]
    /\ toParent \in [Rooms -> Seq({"E", "Q"})]
    /\ owner \in [Rooms -> Conns \cup {NoConn}]
    /\ roomstatus \in [Rooms -> {"ON", "CLOSE"}]
    /\ owed \in [Rooms -> Seq({"E", "Q"})]
    /\ dead \subseteq Rooms
    /\ meeting \in [Rooms -> Nat]
    /\ creates \in Nat

\* The descriptors in r's socketpair that came with command k.
Queued(r, k) == {c \in Waiting(r) : \E i \in 1..Len(toRoom[r]) : toRoom[r][i] = <<k, c>>}

\* The 'Q' notices of room r that main has not applied yet.
QuitNotices(r) ==
      Cardinality({i \in 1..Len(toParent[r]) : toParent[r][i] = "Q"})
    + Cardinality({i \in 1..Len(owed[r]) : owed[r][i] = "Q"})
    + (IF heard = <<r, "Q">> THEN 1 ELSE 0)

\* Workers that have passed a descriptor to r and not counted it yet.
Uncounted(r) ==
    {c \in Conns : room[c] = r /\ pc[c] \in {"create_occupy", "create_done", "join_reply"}}

\* Whenever nobody is inside the locked sections, navail - which CREATE_MEETING
\* reads without the lock - is the number of rooms that are ready: create and
\* the 'E' notice never count a room twice or forget one.
NavailCountsFreeRooms == lock = NoConn => navail = Cardinality(Free)

\* At most one meeting occupies a room: counting the CREATE_MEETING descriptors
\* on their way to it and the owner it has, a room process never has two, so a
\* meeting never gets a second owner or is merged with another.
OneMeetingPerRoom ==
    \A r \in Rooms :
        Cardinality(Queued(r, "C")) + (IF owner[r] # NoConn THEN 1 ELSE 0) <= 1

\* A room the parent holds ready has nobody in it and no 'E' left to send: the
\* parent learns that a meeting is over only when it is, and never reuses a
\* room early (main.cpp:94, userdeal.cpp:191).
ReadyRoomIsEmpty ==
    \A r \in Free : (\A c \in Conns : room[c] = r => pc[c] # "create_occupy") =>
        /\ owner[r] = NoConn
        /\ Members(r) = {}
        /\ Queued(r, "C") = {}
        /\ \A i \in 1..Len(toParent[r]) : toParent[r][i] # "E"
        /\ \A i \in 1..Len(owed[r]) : owed[r][i] # "E"
        /\ heard # <<r, "E">>

\* The parent's total never falls below the members a room really has, whatever
\* 'Q' notices are still on their way: JOIN_MEETING never admits beyond the
\* limit because of an undercount.
TotalCoversMembers ==
    \A r \in Rooms \ dead :
        total[r] + Cardinality(Uncounted(r))
            >= Cardinality(Members(r) \cup Waiting(r)) + QuitNotices(r)

\* The limit is tested without the lock (userdeal.cpp:245), so several workers
\* may pass it at once; but a room is never over it by more than the workers
\* there are besides the one that filled it.
AdmissionOvershoot ==
    \A r \in Rooms \ dead : Cardinality(Members(r) \cup Waiting(r)) <= MaxMembers + NThreads - 1

\* What a reader of the documents expects and the code does not keep; TLC finds the
\* counterexamples of this property and the next with one and with two workers.
\* JOIN_MEETING is told that a room is full (-1: the client shows "the room is
\* full, cannot join", widget.cpp:533) only when it has that many members.
FullMeansFull ==
    [][\A c \in Conns : pc[c] = "join_check" /\ pc'[c] = "lobby" =>
          Cardinality(Members(room[c]) \cup Waiting(room[c])) >= MaxMembers]_vars

\* A guest becomes a member of the meeting that was going on in the room when
\* JOIN_MEETING looked the room up, never of a later one in the same room.
AdmittedToTheMeetingAskedFor ==
    [][\A c \in Conns : seat[c] = "pipe" /\ seat'[c] = "room" /\ owner'[room[c]] # c =>
          asked[c] = meeting[room[c]]]_vars

\* Where each room is in the life cycle that RoomLifecycle describes.
RoomPhase(r) ==
    CASE owner[r] # NoConn -> "meeting"
      [] owner[r] = NoConn /\ Queued(r, "C") # {} -> "reserved"
      [] owner[r] = NoConn /\ Queued(r, "C") = {}
         /\ (\/ child_status[r] = 1
             \/ \E c \in Conns : room[c] = r /\ pc[c] = "create_occupy") -> "over"
      [] OTHER -> "ready"

Lifecycle == INSTANCE RoomLifecycle WITH
    Clients <- Conns,
    Nobody  <- NoConn,
    phase   <- [r \in Rooms |-> RoomPhase(r)],
    host    <- owner,
    members <- [r \in Rooms |-> Members(r)]

\* Workers, rooms and main together implement the life cycle: a room is only
\* handed out when ready, lets guests in only during a meeting, and when its
\* owner has left it is ready again in the end.
ImplementsLifecycle == Lifecycle!Spec

\* A request is answered or handed over in the end: no worker waits for ever
\* for room->lock or for space in a room's socketpair.
RequestsAreAnswered ==
    \A c \in Conns :
        pc[c] \in Serving \ {"lobby"} ~> pc[c] \in {"lobby", "handed"}

=============================================================================
