------------------------ MODULE RoomLifecycleProofs -------------------------
(***************************************************************************)
(* As long as nothing fails, RoomPool takes only the steps of the life     *)
(* cycle that RoomLifecycle describes, for any connections, rooms, workers *)
(* and bounds.  That a room is recycled in the end is left to TLC.         *)
(***************************************************************************)
EXTENDS RoomPoolMemberProofs

\* Without faults no process dies.
AliveInv == up = TRUE /\ dead = {}

\* What the life cycle rests on.
LifeInv == PoolInv /\ SeatInv /\ PipeInv /\ StartedInv /\ MemberInv /\ OpenInv /\ AliveInv

LEMMA AliveStep ==
  ASSUME Faults = {}, AliveInv, [Next]_vars
  PROVE  AliveInv'
<1>. USE DEF AliveInv
<1>1. ASSUME UNCHANGED <<parentVars, roomVars>>  PROVE AliveInv'
  BY <1>1 DEF parentVars, roomVars
<1>2. ASSUME NEW c \in Conns, Stays(c) \/ CreateWrite(c) \/ JoinWrite(c)  PROVE AliveInv'
  BY <1>2 DEF Stays, Accept, Hangup, Unsupported, CreateRequest, JoinRequest, CreateLock,
     CreateFails, CreateUnlock, JoinCheck, JoinLock, JoinFails, CreateWrite, JoinWrite,
     parentVars, roomVars
<1>3. ASSUME NEW c \in Conns, CreateOccupy(c) \/ CreateDone(c) \/ JoinReply(c)  PROVE AliveInv'
  BY <1>3 DEF CreateOccupy, CreateDone, JoinReply, roomVars
<1>4. ASSUME NEW r \in Rooms, \/ RoomCreate(r) \/ RoomJoin(r) \/ RoomIgnores(r)
                              \/ (\E c \in Conns : MemberLeaves(r, c)) \/ OwnerLeaves(r)
                              \/ Notify(r) \/ ReadNotice(r)
      PROVE  AliveInv'
  BY <1>4 DEF RoomCreate, RoomJoin, RoomIgnores, MemberLeaves, OwnerLeaves, Notify,
     ReadNotice, parentVars
<1>5. ASSUME NEW r \in Rooms  PROVE ~RoomCrash(r) /\ ~ParentQuits(r) /\ ~RoomQuits(r)
  BY DEF RoomCrash, ParentQuits, RoomQuits
<1>6. CASE RoomEmpty \/ PartnerQuit \/ UNCHANGED vars
  BY <1>6 DEF RoomEmpty, PartnerQuit, vars, parentVars, roomVars
<1>. QED  BY <1>2, <1>3, <1>4, <1>5, <1>6 DEF Next, Worker, Stays

LEMMA LifeInductive ==
  ASSUME Faults = {}
  PROVE  Spec => []LifeInv
<1>1. "write_fd" \notin Faults
  OBVIOUS
<1>2. Init => AliveInv
  BY DEF Init, AliveInv
<1>3. AliveInv /\ [Next]_vars => AliveInv'
  BY AliveStep
<1>. QED  BY <1>1, <1>2, <1>3, RoomsInductive, PTL DEF Spec, LifeInv

-----------------------------------------------------------------------------
(* Where a room is in its life *)

\* The descriptor of an owner in the socketpair is that of a connection that
\* waits, as long as the room lives.
LEMMA Reserved ==
  ASSUME TypeOK, PipeInv, dead = {}, NEW r \in Rooms
  PROVE  Queued(r, "C") # {} <=> Creating(r)
<1>1. ASSUME Creating(r)  PROVE Queued(r, "C") # {}
  <2>1. PICK i \in 1..Len(toRoom[r]) : toRoom[r][i] \in Creations
    BY <1>1 DEF Creating, Occurs
  <2>2. PICK c \in Conns : toRoom[r][i] = <<"C", c>>
    BY <2>1 DEF Creations
  <2>3. c \in Waiting(r)
    BY <2>2 DEF PipeInv, InPipe, Waiting
  <2>. QED  BY <2>2, <2>3 DEF Queued
<1>. QED  BY <1>1, QueuedOwners

\* RoomPhase told by the traces of a meeting.
PhaseTold ==
    \A r \in Rooms :
        /\ Hosting(r) => RoomPhase(r) = "meeting"
        /\ ~Hosting(r) /\ Creating(r) => RoomPhase(r) = "reserved"
        /\ ~Hosting(r) /\ ~Creating(r) /\ Occupied(r) => RoomPhase(r) = "over"
        /\ ~Hosting(r) /\ ~Creating(r) /\ ~Occupied(r) => RoomPhase(r) = "ready"

LEMMA PhaseOf == LifeInv => PhaseTold
BY Reserved DEF LifeInv, PoolInv, AliveInv, PhaseTold, RoomPhase, Hosting, Occupied

\* The same after a step.
LEMMA PhaseAfter == LifeInv' => PhaseTold'
BY PhaseOf, PTL

\* A room's phase changes only with its traces.
LEMMA PhaseFrame ==
  ASSUME LifeInv, LifeInv', NEW r \in Rooms, Hosting(r)' <=> Hosting(r),
         Creating(r)' <=> Creating(r), Occupied(r)' <=> Occupied(r)
  PROVE  RoomPhase(r)' = RoomPhase(r)
BY PhaseOf, PhaseAfter DEF PhaseTold

LEMMA LifecycleInit == Init => Lifecycle!Init
<1>. SUFFICES ASSUME Init  PROVE Lifecycle!Init
  OBVIOUS
<1>1. ASSUME NEW r \in Rooms  PROVE RoomPhase(r) = "ready" /\ Members(r) = {}
  <2>1. Members(r) = {} /\ Queued(r, "C") = {} /\ owner[r] = NoConn /\ child_status[r] = 0
    BY DEF Init, Members, Queued, Waiting
  <2>2. \A c \in Conns : pc[c] # "create_occupy"
    BY DEF Init
  <2>. QED  BY <2>1, <2>2 DEF RoomPhase
<1>. QED  BY <1>1 DEF Lifecycle!Init, Init

-----------------------------------------------------------------------------
(* Every step of RoomPool is a step of the life cycle, or none *)

\* The rooms that a step leaves as they are.
Same(r) ==
    /\ owner'[r] = owner[r] /\ Members(r)' = Members(r)
    /\ Creating(r)' <=> Creating(r)
    /\ Occupied(r)' <=> Occupied(r)

\* A step that changes one room at most.
LEMMA OneRoom ==
  ASSUME LifeInv, LifeInv', NEW r \in Rooms, \A s \in Rooms \ {r} : Same(s)
  PROVE  /\ [q \in Rooms |-> RoomPhase(q)]'
              = [[q \in Rooms |-> RoomPhase(q)] EXCEPT ![r] = RoomPhase(r)']
         /\ owner' = [owner EXCEPT ![r] = owner'[r]]
         /\ [q \in Rooms |-> Members(q)]'
              = [[q \in Rooms |-> Members(q)] EXCEPT ![r] = Members(r)']
<1>1. \A s \in Rooms \ {r} : RoomPhase(s)' = RoomPhase(s)
  BY PhaseFrame DEF Same, Hosting
<1>2. DOMAIN owner = Rooms /\ owner = [q \in Rooms |-> owner[q]]
      /\ owner' = [q \in Rooms |-> owner'[q]]
  BY DEF LifeInv, PoolInv, TypeOK
<1>. QED  BY <1>1, <1>2 DEF Same

\* A step that changes no room.
LEMMA NoRoom ==
  ASSUME LifeInv, LifeInv', owner' = owner,
         \A s \in Rooms : /\ Members(s)' = Members(s) /\ (Creating(s)' <=> Creating(s))
                          /\ (Occupied(s)' <=> Occupied(s))
  PROVE  UNCHANGED Lifecycle!vars
<1>1. \A s \in Rooms : RoomPhase(s)' = RoomPhase(s)
  BY PhaseFrame DEF Hosting
<1>. QED  BY <1>1 DEF Lifecycle!vars

\* What a worker does while it is not passing a descriptor on.
LEMMA StaysLife ==
  ASSUME LifeInv, LifeInv', NEW c \in Conns, Stays(c)
  PROVE  UNCHANGED Lifecycle!vars
<1>1. TypeOK /\ SeatInv
  BY DEF LifeInv, PoolInv
<1>2. /\ UNCHANGED <<child_status, toRoom, owner>>
      /\ pc[c] # "create_occupy" /\ pc'[c] # "create_occupy"
      /\ \A d \in Conns \ {c} : pc'[d] = pc[d] /\ room'[d] = room[d]
  BY <1>1, StaysStep DEF roomVars, Counting, Unpassed
<1>3. ASSUME NEW s \in Rooms  PROVE Occupied(s)' <=> Occupied(s)
  BY <1>2 DEF Occupied
<1>4. ASSUME NEW s \in Rooms
      PROVE  Members(s)' = Members(s) /\ (Creating(s)' <=> Creating(s))
  BY <1>1, <1>2, StaysPlaces, CreatingStep
<1>. QED  BY <1>2, <1>3, <1>4, NoRoom

\* CREATE_MEETING reserves the room when the descriptor is written.
LEMMA CreateLife ==
  ASSUME LifeInv, LifeInv', NEW c \in Conns, CreateWrite(c)
  PROVE  Lifecycle!Reserve(room[c])
<1>. DEFINE r == room[c]
<1>1. TypeOK /\ SeatInv /\ LockInv /\ TraceInv /\ ChoiceInv
  BY DEF LifeInv, PoolInv
<1>2. /\ r \in Rooms /\ pc[c] = "create_write" /\ pc' = [pc EXCEPT ![c] = "create_occupy"]
      /\ toRoom' = [toRoom EXCEPT ![r] = Append(@, <<"C", c>>)]
      /\ seat' = [seat EXCEPT ![c] = "pipe"] /\ seat[c] = "none"
      /\ UNCHANGED <<room, owner, child_status>>
  BY <1>1, GiveStep DEF CreateWrite, TypeOK, parentVars
<1>3. ASSUME NEW s \in Rooms  PROVE Members(s)' = Members(s)
  BY <1>1, <1>2 DEF Members, TypeOK
<1>4. ASSUME NEW s \in Rooms \ {r}  PROVE Same(s)
  <2>1. toRoom'[s] = toRoom[s]
    BY <1>1, <1>2 DEF TypeOK
  <2>2. Occupied(s)' <=> Occupied(s)
    BY <1>1, <1>2 DEF Occupied, TypeOK
  <2>. QED  BY <1>1, <1>2, <1>3, <2>1, <2>2, CreatingStep DEF Same
<1>5. ~Occupied(r) /\ ~Creating(r) /\ ~Hosting(r)
  BY <1>1, ReadyRoom
<1>6. Creating(r)' /\ ~Hosting(r)'
  <2>1. toRoom'[r] = Append(toRoom[r], <<"C", c>>)
    BY <1>1, <1>2 DEF TypeOK
  <2>. QED  BY <1>1, <1>2, <1>5, <2>1, CreatingStep DEF Hosting
<1>7. RoomPhase(r) = "ready" /\ RoomPhase(r)' = "reserved"
  BY <1>2, <1>5, <1>6, PhaseOf, PhaseAfter DEF PhaseTold
<1>8. [q \in Rooms |-> RoomPhase(q)]'
        = [[q \in Rooms |-> RoomPhase(q)] EXCEPT ![r] = "reserved"]
  BY <1>2, <1>4, <1>7, OneRoom
<1>. QED  BY <1>2, <1>3, <1>7, <1>8 DEF Lifecycle!Reserve

\* A guest's descriptor on its way changes nothing.
LEMMA JoinLife ==
  ASSUME LifeInv, LifeInv', NEW c \in Conns, JoinWrite(c)
  PROVE  UNCHANGED Lifecycle!vars
<1>1. TypeOK /\ SeatInv
  BY DEF LifeInv, PoolInv
<1>2. /\ pc[c] = "join_write" /\ pc' = [pc EXCEPT ![c] = "join_reply"]
      /\ toRoom' = [toRoom EXCEPT ![room[c]] = Append(@, <<"J", c>>)]
      /\ seat' = [seat EXCEPT ![c] = "pipe"] /\ seat[c] = "none"
      /\ UNCHANGED <<room, owner, child_status>>
  BY <1>1, GiveStep DEF JoinWrite, TypeOK, parentVars
<1>3. ASSUME NEW s \in Rooms
      PROVE  Members(s)' = Members(s) /\ (Creating(s)' <=> Creating(s))
  <2>1. Members(s)' = Members(s)
    BY <1>1, <1>2 DEF Members, TypeOK
  <2>2. toRoom'[s] = toRoom[s] \/ toRoom'[s] = Append(toRoom[s], <<"J", c>>)
    BY <1>1, <1>2 DEF TypeOK
  <2>. QED  BY <1>1, <2>1, <2>2, CreatingStep
<1>4. ASSUME NEW s \in Rooms  PROVE Occupied(s)' <=> Occupied(s)
  BY <1>1, <1>2 DEF Occupied, TypeOK
<1>. QED  BY <1>2, <1>3, <1>4, NoRoom

\* A worker's bookkeeping moves the mark of an occupied room, not its phase.
LEMMA CountLife ==
  ASSUME LifeInv, LifeInv', NEW c \in Conns, CreateOccupy(c) \/ CreateDone(c) \/ JoinReply(c)
  PROVE  UNCHANGED Lifecycle!vars
<1>1. TypeOK
  BY DEF LifeInv, PoolInv
<1>2. UNCHANGED <<room, seat, toRoom, owner>>
  BY <1>1, OtherStep
<1>3. ASSUME NEW s \in Rooms
      PROVE  Members(s)' = Members(s) /\ (Creating(s)' <=> Creating(s))
  BY <1>1, <1>2, CreatingStep DEF Members
<1>4. ASSUME NEW s \in Rooms  PROVE Occupied(s)' <=> Occupied(s)
  <2>1. CASE CreateOccupy(c)
    <3>1. /\ pc[c] = "create_occupy" /\ pc'[c] = "create_done" /\ room' = room
          /\ \A d \in Conns \ {c} : pc'[d] = pc[d]
          /\ child_status'[room[c]] = 1
          /\ \A q \in Rooms \ {room[c]} : child_status'[q] = child_status[q]
      BY <1>1, <2>1 DEF CreateOccupy, TypeOK
    <3>2. CASE room[c] = s
      BY <3>1, <3>2 DEF Occupied
    <3>3. CASE room[c] # s
      BY <3>1, <3>3 DEF Occupied
    <3>. QED  BY <3>2, <3>3
  <2>2. CASE CreateDone(c) \/ JoinReply(c)
    <3>1. /\ pc[c] # "create_occupy" /\ pc'[c] # "create_occupy"
          /\ UNCHANGED <<room, child_status>>
          /\ \A d \in Conns \ {c} : pc'[d] = pc[d]
      BY <1>1, <2>2 DEF CreateDone, JoinReply, TypeOK
    <3>. QED  BY <3>1 DEF Occupied
  <2>. QED  BY <2>1, <2>2
<1>. QED  BY <1>2, <1>3, <1>4, NoRoom

\* The room takes the owner's descriptor: the meeting opens.
LEMMA OpenLife ==
  ASSUME LifeInv, LifeInv', NEW r \in Rooms, RoomCreate(r)
  PROVE  Lifecycle!Open(r)
<1>1. TypeOK /\ SeatInv /\ PipeInv /\ TraceInv /\ MemberInv
  BY DEF LifeInv, PoolInv
<1>2. PICK c \in Conns :
        /\ toRoom[r] # <<>> /\ Head(toRoom[r])[2] = c /\ seat[c] = "pipe" /\ room[c] = r
        /\ \A d \in Conns \ {c} : seat'[d] = seat[d]
        /\ toRoom' = [toRoom EXCEPT ![r] = Tail(@)]
        /\ UNCHANGED <<pc, room, parentVars>>
  BY <1>1, TakeStep
<1>3. /\ Head(toRoom[r])[1] = "C" /\ owner' = [owner EXCEPT ![r] = c] /\ owner'[r] = c
      /\ seat'[c] = "room" /\ toRoom'[r] = Tail(toRoom[r])
  BY <1>1, <1>2 DEF RoomCreate, TypeOK
<1>4. Creating(r)
  BY <1>1, <1>2, <1>3, HeadTrace
<1>5. ~Hosting(r) /\ Members(r) = {}
  BY <1>1, <1>4 DEF TraceInv, RoomInv, MemberInv, Held
<1>6. Members(r)' = {c}
  BY <1>2, <1>3, <1>5 DEF Members
<1>7. \A s \in Rooms : c \notin Members(s)
  BY <1>2 DEF Members
<1>8. ASSUME NEW s \in Rooms \ {r}  PROVE Same(s)
  <2>1. Members(s)' = Members(s)
    BY <1>2 DEF Members
  <2>2. toRoom'[s] = toRoom[s] /\ owner'[s] = owner[s]
    BY <1>1, <1>2, <1>3 DEF TypeOK
  <2>. QED  BY <1>1, <1>2, <2>1, <2>2, CreatingStep DEF Same, Occupied, parentVars
<1>9. RoomPhase(r) = "reserved" /\ RoomPhase(r)' = "meeting"
  BY <1>3, <1>4, <1>5, PhaseOf, PhaseAfter, PoolAssumption DEF PhaseTold, Hosting
<1>10. /\ [q \in Rooms |-> RoomPhase(q)]'
            = [[q \in Rooms |-> RoomPhase(q)] EXCEPT ![r] = "meeting"]
       /\ [q \in Rooms |-> Members(q)]'
            = [[q \in Rooms |-> Members(q)] EXCEPT ![r] = {c}]
  BY <1>6, <1>8, <1>9, OneRoom
<1>. QED  BY <1>3, <1>7, <1>9, <1>10 DEF Lifecycle!Open

\* The room takes a guest's descriptor: into the meeting, or nowhere.
LEMMA AdmitLife ==
  ASSUME LifeInv, LifeInv', Faults = {}, NEW r \in Rooms, RoomJoin(r)
  PROVE  Lifecycle!Admit(r) \/ UNCHANGED Lifecycle!vars
<1>1. TypeOK /\ SeatInv /\ PipeInv /\ TraceInv /\ OpenInv /\ dead = {}
  BY DEF LifeInv, PoolInv, AliveInv
<1>2. PICK c \in Conns :
        /\ toRoom[r] # <<>> /\ Head(toRoom[r])[2] = c /\ seat[c] = "pipe" /\ room[c] = r
        /\ \A d \in Conns \ {c} : seat'[d] = seat[d]
        /\ toRoom' = [toRoom EXCEPT ![r] = Tail(@)]
        /\ UNCHANGED <<pc, room, parentVars>>
  BY <1>1, TakeStep
<1>3. /\ Head(toRoom[r])[1] = "J" /\ owner' = owner /\ toRoom'[r] = Tail(toRoom[r])
      /\ seat'[c] = IF roomstatus[r] = "CLOSE" THEN "left" ELSE "room"
  BY <1>1, <1>2 DEF RoomJoin, TypeOK
<1>4. ASSUME NEW s \in Rooms
      PROVE  (Creating(s)' <=> Creating(s)) /\ (Occupied(s)' <=> Occupied(s))
  <2>1. toRoom'[s] = toRoom[s] \/ s = r
    BY <1>1, <1>2 DEF TypeOK
  <2>2. Creating(s)' <=> Creating(s)
    BY <1>1, <1>2, <1>3, <2>1, CreatingStep
  <2>. QED  BY <1>2, <2>2 DEF Occupied, parentVars
<1>5. ASSUME NEW s \in Rooms \ {r}  PROVE Members(s)' = Members(s)
  BY <1>2 DEF Members
<1>6. CASE roomstatus[r] = "CLOSE"
  <2>1. Members(r)' = Members(r)
    BY <1>2, <1>3, <1>6 DEF Members
  <2>. QED  BY <1>3, <1>4, <1>5, <2>1, NoRoom
<1>7. CASE roomstatus[r] = "ON"
  <2>1. Hosting(r)
    BY <1>1, <1>2, <1>3, <1>7 DEF OpenInv, Open
  <2>2. RoomPhase(r) = "meeting" /\ RoomPhase(r)' = "meeting"
    BY <1>3, <2>1, PhaseOf, PhaseAfter DEF PhaseTold, Hosting
  <2>3. Members(r)' = Members(r) \cup {c}
    BY <1>2, <1>3, <1>7 DEF Members
  <2>4. \A s \in Rooms : c \notin Members(s)
    BY <1>2 DEF Members
  <2>5. \A s \in Rooms : RoomPhase(s)' = RoomPhase(s)
    BY <1>3, <1>4, PhaseFrame DEF Hosting
  <2>6. [q \in Rooms |-> Members(q)]'
          = [[q \in Rooms |-> Members(q)] EXCEPT ![r] = @ \cup {c}]
    BY <1>5, <2>3
  <2>. QED  BY <1>3, <2>2, <2>4, <2>5, <2>6 DEF Lifecycle!Admit
<1>. QED  BY <1>1, <1>6, <1>7 DEF TypeOK

\* fdclose of a guest: he leaves the meeting.
LEMMA LeaveLife ==
  ASSUME LifeInv, LifeInv', Faults = {}, NEW r \in Rooms, NEW c \in Conns, MemberLeaves(r, c)
  PROVE  Lifecycle!Leave(r)
<1>1. TypeOK /\ MemberInv
  BY DEF LifeInv, PoolInv
<1>2. /\ c \in Members(r) \ {owner[r]} /\ seat' = [seat EXCEPT ![c] = "left"]
      /\ UNCHANGED <<pc, room, owner, toRoom, child_status>>
  BY DEF MemberLeaves, parentVars
<1>3. Hosting(r)
  BY <1>1, <1>2 DEF MemberInv
<1>4. Members(r)' = Members(r) \ {c} /\ \A s \in Rooms \ {r} : Members(s)' = Members(s)
  BY <1>1, <1>2 DEF Members, TypeOK
<1>5. \A s \in Rooms : RoomPhase(s)' = RoomPhase(s)
  BY <1>1, <1>2, CreatingStep, PhaseFrame DEF Hosting, Occupied
<1>6. RoomPhase(r) = "meeting"
  BY <1>3, PhaseOf DEF PhaseTold
<1>7. [q \in Rooms |-> Members(q)]' = [[q \in Rooms |-> Members(q)] EXCEPT ![r] = @ \ {c}]
  BY <1>4
<1>. QED  BY <1>2, <1>5, <1>6, <1>7 DEF Lifecycle!Leave

\* fdclose of the owner: the meeting is over and everybody out.
LEMMA EndLife ==
  ASSUME LifeInv, LifeInv', NEW r \in Rooms, OwnerLeaves(r)
  PROVE  Lifecycle!End(r)
<1>1. TypeOK /\ TraceInv
  BY DEF LifeInv, PoolInv
<1>2. /\ owner[r] \in Members(r) /\ owner' = [owner EXCEPT ![r] = NoConn] /\ owner'[r] = NoConn
      /\ \A c \in Conns : seat'[c] = IF c \in Members(r) THEN "left" ELSE seat[c]
      /\ UNCHANGED <<pc, room, toRoom, child_status>>
  BY <1>1 DEF OwnerLeaves, TypeOK, parentVars
<1>3. Hosting(r) /\ ~Creating(r) /\ Occupied(r)
  BY <1>1, <1>2, PoolAssumption DEF TraceInv, RoomInv, Hosting, Members
<1>4. Members(r)' = {} /\ \A s \in Rooms \ {r} : Members(s)' = Members(s)
  BY <1>2 DEF Members
<1>5. \A s \in Rooms : (Creating(s)' <=> Creating(s)) /\ (Occupied(s)' <=> Occupied(s))
  BY <1>1, <1>2, CreatingStep DEF Occupied
<1>6. \A s \in Rooms \ {r} : Same(s)
  BY <1>1, <1>2, <1>4, <1>5 DEF Same, TypeOK
<1>7. RoomPhase(r) = "meeting" /\ RoomPhase(r)' = "over"
  BY <1>2, <1>3, <1>5, PhaseOf, PhaseAfter DEF PhaseTold, Hosting
<1>8. /\ [q \in Rooms |-> RoomPhase(q)]'
           = [[q \in Rooms |-> RoomPhase(q)] EXCEPT ![r] = "over"]
      /\ [q \in Rooms |-> Members(q)]' = [[q \in Rooms |-> Members(q)] EXCEPT ![r] = {}]
  BY <1>4, <1>6, <1>7, OneRoom
<1>. QED  BY <1>2, <1>7, <1>8 DEF Lifecycle!End

\* main hears the 'E': the room is ready again.
LEMMA RecycleLife ==
  ASSUME LifeInv, LifeInv', RoomEmpty
  PROVE  \E r \in Rooms : Lifecycle!Recycle(r)
<1>1. TypeOK /\ TraceInv /\ LockInv
  BY DEF LifeInv, PoolInv
<1>2. PICK r \in Rooms : heard = <<r, "E">>
  BY <1>1 DEF RoomEmpty, TypeOK
<1>3. /\ child_status' = [child_status EXCEPT ![r] = 0] /\ lock = NoConn
      /\ UNCHANGED <<pc, room, toRoom, owner, seat>>
  BY <1>2 DEF RoomEmpty, workerVars, roomVars
<1>4. ~Hosting(r) /\ ~Creating(r) /\ Occupied(r)
  BY <1>1, <1>2 DEF TraceInv, RoomInv, Told
<1>5. \A c \in Conns : pc[c] # "create_occupy"
  BY <1>1, <1>3, PoolAssumption DEF LockInv, Locked
<1>6. \A s \in Rooms : Members(s)' = Members(s) /\ (Creating(s)' <=> Creating(s))
  BY <1>1, <1>3, CreatingStep DEF Members
<1>7. ~Occupied(r)' /\ \A s \in Rooms \ {r} : Occupied(s)' <=> Occupied(s)
  BY <1>1, <1>3, <1>5 DEF Occupied, TypeOK
<1>8. \A s \in Rooms \ {r} : Same(s)
  BY <1>3, <1>6, <1>7 DEF Same
<1>9. RoomPhase(r) = "over" /\ RoomPhase(r)' = "ready"
  BY <1>3, <1>4, <1>6, <1>7, PhaseOf, PhaseAfter DEF PhaseTold, Hosting
<1>10. [q \in Rooms |-> RoomPhase(q)]'
         = [[q \in Rooms |-> RoomPhase(q)] EXCEPT ![r] = "ready"]
  BY <1>8, <1>9, OneRoom
<1>11. Lifecycle!Recycle(r)
  BY <1>3, <1>6, <1>9, <1>10 DEF Lifecycle!Recycle
<1>. QED  BY <1>11

\* Notices on their way, and a member counted off, change no phase.
LEMMA NoticeLife ==
  ASSUME LifeInv, LifeInv',
         (\E r \in Rooms : Notify(r) \/ ReadNotice(r)) \/ PartnerQuit \/ UNCHANGED vars
  PROVE  UNCHANGED Lifecycle!vars
<1>1. TypeOK
  BY DEF LifeInv, PoolInv
<1>2. UNCHANGED <<pc, room, seat, toRoom, owner, child_status>>
  BY DEF Notify, ReadNotice, PartnerQuit, vars, workerVars, parentVars, roomVars
<1>. QED  BY <1>1, <1>2, CreatingStep, NoRoom DEF Members, Occupied

LEMMA LifecycleStep ==
  ASSUME LifeInv, LifeInv', Faults = {}, [Next]_vars
  PROVE  [Lifecycle!Next]_(Lifecycle!vars)
<1>1. ASSUME NEW c \in Conns, CreateWrite(c)  PROVE Lifecycle!Next
  <2>1. room[c] \in Rooms
    BY DEF LifeInv, PoolInv, TypeOK
  <2>. QED  BY <1>1, <2>1, CreateLife DEF Lifecycle!Next
<1>2. ASSUME NEW r \in Rooms, \/ RoomCreate(r) \/ (\E c \in Conns : MemberLeaves(r, c))
                              \/ OwnerLeaves(r)
      PROVE  Lifecycle!Next
  BY <1>2, OpenLife, LeaveLife, EndLife DEF Lifecycle!Next
<1>3. ASSUME NEW r \in Rooms, RoomJoin(r)  PROVE Lifecycle!Next \/ UNCHANGED Lifecycle!vars
  BY <1>3, AdmitLife DEF Lifecycle!Next
<1>4. ASSUME RoomEmpty  PROVE Lifecycle!Next
  BY <1>4, RecycleLife DEF Lifecycle!Next
<1>5. ASSUME NEW r \in Rooms
      PROVE  ~RoomIgnores(r) /\ ~RoomCrash(r) /\ ~ParentQuits(r) /\ ~RoomQuits(r)
  BY DEF RoomIgnores, RoomCrash, ParentQuits, RoomQuits, LifeInv, AliveInv
<1>. QED  BY <1>1, <1>2, <1>3, <1>4, <1>5, StaysLife, JoinLife, CountLife, NoticeLife
          DEF Next, Worker, Stays

\* As long as nothing fails, workers, rooms and main together take only the
\* steps of the life cycle, for any number of connections, rooms and workers: a
\* room is reserved when ready (userdeal.cpp:163-193), lets guests in only during
\* a meeting (room.cpp:474-507), loses all of them with its owner (clear_room,
\* room.cpp:61-78) and is ready again only after that (main.cpp:94).
THEOREM StepsImplementLifecycle ==
  ASSUME Faults = {}
  PROVE  Spec => Lifecycle!SafeSpec
<1>1. Init => Lifecycle!Init
  BY LifecycleInit
<1>2. LifeInv /\ LifeInv' /\ [Next]_vars => [Lifecycle!Next]_(Lifecycle!vars)
  BY LifecycleStep
<1>. QED  BY <1>1, <1>2, LifeInductive, PTL DEF Spec, Lifecycle!SafeSpec

=============================================================================
