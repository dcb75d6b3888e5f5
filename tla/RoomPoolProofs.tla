-------------------------- MODULE RoomPoolProofs ---------------------------
(***************************************************************************)
(* Theorems about RoomPool, for any connections, rooms, workers and bounds *)
(* that PoolAssumption allows.                                             *)
(***************************************************************************)
EXTENDS RoomPool, FiniteSetTheorems, SequenceTheorems, TLAPS

(* Types *)

\* The three parts of the type invariant: the parent's variables, the workers'
\* and connections', and the rooms'.
ParentTypes ==
    /\ child_status \in [Rooms -> {0, 1}]
    /\ total \in [Rooms -> Int]
    /\ navail \in Int
    /\ lock \in Conns \cup {NoConn}
    /\ heard \in {<<>>} \cup (Rooms \X {"E", "Q"})
    /\ up \in BOOLEAN

WorkerTypes ==
    /\ pc \in [Conns -> Phases]
    /\ room \in [Conns -> Rooms]
    /\ seat \in [Conns -> Seats]
    /\ asked \in [Conns -> Nat]
    /\ creates \in Nat

RoomTypes ==
    /\ toRoom \in [Rooms -> Seq({"C", "J"} \X Conns)]
    /\ toParent \in [Rooms -> Seq({"E", "Q"})]
    /\ owner \in [Rooms -> Conns \cup {NoConn}]
    /\ roomstatus \in [Rooms -> {"ON", "CLOSE"}]
    /\ owed \in [Rooms -> Seq({"E", "Q"})]
    /\ dead \subseteq Rooms
    /\ meeting \in [Rooms -> Nat]

LEMMA TypeParts == TypeOK <=> ParentTypes /\ WorkerTypes /\ RoomTypes
  BY DEF TypeOK, ParentTypes, WorkerTypes, RoomTypes

\* The parent's variables change in the locked sections and in main.
LEMMA ParentTypeStep ==
  ASSUME ParentTypes, WorkerTypes, RoomTypes, [Next]_vars
  PROVE  ParentTypes'
<1>. USE DEF ParentTypes
<1>1. ASSUME UNCHANGED parentVars  PROVE ParentTypes'
  BY <1>1 DEF parentVars
<1>2. ASSUME NEW c \in Conns,
             lock' \in {lock, c, NoConn}, UNCHANGED <<child_status, total, navail, heard, up>>
      PROVE  ParentTypes'
  BY <1>2
<1>3. ASSUME NEW c \in Conns, CreateLock(c)  PROVE ParentTypes'
  BY <1>2, <1>3 DEF CreateLock
<1>4. ASSUME NEW c \in Conns, CreateFails(c)  PROVE ParentTypes'
  BY <1>2, <1>4 DEF CreateFails
<1>5. ASSUME NEW c \in Conns, CreateUnlock(c)  PROVE ParentTypes'
  BY <1>2, <1>5 DEF CreateUnlock
<1>6. ASSUME NEW c \in Conns, JoinLock(c)  PROVE ParentTypes'
  BY <1>2, <1>6 DEF JoinLock
<1>7. ASSUME NEW c \in Conns, JoinFails(c)  PROVE ParentTypes'
  BY <1>2, <1>7 DEF JoinFails
<1>8. ASSUME NEW c \in Conns, CreateOccupy(c)  PROVE ParentTypes'
  BY <1>8 DEF CreateOccupy
<1>9. ASSUME NEW c \in Conns
      PROVE  total[room[c]] + 1 \in Int /\ room[c] \in Rooms
  BY DEF WorkerTypes
<1>10. ASSUME NEW c \in Conns, CreateDone(c)  PROVE ParentTypes'
  BY <1>9, <1>10 DEF CreateDone
<1>11. ASSUME NEW c \in Conns, JoinReply(c)  PROVE ParentTypes'
  BY <1>9, <1>11 DEF JoinReply
<1>12. ASSUME NEW r \in Rooms, ReadNotice(r)  PROVE ParentTypes'
  <2>1. Head(toParent[r]) \in {"E", "Q"}
    BY <1>12, HeadTailProperties DEF ReadNotice, RoomTypes
  <2>. QED  BY <1>12, <2>1 DEF ReadNotice
<1>13. ASSUME heard # <<>>  PROVE heard[1] \in Rooms /\ total[heard[1]] - 1 \in Int
  BY <1>13
<1>14. CASE RoomEmpty
  BY <1>13, <1>14 DEF RoomEmpty
<1>15. CASE PartnerQuit
  BY <1>13, <1>15 DEF PartnerQuit
<1>16. ASSUME NEW r \in Rooms, ParentQuits(r)  PROVE ParentTypes'
  BY <1>16 DEF ParentQuits
<1>. HIDE DEF ParentTypes
<1>. QED
  BY <1>1, <1>3, <1>4, <1>5, <1>6, <1>7, <1>8, <1>10, <1>11, <1>12, <1>14, <1>15, <1>16
     DEF Next, Worker, Accept, Hangup, Unsupported, CreateRequest, JoinRequest, CreateWrite,
         JoinCheck, JoinWrite, RoomCreate, RoomJoin, RoomIgnores, MemberLeaves, OwnerLeaves,
         Notify, RoomCrash, RoomQuits, Die, vars

\* A connection's phase, room and seat change with its worker and with its room.
LEMMA WorkerTypeStep ==
  ASSUME ParentTypes, WorkerTypes, RoomTypes, [Next]_vars
  PROVE  WorkerTypes'
<1>. USE DEF WorkerTypes
<1>1. ASSUME UNCHANGED workerVars  PROVE WorkerTypes'
  BY <1>1 DEF workerVars
<1>2. ASSUME NEW c \in Conns, NEW p \in Phases, NEW s \in Seats,
             pc' \in {pc, [pc EXCEPT ![c] = p]}, seat' \in {seat, [seat EXCEPT ![c] = s]},
             UNCHANGED <<room, asked, creates>>
      PROVE  WorkerTypes'
  BY <1>2
<1>3. ASSUME NEW c \in Conns, BackToLobby(c), UNCHANGED <<seat, creates>>
      PROVE  WorkerTypes'
  <2>1. "lobby" \in Phases /\ 1 \in Rooms
    BY PoolAssumption DEF Phases, Serving, Rooms
  <2>. QED  BY <1>3, <2>1 DEF BackToLobby
<1>4. ASSUME NEW c \in Conns, Accept(c)  PROVE WorkerTypes'
  <2>1. "lobby" \in Phases /\ "none" \in Seats /\ 1 \in Rooms
    BY PoolAssumption DEF Phases, Serving, Seats, Rooms
  <2>. QED  BY <1>4, <2>1 DEF Accept
<1>5. /\ Serving \subseteq Phases /\ {"closed", "handed", "orphan"} \subseteq Phases
      /\ {"create_lock", "create_write", "create_occupy", "create_done", "create_unlock",
          "join_check", "join_lock", "join_write", "join_reply"} \subseteq Serving
      /\ "pipe" \in Seats /\ "room" \in Seats /\ "left" \in Seats /\ "lost" \in Seats
  BY DEF Phases, Serving, Seats
<1>6. ASSUME NEW c \in Conns, Hangup(c)  PROVE WorkerTypes'
  BY <1>5, <1>6 DEF Hangup
<1>7. ASSUME NEW c \in Conns, Unsupported(c)  PROVE WorkerTypes'
  BY <1>5, <1>7 DEF Unsupported
<1>8. ASSUME NEW c \in Conns, CreateRequest(c)  PROVE WorkerTypes'
  <2>1. creates + 1 \in Nat
    OBVIOUS
  <2>. QED  BY <1>5, <1>8, <2>1 DEF CreateRequest
<1>9. ASSUME NEW c \in Conns, NEW r \in Rooms, JoinRequest(c, r)  PROVE WorkerTypes'
  BY <1>5, <1>9 DEF JoinRequest, RoomTypes
<1>10. ASSUME NEW c \in Conns, CreateLock(c)  PROVE WorkerTypes'
  <2>1. ASSUME NEW r \in Free, room' = [room EXCEPT ![c] = r],
               pc' = [pc EXCEPT ![c] = "create_write"], UNCHANGED <<asked, seat, creates>>
        PROVE  WorkerTypes'
    BY <1>5, <2>1 DEF Free
  <2>. QED  BY <1>3, <1>10, <2>1 DEF CreateLock
<1>11. ASSUME NEW c \in Conns, CreateWrite(c)  PROVE WorkerTypes'
  BY <1>5, <1>11 DEF CreateWrite
<1>12. ASSUME NEW c \in Conns, CreateOccupy(c)  PROVE WorkerTypes'
  BY <1>5, <1>12 DEF CreateOccupy
<1>13. ASSUME NEW c \in Conns, CreateDone(c)  PROVE WorkerTypes'
  BY <1>5, <1>13 DEF CreateDone
<1>14. ASSUME NEW c \in Conns, CreateFails(c)  PROVE WorkerTypes'
  BY <1>5, <1>14 DEF CreateFails
<1>15. ASSUME NEW c \in Conns, CreateUnlock(c) \/ JoinFails(c)  PROVE WorkerTypes'
  BY <1>3, <1>15 DEF CreateUnlock, JoinFails
<1>16. ASSUME NEW c \in Conns, JoinCheck(c)  PROVE WorkerTypes'
  <2>1. CASE BackToLobby(c)
    BY <1>3, <1>16, <2>1 DEF JoinCheck
  <2>2. CASE pc' = [pc EXCEPT ![c] = "join_lock"] /\ UNCHANGED <<room, asked>>
    BY <1>5, <1>16, <2>2 DEF JoinCheck
  <2>. QED  BY <1>16, <2>1, <2>2 DEF JoinCheck
<1>17. ASSUME NEW c \in Conns, JoinLock(c)  PROVE WorkerTypes'
  BY <1>5, <1>17 DEF JoinLock
<1>18. ASSUME NEW c \in Conns, JoinWrite(c)  PROVE WorkerTypes'
  BY <1>5, <1>18 DEF JoinWrite
<1>19. ASSUME NEW c \in Conns, JoinReply(c)  PROVE WorkerTypes'
  BY <1>5, <1>19 DEF JoinReply
<1>20. ASSUME NEW r \in Rooms, toRoom[r] # <<>>  PROVE Head(toRoom[r])[2] \in Conns
  <2>1. Head(toRoom[r]) \in {"C", "J"} \X Conns
    BY <1>20, HeadTailProperties DEF RoomTypes
  <2>. QED  BY <2>1
<1>21. ASSUME NEW r \in Rooms, RoomCreate(r)  PROVE WorkerTypes'
  BY <1>5, <1>20, <1>21 DEF RoomCreate
<1>22. ASSUME NEW r \in Rooms, RoomJoin(r)  PROVE WorkerTypes'
  BY <1>5, <1>20, <1>22 DEF RoomJoin
<1>23. ASSUME NEW r \in Rooms, RoomIgnores(r)  PROVE WorkerTypes'
  BY <1>5, <1>20, <1>23 DEF RoomIgnores
<1>24. ASSUME NEW r \in Rooms, NEW c \in Conns, MemberLeaves(r, c)  PROVE WorkerTypes'
  BY <1>5, <1>24 DEF MemberLeaves
<1>25. ASSUME NEW r \in Rooms, OwnerLeaves(r)  PROVE WorkerTypes'
  BY <1>5, <1>25 DEF OwnerLeaves
<1>26. ASSUME NEW r \in Rooms, Die(r)  PROVE WorkerTypes'
  BY <1>5, <1>26 DEF Die
<1>. HIDE DEF WorkerTypes
<1>. QED
  BY <1>1, <1>4, <1>6, <1>7, <1>8, <1>9, <1>10, <1>11, <1>12, <1>13, <1>14, <1>15, <1>16,
     <1>17, <1>18, <1>19, <1>21, <1>22, <1>23, <1>24, <1>25, <1>26
     DEF Next, Worker, Notify, ReadNotice, RoomEmpty, PartnerQuit, RoomCrash, RoomQuits,
         ParentQuits, vars

\* The rooms and their socketpairs.
LEMMA RoomTypeStep ==
  ASSUME ParentTypes, WorkerTypes, RoomTypes, [Next]_vars
  PROVE  RoomTypes'
<1>. USE DEF RoomTypes
<1>1. ASSUME UNCHANGED roomVars  PROVE RoomTypes'
  BY <1>1 DEF roomVars
<1>2. ASSUME NEW c \in Conns, NEW k \in {"C", "J"}
      PROVE  /\ room[c] \in Rooms /\ meeting[room[c]] + 1 \in Nat
             /\ Append(toRoom[room[c]], <<k, c>>) \in Seq({"C", "J"} \X Conns)
  <2>1. room[c] \in Rooms /\ <<k, c>> \in {"C", "J"} \X Conns
    BY DEF WorkerTypes
  <2>2. toRoom[room[c]] \in Seq({"C", "J"} \X Conns) /\ meeting[room[c]] \in Nat
    BY <2>1
  <2>. QED  BY <2>1, <2>2, AppendProperties
<1>3. ASSUME NEW c \in Conns, CreateWrite(c)  PROVE RoomTypes'
  BY <1>2, <1>3 DEF CreateWrite
<1>4. ASSUME NEW c \in Conns, JoinWrite(c)  PROVE RoomTypes'
  BY <1>2, <1>4 DEF JoinWrite
<1>5. ASSUME NEW r \in Rooms, toRoom[r] # <<>>
      PROVE  /\ Head(toRoom[r])[2] \in Conns
             /\ Tail(toRoom[r]) \in Seq({"C", "J"} \X Conns)
  <2>1. Head(toRoom[r]) \in {"C", "J"} \X Conns
    BY <1>5, HeadTailProperties
  <2>2. Tail(toRoom[r]) \in Seq({"C", "J"} \X Conns)
    BY <1>5, HeadTailProperties
  <2>. QED  BY <2>1, <2>2
<1>6. ASSUME NEW r \in Rooms, RoomCreate(r)  PROVE RoomTypes'
  BY <1>5, <1>6 DEF RoomCreate
<1>7. ASSUME NEW r \in Rooms, RoomJoin(r)  PROVE RoomTypes'
  BY <1>5, <1>7 DEF RoomJoin
<1>8. ASSUME NEW r \in Rooms, RoomIgnores(r)  PROVE RoomTypes'
  BY <1>5, <1>8 DEF RoomIgnores
<1>9. ASSUME NEW r \in Rooms, NEW c \in Conns, MemberLeaves(r, c)  PROVE RoomTypes'
  <2>1. <<"Q">> \in Seq({"E", "Q"})
    OBVIOUS
  <2>. QED  BY <1>9, <2>1 DEF MemberLeaves
<1>10. ASSUME NEW r \in Rooms, OwnerLeaves(r)  PROVE RoomTypes'
  <2>1. PICK n \in 0..Cardinality(Members(r)) - 1 :
          owed' = [owed EXCEPT ![r] = <<"E">> \o [i \in 1..n |-> "Q"]]
    BY <1>10 DEF OwnerLeaves
  <2>2. <<"E">> \in Seq({"E", "Q"}) /\ [i \in 1..n |-> "Q"] \in Seq({"E", "Q"})
    <3>1. n \in Nat
      OBVIOUS
    <3>. QED  BY <3>1
  <2>3. <<"E">> \o [i \in 1..n |-> "Q"] \in Seq({"E", "Q"})
    BY <2>2, ConcatProperties
  <2>. QED  BY <1>10, <2>1, <2>3 DEF OwnerLeaves
<1>11. ASSUME NEW r \in Rooms, Notify(r)  PROVE RoomTypes'
  <2>1. Head(owed[r]) \in {"E", "Q"} /\ Tail(owed[r]) \in Seq({"E", "Q"})
    BY <1>11, HeadTailProperties DEF Notify
  <2>2. Append(toParent[r], Head(owed[r])) \in Seq({"E", "Q"})
    BY <2>1, AppendProperties
  <2>. QED  BY <1>11, <2>1, <2>2 DEF Notify
<1>12. ASSUME NEW r \in Rooms, ReadNotice(r)  PROVE RoomTypes'
  <2>1. Tail(toParent[r]) \in Seq({"E", "Q"})
    BY <1>12, HeadTailProperties DEF ReadNotice
  <2>. QED  BY <1>12, <2>1 DEF ReadNotice
<1>13. ASSUME NEW r \in Rooms, Die(r)  PROVE RoomTypes'
  BY <1>13 DEF Die
<1>. HIDE DEF RoomTypes
<1>. QED
  BY <1>1, <1>3, <1>4, <1>6, <1>7, <1>8, <1>9, <1>10, <1>11, <1>12, <1>13
     DEF Next, Worker, Accept, Hangup, Unsupported, CreateRequest, JoinRequest, CreateLock,
         CreateOccupy, CreateDone, CreateFails, CreateUnlock, JoinCheck, JoinLock, JoinReply,
         JoinFails, RoomEmpty, PartnerQuit, RoomCrash, RoomQuits, ParentQuits, vars

\* Whatever the interleaving of workers, rooms and main, and whatever fails,
\* the variables keep their types: in particular a worker's room is one of the
\* rooms, so that no index runs past child_status or total (userdeal.cpp:160).
THEOREM PoolTypeCorrect == Spec => []TypeOK
<1>1. Init => TypeOK
  BY PoolAssumption, EmptySeq DEF Init, TypeOK, Rooms, Phases, Seats
<1>2. TypeOK /\ [Next]_vars => TypeOK'
  <2>1. TypeOK' <=> ParentTypes' /\ WorkerTypes' /\ RoomTypes'
    BY DEF TypeOK, ParentTypes, WorkerTypes, RoomTypes
  <2>. QED  BY <2>1, TypeParts, ParentTypeStep, WorkerTypeStep, RoomTypeStep
<1>. QED  BY <1>1, <1>2, PTL DEF Spec

-----------------------------------------------------------------------------
(* Mutual exclusion and the count of ready rooms *)

\* The places of a worker that holds room->lock, as long as write_fd succeeds.
Locked == {"create_write", "create_occupy", "create_done", "join_write", "join_reply"}

\* room->lock is held by the worker that is in such a place, and by nobody else.
LockInv ==
    \A c \in Conns : /\ pc[c] \in Locked <=> lock = c
                    /\ pc[c] # "create_unlock"

\* As long as sendmsg does not fail, no worker unlocks what it does not hold.
LEMMA LockInit == Init => LockInv
  BY PoolAssumption DEF Init, LockInv, Locked

\* Every step keeps the lock where it belongs.
LEMMA LockStep ==
  ASSUME TypeOK, LockInv, "write_fd" \notin Faults, [Next]_vars
  PROVE  LockInv'
<1>. USE PoolAssumption DEF LockInv, Locked, TypeOK
<1>1. ASSUME NEW c \in Conns, Accept(c)  PROVE LockInv'
  BY <1>1 DEF Accept, parentVars, Serving
<1>2. ASSUME NEW c \in Conns, NEW p \in {"closed", "orphan", "create_lock"},
             pc[c] = "lobby", pc' = [pc EXCEPT ![c] = p], UNCHANGED lock
      PROVE  LockInv'
  BY <1>2
<1>3. ASSUME NEW c \in Conns, NEW r \in Rooms, JoinRequest(c, r)  PROVE LockInv'
  BY <1>3 DEF JoinRequest, parentVars
<1>4. ASSUME NEW c \in Conns, CreateLock(c)  PROVE LockInv'
  <2>1. CASE BackToLobby(c) /\ UNCHANGED lock
    BY <1>4, <2>1 DEF CreateLock, BackToLobby
  <2>2. CASE lock' = c /\ pc' = [pc EXCEPT ![c] = "create_write"]
    BY <1>4, <2>2 DEF CreateLock
  <2>. QED  BY <1>4, <2>1, <2>2 DEF CreateLock
<1>5. ASSUME NEW c \in Conns, CreateWrite(c)  PROVE LockInv'
  BY <1>5 DEF CreateWrite, parentVars
<1>6. ASSUME NEW c \in Conns, CreateOccupy(c)  PROVE LockInv'
  BY <1>6 DEF CreateOccupy
<1>7. ASSUME NEW c \in Conns, CreateDone(c)  PROVE LockInv'
  BY <1>7 DEF CreateDone
<1>8. ASSUME NEW c \in Conns, JoinReply(c)  PROVE LockInv'
  BY <1>8 DEF JoinReply
<1>9. ASSUME NEW c \in Conns, CreateFails(c) \/ CreateUnlock(c) \/ JoinFails(c)
      PROVE  LockInv'
  BY <1>9 DEF CreateFails, CreateUnlock, JoinFails
<1>10. ASSUME NEW c \in Conns, JoinCheck(c)  PROVE LockInv'
  <2>1. /\ \E p \in {"lobby", "join_lock"} : pc' = [pc EXCEPT ![c] = p]
        /\ pc[c] = "join_check" /\ lock' = lock
    BY <1>10 DEF JoinCheck, BackToLobby, parentVars
  <2>. QED  BY <2>1
<1>11. ASSUME NEW c \in Conns, JoinLock(c)  PROVE LockInv'
  BY <1>11 DEF JoinLock
<1>12. ASSUME NEW c \in Conns, JoinWrite(c)  PROVE LockInv'
  BY <1>12 DEF JoinWrite, parentVars
<1>13. ASSUME UNCHANGED <<pc, lock>>  PROVE LockInv'
  BY <1>13
<1>. HIDE DEF LockInv, Locked, TypeOK
<1>. QED
  BY <1>1, <1>2, <1>3, <1>4, <1>5, <1>6, <1>7, <1>8, <1>9, <1>10, <1>11, <1>12, <1>13
     DEF Next, Worker, Hangup, Unsupported, CreateRequest, RoomCreate, RoomJoin, RoomIgnores,
         MemberLeaves, OwnerLeaves, Notify, ReadNotice, RoomEmpty, PartnerQuit, RoomCrash,
         RoomQuits, Die, ParentQuits, vars, parentVars, workerVars

-----------------------------------------------------------------------------
(* Elements of a queue, counted up to one *)

Occurs(s, S)     == \E i \in 1..Len(s) : s[i] \in S
AtMostOnce(s, S) == \A i, j \in 1..Len(s) : s[i] \in S /\ s[j] \in S => i = j

\* An empty queue holds nothing.
LEMMA NoneInEmpty ==
  ASSUME NEW S
  PROVE  ~Occurs(<<>>, S) /\ AtMostOnce(<<>>, S)
  BY DEF Occurs, AtMostOnce

\* Appending something else changes nothing for the elements of S.
LEMMA AppendOther ==
  ASSUME NEW T, NEW s \in Seq(T), NEW e \in T, NEW S, e \notin S
  PROVE  /\ Occurs(Append(s, e), S) <=> Occurs(s, S)
         /\ AtMostOnce(s, S) => AtMostOnce(Append(s, e), S)
<1>1. /\ Len(Append(s, e)) = Len(s) + 1 /\ Len(s) \in Nat
      /\ \A i \in 1..Len(s) : Append(s, e)[i] = s[i]
      /\ Append(s, e)[Len(s) + 1] = e
  BY AppendProperties, LenProperties
<1>2. \A i \in 1..Len(s) + 1 : Append(s, e)[i] \in S => i \in 1..Len(s) /\ s[i] \in S
  BY <1>1
<1>3. 1..Len(s) \subseteq 1..Len(s) + 1
  BY <1>1
<1>. QED  BY <1>1, <1>2, <1>3 DEF Occurs, AtMostOnce

\* Appending the first element of S leaves at most one.
LEMMA AppendOne ==
  ASSUME NEW T, NEW s \in Seq(T), NEW e \in T, NEW S, ~Occurs(s, S)
  PROVE  AtMostOnce(Append(s, e), S)
<1>1. /\ Len(Append(s, e)) = Len(s) + 1 /\ Len(s) \in Nat
      /\ \A i \in 1..Len(s) : Append(s, e)[i] = s[i]
  BY AppendProperties, LenProperties
<1>2. \A i \in 1..Len(s) + 1 : Append(s, e)[i] \in S => i = Len(s) + 1
  BY <1>1 DEF Occurs
<1>. QED  BY <1>1, <1>2 DEF AtMostOnce

\* Removing the head leaves at most one, and none if the head was the one.
LEMMA RemoveHead ==
  ASSUME NEW T, NEW s \in Seq(T), s # <<>>, NEW S, AtMostOnce(s, S)
  PROVE  /\ AtMostOnce(Tail(s), S)
         /\ Occurs(Tail(s), S) => Occurs(s, S)
         /\ Head(s) \in S => Occurs(s, S) /\ ~Occurs(Tail(s), S)
<1>1. /\ Len(s) \in Nat /\ Len(s) >= 1 /\ Len(Tail(s)) = Len(s) - 1
      /\ Head(s) = s[1]
      /\ \A i \in 1..Len(Tail(s)) : Tail(s)[i] = s[i + 1]
  BY HeadTailProperties, LenProperties, EmptySeq
<1>2. \A i \in 1..Len(Tail(s)) : i + 1 \in 1..Len(s) /\ i + 1 # 1
  BY <1>1
<1>3. Occurs(Tail(s), S) => Occurs(s, S)
  BY <1>1, <1>2 DEF Occurs
<1>4. AtMostOnce(Tail(s), S)
  <2>. SUFFICES ASSUME NEW i \in 1..Len(Tail(s)), NEW j \in 1..Len(Tail(s)),
                       Tail(s)[i] \in S, Tail(s)[j] \in S
                PROVE  i = j
    BY DEF AtMostOnce
  <2>1. s[i + 1] \in S /\ s[j + 1] \in S
    BY <1>1
  <2>2. i + 1 = j + 1
    BY <1>2, <2>1 DEF AtMostOnce
  <2>. QED  BY <2>2
<1>5. ASSUME Head(s) \in S  PROVE Occurs(s, S) /\ ~Occurs(Tail(s), S)
  <2>1. 1 \in 1..Len(s) /\ s[1] \in S
    BY <1>1, <1>5
  <2>2. ASSUME NEW i \in 1..Len(Tail(s)), Tail(s)[i] \in S  PROVE FALSE
    BY <1>1, <1>2, <2>1, <2>2 DEF AtMostOnce
  <2>. QED  BY <2>1, <2>2 DEF Occurs
<1>. QED  BY <1>3, <1>4, <1>5

\* An 'E' with any number of 'Q' after it is one 'E'.
LEMMA EndThenQuits ==
  ASSUME NEW n \in Nat
  PROVE  AtMostOnce(<<"E">> \o [i \in 1..n |-> "Q"], {"E"})
<1>1. PICK q : q = [i \in 1..n |-> "Q"]
  OBVIOUS
<1>2. q \in Seq({"E", "Q"}) /\ Len(q) = n /\ \A i \in 1..n : q[i] # "E"
  BY <1>1
<1>3. PICK e : e = <<"E">>
  OBVIOUS
<1>4. e \in Seq({"E", "Q"}) /\ Len(e) = 1
  BY <1>3
<1>5. PICK z : z = e \o q
  OBVIOUS
<1>6. /\ Len(z) = Len(e) + Len(q)
      /\ \A i \in 1..Len(e) + Len(q) :
           z[i] = IF i <= Len(e) THEN e[i] ELSE q[i - Len(e)]
  BY <1>2, <1>4, <1>5, ConcatProperties
<1>7. Len(z) = n + 1 /\ \A i \in 1..n + 1 : i # 1 => z[i] = q[i - 1]
  BY <1>2, <1>4, <1>6
<1>8. \A i \in 1..n + 1 : z[i] = "E" => i = 1
  BY <1>2, <1>7
<1>9. AtMostOnce(z, {"E"})
  BY <1>7, <1>8 DEF AtMostOnce
<1>. QED  BY <1>1, <1>3, <1>5, <1>9

-----------------------------------------------------------------------------
(* One meeting per room *)

\* The traces a meeting leaves on its way through room r: the CREATE_MEETING
\* descriptor in the socketpair, the owner, the 'E' the room has yet to write,
\* the 'E' in the socketpair, and the 'E' main has read.
Creations   == {"C"} \X Conns
Creating(r) == Occurs(toRoom[r], Creations)
Hosting(r)  == owner[r] # NoConn
Ending(r)   == Occurs(owed[r], {"E"})
Telling(r)  == Occurs(toParent[r], {"E"})
Told(r)     == heard = <<r, "E">>

\* The parent has given the room away: it says so, or is about to.
Occupied(r) ==
    \/ child_status[r] = 1
    \/ \E c \in Conns : room[c] = r /\ pc[c] = "create_occupy"

\* There is one trace at most, and none in a room that is not given away.
RoomInv(r) ==
    /\ AtMostOnce(toRoom[r], Creations)
    /\ AtMostOnce(owed[r], {"E"})
    /\ AtMostOnce(toParent[r], {"E"})
    /\ Creating(r) => ~Hosting(r) /\ ~Ending(r) /\ ~Telling(r) /\ ~Told(r)
    /\ Hosting(r) => ~Ending(r) /\ ~Telling(r) /\ ~Told(r)
    /\ Ending(r) => ~Telling(r) /\ ~Told(r)
    /\ Telling(r) => ~Told(r)
    /\ Creating(r) \/ Hosting(r) \/ Ending(r) \/ Telling(r) \/ Told(r) => Occupied(r)

TraceInv == \A r \in Rooms : RoomInv(r)

\* A worker that has chosen a room and not marked it yet has chosen a ready one.
ChoiceInv ==
    \A c \in Conns : pc[c] \in {"create_write", "create_occupy"} => child_status[room[c]] = 0

\* At first no room holds a trace, and no worker has chosen a room.
LEMMA TraceInit == Init => TraceInv /\ ChoiceInv
<1>. SUFFICES ASSUME Init  PROVE TraceInv /\ ChoiceInv
  OBVIOUS
<1>1. ChoiceInv
  BY DEF Init, ChoiceInv
<1>2. ASSUME NEW r \in Rooms  PROVE RoomInv(r)
  <2>1. toRoom[r] = <<>> /\ owed[r] = <<>> /\ toParent[r] = <<>> /\ owner[r] = NoConn
    BY DEF Init
  <2>2. ~Told(r)
    BY DEF Init, Told
  <2>. QED  BY <2>1, <2>2, NoneInEmpty DEF RoomInv, Creating, Hosting, Ending, Telling
<1>. QED  BY <1>1, <1>2 DEF TraceInv

\* Only the holder of the lock marks a room, so a choice stays good.
LEMMA ChoiceStep ==
  ASSUME TypeOK, LockInv, ChoiceInv, "write_fd" \notin Faults, [Next]_vars
  PROVE  ChoiceInv'
<1>. SUFFICES ASSUME NEW d \in Conns, pc'[d] \in {"create_write", "create_occupy"}
              PROVE  child_status'[room'[d]] = 0
  BY DEF ChoiceInv
<1>. USE DEF ChoiceInv, TypeOK
<1>1. ASSUME NEW c \in Conns, Accept(c)  PROVE child_status'[room'[d]] = 0
  BY <1>1 DEF Accept, parentVars
<1>2. ASSUME NEW c \in Conns, Hangup(c) \/ Unsupported(c) \/ CreateRequest(c)
      PROVE  child_status'[room'[d]] = 0
  BY <1>2 DEF Hangup, Unsupported, CreateRequest, parentVars
<1>3. ASSUME NEW c \in Conns, NEW r \in Rooms, JoinRequest(c, r)
      PROVE  child_status'[room'[d]] = 0
  BY <1>3 DEF JoinRequest, parentVars
<1>4. ASSUME NEW c \in Conns, BackToLobby(c), child_status' = child_status
      PROVE  child_status'[room'[d]] = 0
  BY <1>4 DEF BackToLobby
<1>5. ASSUME NEW c \in Conns, CreateLock(c)  PROVE child_status'[room'[d]] = 0
  <2>1. CASE BackToLobby(c)
    BY <1>4, <1>5, <2>1 DEF CreateLock
  <2>2. ASSUME NEW r \in Free, room' = [room EXCEPT ![c] = r],
               pc' = [pc EXCEPT ![c] = "create_write"]
        PROVE  child_status'[room'[d]] = 0
    BY <1>5, <2>2 DEF CreateLock, Free
  <2>. QED  BY <1>5, <2>1, <2>2 DEF CreateLock
<1>6. ASSUME NEW c \in Conns, CreateWrite(c)  PROVE child_status'[room'[d]] = 0
  BY <1>6 DEF CreateWrite, parentVars
<1>7. ASSUME NEW c \in Conns, CreateOccupy(c)  PROVE child_status'[room'[d]] = 0
  <2>1. d # c /\ pc[d] \in Locked /\ pc[c] \in Locked
    BY <1>7 DEF CreateOccupy, Locked
  <2>. QED  BY <2>1 DEF LockInv
<1>8. ASSUME NEW c \in Conns, CreateDone(c)  PROVE child_status'[room'[d]] = 0
  BY <1>8 DEF CreateDone
<1>9. ASSUME NEW c \in Conns, CreateUnlock(c) \/ JoinFails(c)
      PROVE  child_status'[room'[d]] = 0
  BY <1>4, <1>9 DEF CreateUnlock, JoinFails
<1>10. ASSUME NEW c \in Conns, CreateFails(c)  PROVE child_status'[room'[d]] = 0
  BY <1>10 DEF CreateFails
<1>11. ASSUME NEW c \in Conns, JoinCheck(c)  PROVE child_status'[room'[d]] = 0
  <2>1. CASE BackToLobby(c)
    BY <1>4, <1>11, <2>1 DEF JoinCheck, parentVars
  <2>2. CASE pc' = [pc EXCEPT ![c] = "join_lock"] /\ room' = room
    BY <1>11, <2>2 DEF JoinCheck, parentVars
  <2>. QED  BY <1>11, <2>1, <2>2 DEF JoinCheck
<1>12. ASSUME NEW c \in Conns, JoinLock(c)  PROVE child_status'[room'[d]] = 0
  BY <1>12 DEF JoinLock
<1>13. ASSUME NEW c \in Conns, JoinWrite(c)  PROVE child_status'[room'[d]] = 0
  BY <1>13 DEF JoinWrite, parentVars
<1>14. ASSUME NEW c \in Conns, JoinReply(c)  PROVE child_status'[room'[d]] = 0
  BY <1>14 DEF JoinReply
<1>15. ASSUME RoomEmpty  PROVE child_status'[room'[d]] = 0
  BY <1>15 DEF RoomEmpty, workerVars
<1>16. ASSUME UNCHANGED <<pc, room, child_status>>  PROVE child_status'[room'[d]] = 0
  BY <1>16
<1>. HIDE DEF ChoiceInv, TypeOK
<1>. QED
  BY <1>1, <1>2, <1>3, <1>5, <1>6, <1>7, <1>8, <1>9, <1>10, <1>11, <1>12, <1>13, <1>14,
     <1>15, <1>16
     DEF Next, Worker, RoomCreate, RoomJoin, RoomIgnores, MemberLeaves, OwnerLeaves, Notify,
         ReadNotice, PartnerQuit, RoomCrash, RoomQuits, Die, ParentQuits,
         vars, parentVars, workerVars

\* A step that touches neither the socketpairs nor the owners keeps the traces.
LEMMA TraceFrame ==
  ASSUME TraceInv, UNCHANGED <<toRoom, owed, toParent, heard, owner>>,
         \A r \in Rooms : Occupied(r) => Occupied(r)'
  PROVE  TraceInv'
<1>. SUFFICES ASSUME NEW r \in Rooms  PROVE RoomInv(r)'
  BY DEF TraceInv, Rooms
<1>. QED  BY DEF TraceInv, RoomInv, Creating, Hosting, Ending, Telling, Told, Creations

\* What a worker does outside CreateOccupy does not free a room.
LEMMA OccupiedFrame ==
  ASSUME NEW c \in Conns, pc[c] # "create_occupy", child_status' = child_status,
         \A d \in Conns \ {c} : pc'[d] = pc[d] /\ room'[d] = room[d]
  PROVE  \A r \in Rooms : Occupied(r) => Occupied(r)'
  BY DEF Occupied

\* What a worker does: only CreateWrite starts a trace, in a ready room.
LEMMA WorkerTraceStep ==
  ASSUME TypeOK, LockInv, TraceInv, ChoiceInv, "write_fd" \notin Faults,
         NEW c \in Conns,
         \/ Accept(c) \/ Hangup(c) \/ Unsupported(c) \/ CreateRequest(c) \/ Worker(c)
         \/ \E r \in Rooms : JoinRequest(c, r)
  PROVE  TraceInv'
<1>1. CASE CreateOccupy(c)
  <2>1. \A r \in Rooms : Occupied(r) => Occupied(r)'
    <3>1. room[c] \in Rooms /\ child_status' = [child_status EXCEPT ![room[c]] = 1]
      BY <1>1 DEF CreateOccupy, TypeOK
    <3>2. /\ \A d \in Conns \ {c} : pc'[d] = pc[d] /\ room'[d] = room[d]
          /\ child_status'[room[c]] = 1
          /\ \A r \in Rooms \ {room[c]} : child_status'[r] = child_status[r]
      BY <1>1, <3>1 DEF CreateOccupy, TypeOK
    <3>. QED  BY <3>2 DEF Occupied
  <2>2. UNCHANGED <<toRoom, owed, toParent, heard, owner>>
    BY <1>1 DEF CreateOccupy, roomVars
  <2>. QED  BY <2>1, <2>2, TraceFrame
<1>2. CASE CreateWrite(c)
  <2>. PICK r0 \in Rooms : r0 = room[c]
    BY DEF TypeOK
  <2>1. /\ r0 \in Rooms /\ child_status[r0] = 0 /\ lock = c
    BY <1>2 DEF CreateWrite, TypeOK, ChoiceInv, LockInv, Locked
  <2>2. \A d \in Conns : pc[d] # "create_occupy"
    BY <1>2, <2>1 DEF CreateWrite, LockInv, Locked
  <2>3. /\ AtMostOnce(toRoom[r0], Creations) /\ AtMostOnce(owed[r0], {"E"})
        /\ AtMostOnce(toParent[r0], {"E"})
        /\ ~Creating(r0) /\ ~Hosting(r0) /\ ~Ending(r0) /\ ~Telling(r0) /\ ~Told(r0)
    BY <2>1, <2>2 DEF TraceInv, RoomInv, Occupied
  <2>4. /\ toRoom' = [toRoom EXCEPT ![r0] = Append(toRoom[r0], <<"C", c>>)]
        /\ pc' = [pc EXCEPT ![c] = "create_occupy"] /\ room' = room
        /\ UNCHANGED <<child_status, owed, toParent, heard, owner>>
    BY <1>2 DEF CreateWrite, parentVars
  <2>5. AtMostOnce(toRoom'[r0], Creations)
    <3>1. /\ toRoom[r0] \in Seq({"C", "J"} \X Conns) /\ <<"C", c>> \in {"C", "J"} \X Conns
          /\ toRoom'[r0] = Append(toRoom[r0], <<"C", c>>)
      BY <2>1, <2>4 DEF TypeOK
    <3>2. ~Occurs(toRoom[r0], Creations)
      BY <2>3 DEF Creating
    <3>. QED  BY <3>1, <3>2, AppendOne
  <2>6. Occupied(r0)'
    BY <2>4 DEF Occupied, TypeOK
  <2>7. RoomInv(r0)'
    BY <2>3, <2>4, <2>5, <2>6 DEF RoomInv, Hosting, Ending, Telling, Told, Creations
  <2>8. ASSUME NEW r \in Rooms, r # r0  PROVE RoomInv(r)'
    <3>1. toRoom'[r] = toRoom[r]
      BY <2>1, <2>4, <2>8 DEF TypeOK
    <3>2. Occupied(r) => Occupied(r)'
      BY <2>2, <2>4 DEF Occupied
    <3>. QED
      BY <2>4, <3>1, <3>2 DEF TraceInv, RoomInv, Creating, Hosting, Ending, Telling, Told,
         Creations
  <2>. QED  BY <2>7, <2>8 DEF TraceInv, Rooms
<1>3. CASE JoinWrite(c)
  <2>. PICK r0 \in Rooms : r0 = room[c]
    BY DEF TypeOK
  <2>1. /\ r0 \in Rooms
        /\ toRoom' = [toRoom EXCEPT ![r0] = Append(toRoom[r0], <<"J", c>>)]
        /\ UNCHANGED <<child_status, owed, toParent, heard, owner>>
    BY <1>3 DEF JoinWrite, parentVars, TypeOK
  <2>2. \A r \in Rooms : Occupied(r) => Occupied(r)'
    <3>1. /\ pc[c] # "create_occupy"
          /\ \A d \in Conns \ {c} : pc'[d] = pc[d] /\ room'[d] = room[d]
      BY <1>3 DEF JoinWrite, TypeOK
    <3>. QED  BY <2>1, <3>1, OccupiedFrame
  <2>3. ASSUME NEW r \in Rooms
        PROVE  /\ Occurs(toRoom'[r], Creations) <=> Occurs(toRoom[r], Creations)
               /\ AtMostOnce(toRoom[r], Creations) => AtMostOnce(toRoom'[r], Creations)
    <3>1. CASE r = r0
      <4>1. /\ toRoom[r] \in Seq({"C", "J"} \X Conns) /\ <<"J", c>> \in {"C", "J"} \X Conns
            /\ toRoom'[r] = Append(toRoom[r], <<"J", c>>)
        BY <2>1, <3>1 DEF TypeOK
      <4>2. <<"J", c>> \notin Creations
        BY DEF Creations
      <4>. QED  BY <4>1, <4>2, AppendOther
    <3>2. CASE r # r0
      BY <2>1, <3>2 DEF TypeOK
    <3>. QED  BY <3>1, <3>2
  <2>4. ASSUME NEW r \in Rooms  PROVE RoomInv(r)'
    BY <2>1, <2>2, <2>3 DEF TraceInv, RoomInv, Creating, Hosting, Ending, Telling, Told,
       Creations
  <2>. QED  BY <2>4 DEF TraceInv, Rooms
<1>4. CASE /\ ~CreateOccupy(c) /\ ~CreateWrite(c) /\ ~JoinWrite(c)
  <2>1. /\ pc[c] # "create_occupy"
        /\ UNCHANGED <<toRoom, owed, toParent, heard, owner, child_status>>
    BY <1>4 DEF Worker, Accept, Hangup, Unsupported, CreateRequest, CreateLock, CreateDone,
       CreateFails, CreateUnlock, JoinRequest, JoinCheck, JoinLock, JoinReply, JoinFails,
       parentVars, roomVars
  <2>2. \A d \in Conns \ {c} : pc'[d] = pc[d] /\ room'[d] = room[d]
    BY <1>4 DEF Worker, Accept, Hangup, Unsupported, CreateRequest, CreateLock, CreateDone,
       CreateFails, CreateUnlock, JoinRequest, JoinCheck, JoinLock, JoinReply, JoinFails,
       BackToLobby, TypeOK
  <2>. QED  BY <2>1, <2>2, OccupiedFrame, TraceFrame
<1>. QED  BY <1>1, <1>2, <1>3, <1>4

\* A room whose queues stay and which is not given up keeps its traces.
LEMMA RoomFrame ==
  ASSUME NEW r \in Rooms, RoomInv(r),
         toRoom'[r] = toRoom[r], owed'[r] = owed[r], toParent'[r] = toParent[r],
         Hosting(r)' => Hosting(r), Told(r)' => Told(r), Occupied(r) => Occupied(r)'
  PROVE  RoomInv(r)'
  BY DEF RoomInv, Creating, Hosting, Ending, Telling, Told, Creations

\* What a room process does: each notice or owner stands for the trace before.
LEMMA RoomTraceStep ==
  ASSUME TypeOK, TraceInv, NEW r \in Rooms,
         \/ RoomCreate(r) \/ RoomJoin(r) \/ RoomIgnores(r)
         \/ \E c \in Conns : MemberLeaves(r, c)
         \/ OwnerLeaves(r) \/ Notify(r) \/ Die(r)
  PROVE  TraceInv'
<1>1. UNCHANGED <<pc, room, child_status, heard>>
  BY DEF RoomCreate, RoomJoin, RoomIgnores, MemberLeaves, OwnerLeaves, Notify, Die,
     workerVars, parentVars
<1>2. \A s \in Rooms : (Occupied(s) <=> Occupied(s)') /\ (Told(s) <=> Told(s)')
  BY <1>1 DEF Occupied, Told
<1>3. RoomInv(r)
  BY DEF TraceInv
<1>4. ASSUME NEW s \in Rooms, s # r  PROVE RoomInv(s)'
  <2>1. toRoom'[s] = toRoom[s] /\ owed'[s] = owed[s] /\ toParent'[s] = toParent[s]
    BY <1>4 DEF RoomCreate, RoomJoin, RoomIgnores, MemberLeaves, OwnerLeaves, Notify, Die,
       TypeOK
  <2>2. owner'[s] = owner[s]
    BY <1>4 DEF RoomCreate, RoomJoin, RoomIgnores, MemberLeaves, OwnerLeaves, Notify, Die,
       TypeOK
  <2>3. RoomInv(s) /\ (Hosting(s)' => Hosting(s))
    BY <2>2 DEF TraceInv, Hosting
  <2>. QED  BY <1>2, <2>1, <2>3, RoomFrame
<1>5. ASSUME toRoom[r] # <<>>, toRoom' = [toRoom EXCEPT ![r] = Tail(@)]
      PROVE  /\ toRoom[r] # <<>> /\ toRoom'[r] = Tail(toRoom[r])
             /\ AtMostOnce(toRoom'[r], Creations)
             /\ Occurs(toRoom'[r], Creations) => Creating(r)
             /\ Head(toRoom[r]) \in Creations =>
                  Creating(r) /\ ~Occurs(toRoom'[r], Creations)
  <2>1. toRoom'[r] = Tail(toRoom[r]) /\ toRoom[r] \in Seq({"C", "J"} \X Conns)
    BY <1>5 DEF TypeOK
  <2>2. AtMostOnce(toRoom[r], Creations)
    BY <1>3 DEF RoomInv
  <2>. QED  BY <1>5, <2>1, <2>2, RemoveHead DEF Creating
<1>6. CASE RoomCreate(r)
  <2>1. /\ toRoom[r] # <<>> /\ Head(toRoom[r])[1] = "C"
        /\ toRoom' = [toRoom EXCEPT ![r] = Tail(@)]
        /\ owed' = owed /\ toParent' = toParent
    BY <1>6 DEF RoomCreate
  <2>2. Head(toRoom[r]) \in {"C", "J"} \X Conns
    BY <2>1, HeadTailProperties DEF TypeOK
  <2>3. Head(toRoom[r]) \in Creations
    BY <2>1, <2>2 DEF Creations
  <2>. QED
    <3>1. AtMostOnce(toRoom'[r], Creations) /\ Creating(r) /\ ~Occurs(toRoom'[r], Creations)
      BY <1>5, <2>1, <2>3
    <3>2. RoomInv(r)'
      BY <1>2, <1>3, <2>1, <3>1 DEF RoomInv, Creating, Hosting, Ending, Telling, Creations
    <3>. QED  BY <1>4, <3>2 DEF TraceInv, Rooms
<1>7. CASE RoomJoin(r) \/ RoomIgnores(r)
  <2>1. /\ toRoom[r] # <<>> /\ toRoom' = [toRoom EXCEPT ![r] = Tail(@)]
        /\ owed' = owed /\ toParent' = toParent /\ owner' = owner
    BY <1>7 DEF RoomJoin, RoomIgnores
  <2>2. AtMostOnce(toRoom'[r], Creations) /\ (Occurs(toRoom'[r], Creations) => Creating(r))
    BY <1>5, <2>1
  <2>3. RoomInv(r)'
    BY <1>2, <1>3, <2>1, <2>2 DEF RoomInv, Creating, Hosting, Ending, Telling, Creations
  <2>. QED  BY <1>4, <2>3 DEF TraceInv, Rooms
<1>8. CASE \E c \in Conns : MemberLeaves(r, c)
  <2>1. /\ owed'[r] = <<"Q">> /\ toRoom' = toRoom /\ toParent' = toParent /\ owner' = owner
    BY <1>8 DEF MemberLeaves, TypeOK
  <2>2. AtMostOnce(owed'[r], {"E"}) /\ ~Occurs(owed'[r], {"E"})
    BY <2>1 DEF AtMostOnce, Occurs
  <2>3. RoomInv(r)'
    BY <1>2, <1>3, <2>1, <2>2 DEF RoomInv, Creating, Hosting, Ending, Telling, Creations
  <2>. QED  BY <1>4, <2>3 DEF TraceInv, Rooms
<1>9. CASE OwnerLeaves(r)
  <2>1. PICK n \in 0..Cardinality(Members(r)) - 1 :
          owed' = [owed EXCEPT ![r] = <<"E">> \o [i \in 1..n |-> "Q"]]
    BY <1>9 DEF OwnerLeaves
  <2>2. AtMostOnce(owed'[r], {"E"})
    <3>1. n \in Nat
      OBVIOUS
    <3>2. owed \in [Rooms -> Seq({"E", "Q"})]
      BY DEF TypeOK
    <3>3. owed'[r] = <<"E">> \o [i \in 1..n |-> "Q"]
      BY <2>1, <3>2
    <3>. QED  BY <3>1, <3>3, EndThenQuits
  <2>3. Hosting(r) /\ owner'[r] = NoConn /\ toRoom' = toRoom /\ toParent' = toParent
    BY <1>9, PoolAssumption DEF OwnerLeaves, Hosting, Members, TypeOK
  <2>4. RoomInv(r)'
    BY <1>2, <1>3, <2>2, <2>3 DEF RoomInv, Creating, Hosting, Ending, Telling, Creations
  <2>. QED  BY <1>4, <2>4 DEF TraceInv, Rooms
<1>10. CASE Notify(r)
  <2>1. /\ owed[r] # <<>> /\ owed'[r] = Tail(owed[r])
        /\ toParent'[r] = Append(toParent[r], Head(owed[r]))
        /\ toRoom' = toRoom /\ owner' = owner
        /\ owed[r] \in Seq({"E", "Q"}) /\ toParent[r] \in Seq({"E", "Q"})
    BY <1>10 DEF Notify, workerVars, TypeOK
  <2>2. Head(owed[r]) \in {"E", "Q"}
    BY <2>1, HeadTailProperties
  <2>3. /\ AtMostOnce(owed[r], {"E"}) /\ AtMostOnce(toParent[r], {"E"})
        /\ Ending(r) => ~Occurs(toParent[r], {"E"})
    BY <1>3 DEF RoomInv, Telling
  <2>4. /\ AtMostOnce(owed'[r], {"E"})
        /\ Occurs(owed'[r], {"E"}) => Ending(r)
        /\ Head(owed[r]) = "E" => Ending(r) /\ ~Occurs(owed'[r], {"E"})
    BY <2>1, <2>3, RemoveHead DEF Ending
  <2>5. CASE Head(owed[r]) = "E"
    <3>1. AtMostOnce(toParent'[r], {"E"})
      BY <2>1, <2>2, <2>3, <2>4, <2>5, AppendOne
    <3>2. RoomInv(r)'
      BY <1>2, <1>3, <2>1, <2>4, <2>5, <3>1
         DEF RoomInv, Creating, Hosting, Ending, Telling, Creations
    <3>. QED  BY <1>4, <3>2 DEF TraceInv, Rooms
  <2>6. CASE Head(owed[r]) # "E"
    <3>1. Head(owed[r]) \notin {"E"}
      BY <2>6
    <3>2. /\ AtMostOnce(toParent'[r], {"E"})
          /\ Occurs(toParent'[r], {"E"}) <=> Occurs(toParent[r], {"E"})
      BY <2>1, <2>2, <2>3, <3>1, AppendOther
    <3>3. RoomInv(r)'
      BY <1>2, <1>3, <2>1, <2>4, <3>2
         DEF RoomInv, Creating, Hosting, Ending, Telling, Creations
    <3>. QED  BY <1>4, <3>3 DEF TraceInv, Rooms
  <2>. QED  BY <2>5, <2>6
<1>11. CASE Die(r)
  <2>1. /\ toRoom' = toRoom /\ owed' = owed /\ toParent' = toParent /\ ~Hosting(r)'
    BY <1>11 DEF Die, Hosting, TypeOK
  <2>2. RoomInv(r)'
    BY <1>2, <1>3, <2>1, RoomFrame
  <2>. QED  BY <1>4, <2>2 DEF TraceInv, Rooms
<1>. QED  BY <1>6, <1>7, <1>8, <1>9, <1>10, <1>11

\* What main does: the 'E' it reads is the last trace, and then it is gone.
LEMMA MainTraceStep ==
  ASSUME TypeOK, TraceInv,
         (\E r \in Rooms : ReadNotice(r)) \/ RoomEmpty \/ PartnerQuit
  PROVE  TraceInv'
<1>1. UNCHANGED <<pc, room, toRoom, owed, owner>>
  BY DEF ReadNotice, RoomEmpty, PartnerQuit, workerVars, roomVars
<1>2. ASSUME NEW r \in Rooms, ReadNotice(r)  PROVE TraceInv'
  <2>1. /\ heard = <<>> /\ heard' = <<r, Head(toParent[r])>> /\ child_status' = child_status
        /\ toParent[r] # <<>> /\ toParent' = [toParent EXCEPT ![r] = Tail(@)]
    BY <1>2 DEF ReadNotice
  <2>2. \A s \in Rooms : RoomInv(s) /\ ~Told(s) /\ (Occupied(s) <=> Occupied(s)')
    BY <1>1, <2>1 DEF TraceInv, Told, Occupied
  <2>3. /\ AtMostOnce(toParent'[r], {"E"})
        /\ Occurs(toParent'[r], {"E"}) => Telling(r)
        /\ Told(r)' => Telling(r) /\ ~Occurs(toParent'[r], {"E"})
    <3>1. toParent'[r] = Tail(toParent[r]) /\ toParent[r] \in Seq({"E", "Q"})
      BY <2>1 DEF TypeOK
    <3>2. AtMostOnce(toParent[r], {"E"})
      BY <2>2 DEF RoomInv
    <3>3. Told(r)' => Head(toParent[r]) \in {"E"}
      BY <2>1 DEF Told
    <3>. QED  BY <2>1, <3>1, <3>2, <3>3, RemoveHead DEF Telling
  <2>4. RoomInv(r)'
    BY <1>1, <2>2, <2>3 DEF RoomInv, Creating, Hosting, Ending, Telling, Creations
  <2>5. ASSUME NEW s \in Rooms, s # r  PROVE RoomInv(s)'
    <3>1. toParent'[s] = toParent[s] /\ ~Told(s)'
      BY <2>1, <2>5 DEF Told, TypeOK
    <3>2. Hosting(s)' => Hosting(s)
      BY <1>1 DEF Hosting
    <3>. QED  BY <1>1, <2>2, <3>1, <3>2, RoomFrame
  <2>. QED  BY <2>4, <2>5 DEF TraceInv, Rooms
<1>3. CASE RoomEmpty
  <2>1. PICK r \in Rooms : heard = <<r, "E">>
    BY <1>3 DEF RoomEmpty, TypeOK
  <2>2. /\ child_status' = [child_status EXCEPT ![r] = 0]
        /\ heard' = <<>> /\ toParent' = toParent
    BY <1>3, <2>1 DEF RoomEmpty, roomVars
  <2>3. RoomInv(r)'
    <3>1. RoomInv(r) /\ Told(r) /\ ~Told(r)'
      BY <2>1, <2>2 DEF TraceInv, Told
    <3>. QED
      BY <1>1, <2>2, <3>1 DEF RoomInv, Creating, Hosting, Ending, Telling, Creations
  <2>4. ASSUME NEW s \in Rooms, s # r  PROVE RoomInv(s)'
    <3>1. RoomInv(s) /\ ~Told(s)' /\ (Occupied(s) => Occupied(s)')
      BY <1>1, <2>2, <2>4 DEF TraceInv, Told, Occupied, TypeOK
    <3>2. Hosting(s)' => Hosting(s)
      BY <1>1 DEF Hosting
    <3>. QED  BY <1>1, <2>2, <3>1, <3>2, RoomFrame
  <2>. QED  BY <2>3, <2>4 DEF TraceInv, Rooms
<1>4. CASE PartnerQuit
  <2>1. heard' = <<>> /\ toParent' = toParent /\ child_status' = child_status
    BY <1>4 DEF PartnerQuit, roomVars
  <2>2. ASSUME NEW s \in Rooms  PROVE RoomInv(s)'
    <3>1. RoomInv(s) /\ ~Told(s)' /\ (Occupied(s) => Occupied(s)')
      BY <1>1, <2>1 DEF TraceInv, Told, Occupied
    <3>2. Hosting(s)' => Hosting(s)
      BY <1>1 DEF Hosting
    <3>. QED  BY <1>1, <2>1, <3>1, <3>2, RoomFrame
  <2>. QED  BY <2>2 DEF TraceInv, Rooms
<1>. QED  BY <1>2, <1>3, <1>4

\* Every step keeps at most one trace per room.
LEMMA TraceStep ==
  ASSUME TypeOK, LockInv, TraceInv, ChoiceInv, "write_fd" \notin Faults, [Next]_vars
  PROVE  TraceInv'
<1>1. ASSUME NEW r \in Rooms, ParentQuits(r)  PROVE TraceInv'
  <2>1. UNCHANGED <<pc, room, child_status, heard, toRoom, owed, toParent, owner>>
    BY <1>1 DEF ParentQuits, workerVars, roomVars
  <2>2. \A s \in Rooms : Occupied(s) => Occupied(s)'
    BY <2>1 DEF Occupied
  <2>. QED  BY <2>1, <2>2, TraceFrame
<1>2. CASE UNCHANGED vars
  <2>1. UNCHANGED <<pc, room, child_status, heard, toRoom, owed, toParent, owner>>
    BY <1>2 DEF vars, parentVars, workerVars, roomVars
  <2>2. \A s \in Rooms : Occupied(s) => Occupied(s)'
    BY <2>1 DEF Occupied
  <2>. QED  BY <2>1, <2>2, TraceFrame
<1>3. ASSUME NEW r \in Rooms, RoomCrash(r) \/ RoomQuits(r)  PROVE TraceInv'
  BY <1>3, RoomTraceStep DEF RoomCrash, RoomQuits
<1>. QED  BY <1>1, <1>2, <1>3, WorkerTraceStep, RoomTraceStep, MainTraceStep DEF Next

-----------------------------------------------------------------------------
(* The count of ready rooms *)

\* navail is the number of ready rooms, but for the room a worker has marked
\* and not yet taken off the count.
NavInv == navail = Cardinality(Free) + (IF \E c \in Conns : pc[c] = "create_done" THEN 1 ELSE 0)

\* The ready rooms can be counted.
LEMMA FreeIsFinite == TypeOK => IsFiniteSet(Free) /\ Cardinality(Free) \in Nat
<1>1. IsFiniteSet(Rooms)
  BY PoolAssumption, FS_Interval DEF Rooms
<1>2. Free \subseteq Rooms
  BY DEF Free
<1>. QED  BY <1>1, <1>2, FS_Subset, FS_CardinalityType

\* At first every room is ready.
LEMMA NavInit == Init => NavInv
<1>. SUFFICES ASSUME Init  PROVE NavInv
  OBVIOUS
<1>1. Free = 1..NRooms
  BY DEF Init, Free, Rooms
<1>2. Cardinality(1..NRooms) = NRooms
  BY PoolAssumption, FS_Interval
<1>. QED  BY <1>1, <1>2, PoolAssumption DEF Init, NavInv

\* A step that neither marks a room nor counts one keeps the count.
LEMMA NavFrame ==
  ASSUME NavInv, UNCHANGED <<child_status, navail>>,
         \A c \in Conns : pc'[c] = "create_done" <=> pc[c] = "create_done"
  PROVE  NavInv'
<1>1. Free' = Free
  BY DEF Free, Rooms
<1>. QED  BY <1>1 DEF NavInv

\* Every step keeps the count.
LEMMA NavStep ==
  ASSUME TypeOK, LockInv, TraceInv, ChoiceInv, NavInv, "write_fd" \notin Faults, [Next]_vars
  PROVE  NavInv'
<1>1. ASSUME NEW c \in Conns, CreateOccupy(c)  PROVE NavInv'
  <2>1. /\ room[c] \in Free /\ lock = c
        /\ \A d \in Conns : pc[d] # "create_done"
    BY <1>1 DEF CreateOccupy, ChoiceInv, LockInv, Locked, Free, TypeOK
  <2>2. Free' = Free \ {room[c]}
    BY <1>1 DEF CreateOccupy, Free, Rooms, TypeOK
  <2>3. Cardinality(Free') = Cardinality(Free) - 1
    BY <2>1, <2>2, FreeIsFinite, FS_RemoveElement
  <2>4. pc'[c] = "create_done" /\ navail' = navail
    BY <1>1 DEF CreateOccupy, TypeOK
  <2>. QED  BY <2>1, <2>3, <2>4, FreeIsFinite DEF NavInv
<1>2. ASSUME NEW c \in Conns, CreateDone(c)  PROVE NavInv'
  <2>1. Free' = Free
    BY <1>2 DEF CreateDone, Free, Rooms
  <2>2. pc[c] = "create_done" /\ navail' = navail - 1
    BY <1>2 DEF CreateDone
  <2>3. \A d \in Conns : pc'[d] # "create_done"
    BY <1>2 DEF CreateDone, LockInv, Locked, TypeOK
  <2>. QED  BY <2>1, <2>2, <2>3, FreeIsFinite DEF NavInv
<1>3. ASSUME RoomEmpty  PROVE NavInv'
  <2>1. PICK r \in Rooms : heard = <<r, "E">>
    BY <1>3 DEF RoomEmpty, TypeOK
  <2>2. \A c \in Conns : pc[c] \notin {"create_occupy", "create_done"}
    BY <1>3, PoolAssumption DEF RoomEmpty, LockInv, Locked
  <2>3. r \notin Free
    <3>1. Occupied(r)
      BY <2>1 DEF TraceInv, RoomInv, Told
    <3>. QED  BY <2>2, <3>1 DEF Occupied, Free
  <2>4. Free' = Free \cup {r}
    BY <1>3, <2>1 DEF RoomEmpty, Free, Rooms, TypeOK
  <2>5. Cardinality(Free') = Cardinality(Free) + 1
    BY <2>3, <2>4, FreeIsFinite, FS_AddElement
  <2>6. navail' = navail + 1 /\ pc' = pc
    BY <1>3 DEF RoomEmpty, workerVars
  <2>. QED  BY <2>2, <2>5, <2>6, FreeIsFinite DEF NavInv
<1>4. ASSUME NEW c \in Conns,
             \/ Accept(c) \/ Hangup(c) \/ Unsupported(c) \/ CreateRequest(c)
             \/ \E r \in Rooms : JoinRequest(c, r)
             \/ CreateLock(c) \/ CreateWrite(c) \/ CreateFails(c) \/ CreateUnlock(c)
             \/ JoinCheck(c) \/ JoinLock(c) \/ JoinWrite(c) \/ JoinReply(c) \/ JoinFails(c)
      PROVE  NavInv'
  <2>1. UNCHANGED <<child_status, navail>>
    BY <1>4 DEF Accept, Hangup, Unsupported, CreateRequest, CreateLock, CreateWrite,
       CreateFails, CreateUnlock, JoinRequest, JoinCheck, JoinLock, JoinWrite, JoinReply,
       JoinFails, parentVars
  <2>2. \A d \in Conns : pc'[d] = "create_done" <=> pc[d] = "create_done"
    BY <1>4 DEF Accept, Hangup, Unsupported, CreateRequest, CreateLock, CreateWrite,
       CreateFails, CreateUnlock, JoinRequest, JoinCheck, JoinLock, JoinWrite, JoinReply,
       JoinFails, BackToLobby, Serving, TypeOK
  <2>. QED  BY <2>1, <2>2, NavFrame
<1>5. ASSUME UNCHANGED <<pc, child_status, navail>>  PROVE NavInv'
  BY <1>5, NavFrame
<1>. HIDE DEF NavInv
<1>. QED
  BY <1>1, <1>2, <1>3, <1>4, <1>5
     DEF Next, Worker, RoomCreate, RoomJoin, RoomIgnores, MemberLeaves, OwnerLeaves, Notify,
         ReadNotice, PartnerQuit, RoomCrash, RoomQuits, Die, ParentQuits,
         vars, parentVars, workerVars

-----------------------------------------------------------------------------
(* The results *)

PoolInv == TypeOK /\ LockInv /\ TraceInv /\ ChoiceInv /\ NavInv

\* The inductive invariant holds as long as sendmsg does not fail.
LEMMA PoolInductive ==
  ASSUME "write_fd" \notin Faults
  PROVE  Spec => []PoolInv
<1>1. Init => LockInv /\ TraceInv /\ ChoiceInv /\ NavInv
  BY LockInit, TraceInit, NavInit
<1>2. TypeOK /\ (LockInv /\ TraceInv /\ ChoiceInv /\ NavInv) /\ [Next]_vars
        => (LockInv /\ TraceInv /\ ChoiceInv /\ NavInv)'
  BY LockStep, TraceStep, ChoiceStep, NavStep
<1>3. TypeOK /\ (LockInv /\ TraceInv /\ ChoiceInv /\ NavInv) <=> PoolInv
  BY DEF PoolInv
<1>. QED  BY <1>1, <1>2, <1>3, PoolTypeCorrect, PTL DEF Spec

\* As long as sendmsg does not fail, CREATE_MEETING and the 'E' notices keep
\* navail right: whenever room->lock is free it is the number of ready rooms
\* (userdeal.cpp:191-193, main.cpp:94-96), for any number of rooms, workers and
\* connections, and even if rooms or the parent die.
THEOREM NavailCorrect ==
  ASSUME "write_fd" \notin Faults
  PROVE  Spec => []NavailCountsFreeRooms
<1>1. PoolInv => NavailCountsFreeRooms
  BY PoolAssumption, FreeIsFinite
     DEF PoolInv, LockInv, Locked, NavInv, NavailCountsFreeRooms
<1>. QED  BY <1>1, PoolInductive, PTL

\* As long as sendmsg does not fail, a room process is never given a second
\* owner (userdeal.cpp:160-198, room.cpp:182-212).
THEOREM OneMeeting ==
  ASSUME "write_fd" \notin Faults
  PROVE  Spec => []OneMeetingPerRoom
<1>1. ASSUME PoolInv, NEW r \in Rooms
      PROVE  Cardinality(Queued(r, "C")) + (IF owner[r] # NoConn THEN 1 ELSE 0) <= 1
  <2>1. /\ AtMostOnce(toRoom[r], Creations)
        /\ Creating(r) => owner[r] = NoConn
    BY <1>1 DEF PoolInv, TraceInv, RoomInv, Hosting
  <2>2. ASSUME NEW c \in Queued(r, "C")
        PROVE  Creating(r) /\ \E i \in 1..Len(toRoom[r]) : toRoom[r][i] = <<"C", c>>
    <3>1. PICK i \in 1..Len(toRoom[r]) : toRoom[r][i] = <<"C", c>>
      BY DEF Queued
    <3>2. <<"C", c>> \in Creations
      BY DEF Queued, Waiting, Creations
    <3>. QED  BY <3>1, <3>2 DEF Creating, Occurs
  <2>3. \A c, d \in Queued(r, "C") : c = d
    <3>. SUFFICES ASSUME NEW c \in Queued(r, "C"), NEW d \in Queued(r, "C")
                  PROVE  c = d
      OBVIOUS
    <3>1. PICK i \in 1..Len(toRoom[r]) : toRoom[r][i] = <<"C", c>>
      BY <2>2
    <3>2. PICK j \in 1..Len(toRoom[r]) : toRoom[r][j] = <<"C", d>>
      BY <2>2
    <3>3. <<"C", c>> \in Creations /\ <<"C", d>> \in Creations
      BY DEF Creations, Queued, Waiting
    <3>4. i = j
      BY <2>1, <3>1, <3>2, <3>3 DEF AtMostOnce
    <3>. QED  BY <3>1, <3>2, <3>4
  <2>4. CASE Queued(r, "C") = {}
    BY <2>4, FS_EmptySet
  <2>5. CASE Queued(r, "C") # {}
    <3>1. PICK c \in Queued(r, "C") : TRUE
      BY <2>5
    <3>2. Queued(r, "C") = {c}
      BY <2>3, <3>1
    <3>3. Cardinality(Queued(r, "C")) = 1
      BY <3>2, FS_Singleton
    <3>4. owner[r] = NoConn
      BY <2>1, <2>2, <3>1
    <3>. QED  BY <3>3, <3>4
  <2>. QED  BY <2>4, <2>5
<1>2. PoolInv => OneMeetingPerRoom
  BY <1>1 DEF OneMeetingPerRoom
<1>. QED  BY <1>2, PoolInductive, PTL

=============================================================================
