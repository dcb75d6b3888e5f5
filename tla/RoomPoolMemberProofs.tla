------------------------ MODULE RoomPoolMemberProofs ------------------------
(***************************************************************************)
(* Theorems about the members of the rooms of RoomPool: the parent's total *)
(* against the members a room has, the limit of JOIN_MEETING against the   *)
(* workers that pass its test together, and who is in a ready room.        *)
(***************************************************************************)
EXTENDS RoomPoolProofs, FunctionTheorems

(* Sequences and sets *)

\* What is where in a sequence that lost its head.
LEMMA TailAt ==
  ASSUME NEW T, NEW s \in Seq(T), s # <<>>
  PROVE  /\ Len(s) \in Nat /\ 1 \in 1..Len(s) /\ Head(s) = s[1] /\ Head(s) \in T
         /\ Tail(s) \in Seq(T) /\ Len(Tail(s)) = Len(s) - 1
         /\ \A i \in 1..Len(Tail(s)) : Tail(s)[i] = s[i + 1] /\ i + 1 \in 1..Len(s)
         /\ \A i \in 1..Len(s) : i # 1 => i - 1 \in 1..Len(Tail(s)) /\ s[i] = Tail(s)[i - 1]
<1>1. /\ Len(s) \in Nat /\ Len(s) >= 1 /\ Len(Tail(s)) = Len(s) - 1
      /\ Head(s) = s[1] /\ Head(s) \in T /\ Tail(s) \in Seq(T)
      /\ \A i \in 1..Len(Tail(s)) : Tail(s)[i] = s[i + 1]
  BY HeadTailProperties, LenProperties, EmptySeq
<1>2. \A i \in 1..Len(s) : i # 1 => i - 1 \in 1..Len(Tail(s)) /\ (i - 1) + 1 = i
  BY <1>1
<1>. QED  BY <1>1, <1>2

\* What is where in a sequence that gained an element.
LEMMA AppendAt ==
  ASSUME NEW T, NEW s \in Seq(T), NEW e \in T
  PROVE  /\ Len(s) \in Nat /\ Len(Append(s, e)) = Len(s) + 1
         /\ \A i \in 1..Len(s) : Append(s, e)[i] = s[i] /\ i \in 1..Len(s) + 1
         /\ Append(s, e)[Len(s) + 1] = e
         /\ \A i \in 1..Len(s) + 1 : i = Len(s) + 1 \/ i \in 1..Len(s)
  BY AppendProperties, LenProperties

\* Appending leaves the head, if there is one.
LEMMA AppendHead ==
  ASSUME NEW T, NEW s \in Seq(T), NEW e \in T
  PROVE  /\ Append(s, e) # <<>>
         /\ s # <<>> => Head(Append(s, e)) = Head(s)
         /\ s = <<>> => Head(Append(s, e)) = e
<1>1. Append(s, e) \in Seq(T) /\ Len(Append(s, e)) = Len(s) + 1 /\ Len(s) \in Nat
  OBVIOUS
<1>2. Append(s, e) # <<>> /\ Head(Append(s, e)) = Append(s, e)[1]
  BY <1>1
<1>3. s # <<>> => Len(s) > 0 /\ Head(s) = s[1]
  BY <1>1
<1>. QED  BY <1>1, <1>2, <1>3, AppendAt

\* The 'Q' notices in a sequence.
Quits(s) == Cardinality({i \in 1..Len(s) : s[i] = "Q"})

\* They can be counted.
LEMMA QuitsType ==
  ASSUME NEW s \in Seq({"E", "Q"})
  PROVE  IsFiniteSet({i \in 1..Len(s) : s[i] = "Q"}) /\ Quits(s) \in Nat
<1>1. IsFiniteSet(1..Len(s))
  BY LenProperties, FS_Interval
<1>2. {i \in 1..Len(s) : s[i] = "Q"} \in SUBSET (1..Len(s))
  OBVIOUS
<1>. QED  BY <1>1, <1>2, FS_Subset, FS_CardinalityType DEF Quits

\* A notice at the end counts as one more if it is a 'Q'.
LEMMA QuitsAppend ==
  ASSUME NEW s \in Seq({"E", "Q"}), NEW e \in {"E", "Q"}
  PROVE  Quits(Append(s, e)) = Quits(s) + (IF e = "Q" THEN 1 ELSE 0)
<1>. DEFINE A == {i \in 1..Len(s) : s[i] = "Q"}
            B == {i \in 1..Len(Append(s, e)) : Append(s, e)[i] = "Q"}
<1>1. /\ Len(s) \in Nat /\ Len(Append(s, e)) = Len(s) + 1
      /\ \A i \in 1..Len(s) : Append(s, e)[i] = s[i] /\ i \in 1..Len(s) + 1
      /\ Append(s, e)[Len(s) + 1] = e
      /\ \A i \in 1..Len(s) + 1 : i = Len(s) + 1 \/ i \in 1..Len(s)
  BY AppendAt
<1>2. B = IF e = "Q" THEN A \cup {Len(s) + 1} ELSE A
  BY <1>1
<1>3. Len(s) + 1 \notin A
  BY <1>1
<1>4. IsFiniteSet(A) /\ Cardinality(A) \in Nat
  BY QuitsType DEF Quits
<1>5. Cardinality(A \cup {Len(s) + 1}) = Cardinality(A) + 1
  BY <1>3, <1>4, FS_AddElement
<1>6. Quits(s) = Cardinality(A) /\ Quits(Append(s, e)) = Cardinality(B)
  BY DEF Quits
<1>. HIDE DEF A, B
<1>. QED  BY <1>2, <1>4, <1>5, <1>6

\* Taking the head off takes it off the count if it is a 'Q'.
LEMMA QuitsTail ==
  ASSUME NEW s \in Seq({"E", "Q"}), s # <<>>
  PROVE  Quits(s) = Quits(Tail(s)) + (IF Head(s) = "Q" THEN 1 ELSE 0)
<1>. DEFINE A == {i \in 1..Len(s) : s[i] = "Q"}
            B == {i \in 1..Len(Tail(s)) : Tail(s)[i] = "Q"}
            f == [i \in B |-> i + 1]
<1>1. /\ Len(s) \in Nat /\ 1 \in 1..Len(s) /\ Head(s) = s[1] /\ Tail(s) \in Seq({"E", "Q"})
      /\ \A i \in 1..Len(Tail(s)) : Tail(s)[i] = s[i + 1] /\ i + 1 \in 1..Len(s)
      /\ \A i \in 1..Len(s) : i # 1 => i - 1 \in 1..Len(Tail(s)) /\ s[i] = Tail(s)[i - 1]
  BY TailAt
<1>2. IsFiniteSet(A) /\ IsFiniteSet(B) /\ Cardinality(A) \in Nat /\ Cardinality(B) \in Nat
  BY <1>1, QuitsType DEF Quits
<1>3. f \in Bijection(B, A \ {1})
  <2>1. \A i \in B : i \in Int /\ i >= 1 /\ i + 1 \in A \ {1}
    BY <1>1
  <2>2. \A i \in A \ {1} : i - 1 \in B /\ (i - 1) + 1 = i
    BY <1>1
  <2>3. f \in [B -> A \ {1}]
    BY <2>1
  <2>4. \A i, j \in B : f[i] = f[j] => i = j
    BY <2>1
  <2>5. \A j \in A \ {1} : \E i \in B : f[i] = j
    BY <2>2
  <2>. HIDE DEF f
  <2>. QED  BY <2>3, <2>4, <2>5, Fun_IsBij
<1>4. Cardinality(A \ {1}) = Cardinality(B)
  <2>1. ExistsBijection(B, A \ {1})
    BY <1>3 DEF ExistsBijection
  <2>. HIDE DEF A, B, f
  <2>. QED  BY <1>2, <2>1, FS_Bijection
<1>5. Cardinality(A \ {1}) = IF 1 \in A THEN Cardinality(A) - 1 ELSE Cardinality(A)
  BY <1>2, FS_RemoveElement
<1>6. 1 \in A <=> Head(s) = "Q"
  BY <1>1
<1>7. Quits(s) = Cardinality(A) /\ Quits(Tail(s)) = Cardinality(B)
  BY DEF Quits
<1>. HIDE DEF A, B, f
<1>. QED  BY <1>2, <1>4, <1>5, <1>6, <1>7

\* No notice, one 'Q', and an 'E' with n times 'Q' after it.
LEMMA QuitsOwed ==
  /\ Quits(<<>>) = 0 /\ Quits(<<"Q">>) = 1
  /\ \A n \in Nat : Quits(<<"E">> \o [i \in 1..n |-> "Q"]) = n
<1>1. Quits(<<>>) = 0
  <2>1. Len(<<>>) = 0
    OBVIOUS
  <2>2. {i \in 1..Len(<<>>) : <<>>[i] = "Q"} = {}
    BY <2>1
  <2>. QED  BY <2>2, FS_EmptySet DEF Quits
<1>2. Quits(<<"Q">>) = 1
  <2>1. {i \in 1..Len(<<"Q">>) : <<"Q">>[i] = "Q"} = {1}
    OBVIOUS
  <2>. QED  BY <2>1, FS_Singleton DEF Quits
<1>3. ASSUME NEW n \in Nat  PROVE Quits(<<"E">> \o [i \in 1..n |-> "Q"]) = n
  <2>1. PICK q : q = [i \in 1..n |-> "Q"]
    OBVIOUS
  <2>2. q \in Seq({"E", "Q"}) /\ Len(q) = n /\ \A i \in 1..n : q[i] = "Q"
    BY <2>1
  <2>3. PICK e : e = <<"E">>
    OBVIOUS
  <2>4. e \in Seq({"E", "Q"}) /\ Len(e) = 1 /\ e[1] = "E"
    BY <2>3
  <2>5. PICK z : z = e \o q
    OBVIOUS
  <2>6. /\ Len(z) = Len(e) + Len(q)
        /\ \A i \in 1..Len(e) + Len(q) : z[i] = IF i <= Len(e) THEN e[i] ELSE q[i - Len(e)]
    BY <2>2, <2>4, <2>5, ConcatProperties
  <2>7. Len(z) = n + 1 /\ z[1] = "E" /\ \A i \in 1..n + 1 : i # 1 => z[i] = q[i - 1]
    BY <2>2, <2>4, <2>6
  <2>8. {i \in 1..Len(z) : z[i] = "Q"} = 2..n + 1
    BY <2>2, <2>7
  <2>9. Cardinality(2..n + 1) = n
    BY FS_Interval
  <2>. QED  BY <2>1, <2>3, <2>5, <2>8, <2>9 DEF Quits
<1>. QED  BY <1>1, <1>2, <1>3

\* Sets of connections can be counted.
LEMMA ConnsCount ==
  ASSUME NEW S \in SUBSET Conns
  PROVE  IsFiniteSet(S) /\ Cardinality(S) \in Nat
  BY PoolAssumption, FS_Subset, FS_CardinalityType

-----------------------------------------------------------------------------
(* Where a descriptor is *)

\* The phases of a connection whose descriptor no worker has passed on.
Unpassed ==
    {"closed", "orphan", "lobby", "create_lock", "create_write", "create_unlock",
     "join_check", "join_lock", "join_write"}

\* The phases between write_fd and the count of the member.
Counting == {"create_occupy", "create_done", "join_reply"}

\* No room has a descriptor that was not passed on.
SeatInv == \A c \in Conns : pc[c] \in Unpassed => seat[c] = "none"

\* The socketpair of a room that lives holds descriptors passed to that room,
\* and each of them once.
InPipe(r) ==
    /\ \A i \in 1..Len(toRoom[r]) :
         /\ toRoom[r][i][2] \in Conns
         /\ seat[toRoom[r][i][2]] = "pipe"
         /\ room[toRoom[r][i][2]] = r
    /\ \A i, j \in 1..Len(toRoom[r]) : toRoom[r][i][2] = toRoom[r][j][2] => i = j

PipeInv == \A r \in Rooms \ dead : InPipe(r)

\* What a worker does besides writing a descriptor and counting it.
Stays(c) ==
    \/ Accept(c) \/ Hangup(c) \/ Unsupported(c) \/ CreateRequest(c)
    \/ \E r \in Rooms : JoinRequest(c, r)
    \/ CreateLock(c) \/ CreateFails(c) \/ CreateUnlock(c)
    \/ JoinCheck(c) \/ JoinLock(c) \/ JoinFails(c)

\* None of it touches a room, or a connection that a room has.
LEMMA StaysStep ==
  ASSUME TypeOK, SeatInv, NEW c \in Conns, Stays(c)
  PROVE  /\ UNCHANGED <<child_status, total, heard, roomVars>>
         /\ pc[c] \notin Counting /\ pc'[c] \in Unpassed
         /\ seat[c] \notin {"pipe", "room"} /\ seat'[c] = "none"
         /\ \A d \in Conns \ {c} : pc'[d] = pc[d] /\ room'[d] = room[d] /\ seat'[d] = seat[d]
<1>. USE DEF TypeOK, SeatInv, Unpassed, Counting
<1>1. CASE Accept(c)
  BY <1>1 DEF Accept, parentVars
<1>2. CASE Hangup(c) \/ Unsupported(c) \/ CreateRequest(c)
  BY <1>2 DEF Hangup, Unsupported, CreateRequest, parentVars
<1>3. CASE \E r \in Rooms : JoinRequest(c, r)
  BY <1>3 DEF JoinRequest, parentVars
<1>4. CASE CreateLock(c)
  <2>1. CASE BackToLobby(c)
    BY <1>4, <2>1 DEF CreateLock, BackToLobby
  <2>2. ASSUME NEW r \in Free, room' = [room EXCEPT ![c] = r],
               pc' = [pc EXCEPT ![c] = "create_write"]
        PROVE  /\ pc'[c] = "create_write"
               /\ \A d \in Conns \ {c} : pc'[d] = pc[d] /\ room'[d] = room[d]
    BY <2>2
  <2>. QED  BY <1>4, <2>1, <2>2 DEF CreateLock
<1>5. CASE CreateFails(c)
  BY <1>5 DEF CreateFails
<1>6. CASE CreateUnlock(c)
  BY <1>6 DEF CreateUnlock, BackToLobby
<1>7. CASE JoinFails(c)
  BY <1>7 DEF JoinFails, BackToLobby
<1>8. CASE JoinCheck(c)
  BY <1>8 DEF JoinCheck, BackToLobby, parentVars
<1>9. CASE JoinLock(c)
  BY <1>9 DEF JoinLock
<1>. HIDE DEF TypeOK, SeatInv, Unpassed, Counting
<1>. QED  BY <1>1, <1>2, <1>3, <1>4, <1>5, <1>6, <1>7, <1>8, <1>9 DEF Stays

\* What a room process does with the head of its socketpair concerns one
\* connection, which was waiting for it.
LEMMA TakeStep ==
  ASSUME TypeOK, SeatInv, PipeInv, NEW r \in Rooms,
         RoomCreate(r) \/ RoomJoin(r) \/ RoomIgnores(r)
  PROVE  \E c \in Conns :
           /\ r \notin dead /\ toRoom[r] # <<>> /\ Head(toRoom[r])[2] = c
           /\ Head(toRoom[r]) \in {"C", "J"} \X Conns
           /\ seat[c] = "pipe" /\ room[c] = r /\ pc[c] \notin Unpassed
           /\ seat'[c] \in {"room", "left", "lost"}
           /\ \A d \in Conns \ {c} : seat'[d] = seat[d]
           /\ toRoom' = [toRoom EXCEPT ![r] = Tail(@)]
           /\ UNCHANGED <<pc, room, toParent, owed, dead, meeting, parentVars>>
<1>1. toRoom[r] # <<>> /\ r \notin dead /\ toRoom[r] \in Seq({"C", "J"} \X Conns)
  BY DEF RoomCreate, RoomJoin, RoomIgnores, TypeOK
<1>2. 1 \in 1..Len(toRoom[r]) /\ Head(toRoom[r]) = toRoom[r][1]
      /\ Head(toRoom[r]) \in {"C", "J"} \X Conns
  BY <1>1, TailAt
<1>. DEFINE c == Head(toRoom[r])[2]
<1>3. c \in Conns /\ seat[c] = "pipe" /\ room[c] = r
  BY <1>1, <1>2 DEF PipeInv, InPipe
<1>4. pc[c] \notin Unpassed
  BY <1>3 DEF SeatInv
<1>5. /\ toRoom' = [toRoom EXCEPT ![r] = Tail(@)]
      /\ UNCHANGED <<pc, room, toParent, owed, dead, meeting, parentVars>>
  BY DEF RoomCreate, RoomJoin, RoomIgnores
<1>6. PICK s \in {"room", "left", "lost"} : seat' = [seat EXCEPT ![c] = s]
  BY DEF RoomCreate, RoomJoin, RoomIgnores
<1>7. seat'[c] = s /\ \A d \in Conns \ {c} : seat'[d] = seat[d]
  BY <1>3, <1>6 DEF TypeOK
<1>. HIDE DEF c
<1>. QED  BY <1>1, <1>2, <1>3, <1>4, <1>5, <1>6, <1>7 DEF c

\* write_fd puts a descriptor into the socketpair of the room its worker chose.
LEMMA GiveStep ==
  ASSUME TypeOK, SeatInv, NEW c \in Conns, CreateWrite(c) \/ JoinWrite(c)
  PROVE  /\ pc[c] \in Unpassed /\ seat[c] = "none" /\ room[c] \in Rooms /\ room[c] \notin dead
         /\ pc'[c] \in Counting /\ seat'[c] = "pipe"
         /\ \A d \in Conns \ {c} : pc'[d] = pc[d] /\ seat'[d] = seat[d]
         /\ \E k \in {"C", "J"} :
              toRoom' = [toRoom EXCEPT ![room[c]] = Append(toRoom[room[c]], <<k, c>>)]
         /\ UNCHANGED <<room, toParent, owed, owner, roomstatus, dead, parentVars>>
<1>1. /\ pc[c] \in Unpassed /\ pc'[c] \in Counting /\ seat'[c] = "pipe"
      /\ \A d \in Conns \ {c} : pc'[d] = pc[d] /\ seat'[d] = seat[d]
  BY DEF CreateWrite, JoinWrite, Unpassed, Counting, TypeOK
<1>2. seat[c] = "none"
  BY <1>1 DEF SeatInv
<1>. QED  BY <1>1, <1>2 DEF CreateWrite, JoinWrite, TypeOK

\* Leaving a room, or its death, closes descriptors of that room only.
LEMMA LeaveStep ==
  ASSUME TypeOK, NEW r \in Rooms,
         (\E c \in Conns : MemberLeaves(r, c)) \/ OwnerLeaves(r) \/ Die(r)
  PROVE  /\ \A d \in Conns : \/ seat'[d] = seat[d]
                             \/ /\ seat'[d] = "left" /\ room[d] = r
                                /\ seat[d] = "room" \/ (seat[d] = "pipe" /\ r \in dead')
         /\ dead \subseteq dead'
         /\ UNCHANGED <<pc, room, toRoom, toParent, meeting, parentVars>>
<1>1. CASE \E c \in Conns : MemberLeaves(r, c)
  <2>1. PICK c \in Conns : MemberLeaves(r, c)
    BY <1>1
  <2>2. seat[c] = "room" /\ room[c] = r /\ seat' = [seat EXCEPT ![c] = "left"]
    BY <2>1 DEF MemberLeaves, Members
  <2>3. \A d \in Conns : seat'[d] = seat[d] \/ (d = c /\ seat'[d] = "left")
    BY <2>2 DEF TypeOK
  <2>. QED  BY <2>1, <2>2, <2>3 DEF MemberLeaves
<1>2. CASE OwnerLeaves(r)
  <2>1. seat' = [c \in Conns |-> IF c \in Members(r) THEN "left" ELSE seat[c]]
    BY <1>2 DEF OwnerLeaves
  <2>2. \A d \in Conns : seat'[d] = seat[d] \/ (d \in Members(r) /\ seat'[d] = "left")
    BY <2>1
  <2>3. \A d \in Members(r) : room[d] = r /\ seat[d] = "room"
    BY DEF Members
  <2>. QED  BY <1>2, <2>2, <2>3 DEF OwnerLeaves
<1>3. CASE Die(r)
  <2>1. seat' = [c \in Conns |-> IF c \in Members(r) \cup Waiting(r) THEN "left" ELSE seat[c]]
    BY <1>3 DEF Die
  <2>2. \A d \in Conns :
           seat'[d] = seat[d] \/ (d \in Members(r) \cup Waiting(r) /\ seat'[d] = "left")
    BY <2>1
  <2>3. \A d \in Members(r) \cup Waiting(r) : room[d] = r /\ seat[d] \in {"room", "pipe"}
    BY DEF Members, Waiting
  <2>4. r \in dead'
    BY <1>3 DEF Die
  <2>. QED  BY <1>3, <2>2, <2>3, <2>4 DEF Die
<1>. QED  BY <1>1, <1>2, <1>3

\* At first nothing was passed on.
LEMMA SeatInit == Init => SeatInv /\ PipeInv
<1>. SUFFICES ASSUME Init  PROVE SeatInv /\ PipeInv
  OBVIOUS
<1>1. SeatInv
  BY DEF Init, SeatInv
<1>2. \A r \in Rooms : toRoom[r] = <<>>
  BY DEF Init
<1>. QED  BY <1>1, <1>2 DEF PipeInv, InPipe

\* What the other steps leave alone.
LEMMA OtherStep ==
  ASSUME TypeOK,
         \/ \E c \in Conns : CreateOccupy(c) \/ CreateDone(c) \/ JoinReply(c)
         \/ \E r \in Rooms : Notify(r) \/ ReadNotice(r) \/ ParentQuits(r)
         \/ RoomEmpty \/ PartnerQuit \/ UNCHANGED vars
  PROVE  /\ UNCHANGED <<room, seat, toRoom, owner, roomstatus, dead, meeting>>
         /\ \A d \in Conns : \/ pc'[d] = pc[d]
                             \/ pc[d] \in Counting /\ pc'[d] \in Counting \cup {"handed"}
<1>1. ASSUME NEW c \in Conns, CreateOccupy(c) \/ CreateDone(c) \/ JoinReply(c)
      PROVE  /\ UNCHANGED <<room, seat, roomVars>> /\ pc[c] \in Counting
             /\ pc'[c] \in Counting \cup {"handed"} /\ \A d \in Conns \ {c} : pc'[d] = pc[d]
  BY <1>1 DEF CreateOccupy, CreateDone, JoinReply, Counting, TypeOK
<1>2. CASE \E c \in Conns : CreateOccupy(c) \/ CreateDone(c) \/ JoinReply(c)
  <2>1. PICK c \in Conns : CreateOccupy(c) \/ CreateDone(c) \/ JoinReply(c)
    BY <1>2
  <2>2. /\ UNCHANGED <<room, seat, roomVars>> /\ pc[c] \in Counting
        /\ pc'[c] \in Counting \cup {"handed"} /\ \A d \in Conns \ {c} : pc'[d] = pc[d]
    BY <1>1, <2>1
  <2>3. UNCHANGED <<room, seat, toRoom, owner, roomstatus, dead, meeting>>
    BY <2>2 DEF roomVars
  <2>. QED  BY <2>2, <2>3
<1>3. CASE \/ \E r \in Rooms : Notify(r) \/ ReadNotice(r) \/ ParentQuits(r)
           \/ RoomEmpty \/ PartnerQuit \/ UNCHANGED vars
  BY <1>3 DEF Notify, ReadNotice, ParentQuits, RoomEmpty, PartnerQuit, vars, workerVars, roomVars
<1>. QED  BY <1>2, <1>3

\* The steps, by what they do to a descriptor.
LEMMA StepKinds ==
  ASSUME [Next]_vars
  PROVE  \/ \E c \in Conns : Stays(c)
         \/ \E c \in Conns : CreateWrite(c) \/ JoinWrite(c)
         \/ \E r \in Rooms : RoomCreate(r) \/ RoomJoin(r) \/ RoomIgnores(r)
         \/ \E r \in Rooms : (\E c \in Conns : MemberLeaves(r, c)) \/ OwnerLeaves(r) \/ Die(r)
         \/ \E c \in Conns : CreateOccupy(c) \/ CreateDone(c) \/ JoinReply(c)
         \/ \E r \in Rooms : Notify(r) \/ ReadNotice(r) \/ ParentQuits(r)
         \/ RoomEmpty \/ PartnerQuit \/ UNCHANGED vars
  BY DEF Next, Worker, Stays, RoomCrash, RoomQuits

\* A worker that has not passed its descriptor on is in no room and in no socketpair.
LEMMA SeatStep ==
  ASSUME TypeOK, SeatInv, PipeInv, [Next]_vars
  PROVE  SeatInv'
<1>. USE DEF SeatInv
<1>1. ASSUME NEW c \in Conns, Stays(c)  PROVE SeatInv'
  <2>1. seat'[c] = "none"
        /\ \A d \in Conns \ {c} : pc'[d] = pc[d] /\ seat'[d] = seat[d]
    BY <1>1, StaysStep
  <2>. QED  BY <2>1
<1>2. ASSUME NEW c \in Conns, CreateWrite(c) \/ JoinWrite(c)  PROVE SeatInv'
  <2>1. pc'[c] \in Counting /\ \A d \in Conns \ {c} : pc'[d] = pc[d] /\ seat'[d] = seat[d]
    BY <1>2, GiveStep
  <2>2. pc'[c] \notin Unpassed
    BY <2>1 DEF Counting, Unpassed
  <2>. QED  BY <2>1, <2>2 DEF TypeOK
<1>3. ASSUME NEW r \in Rooms, RoomCreate(r) \/ RoomJoin(r) \/ RoomIgnores(r)  PROVE SeatInv'
  <2>1. PICK c \in Conns : /\ pc[c] \notin Unpassed /\ pc' = pc
                           /\ \A d \in Conns \ {c} : seat'[d] = seat[d]
    BY <1>3, TakeStep
  <2>. QED  BY <2>1
<1>4. ASSUME NEW r \in Rooms, (\E c \in Conns : MemberLeaves(r, c)) \/ OwnerLeaves(r) \/ Die(r)
      PROVE  SeatInv'
  <2>1. /\ \A d \in Conns : seat'[d] = seat[d] \/ seat[d] = "room" \/ seat[d] = "pipe"
        /\ pc' = pc
    BY <1>4, LeaveStep
  <2>. QED  BY <2>1
<1>5. CASE \/ \E c \in Conns : CreateOccupy(c) \/ CreateDone(c) \/ JoinReply(c)
           \/ \E r \in Rooms : Notify(r) \/ ReadNotice(r) \/ ParentQuits(r)
           \/ RoomEmpty \/ PartnerQuit \/ UNCHANGED vars
  <2>1. /\ seat' = seat
        /\ \A d \in Conns : pc'[d] = pc[d] \/ pc'[d] \in Counting \cup {"handed"}
    BY <1>5, OtherStep
  <2>2. Unpassed \cap (Counting \cup {"handed"}) = {}
    BY DEF Unpassed, Counting
  <2>. QED  BY <2>1, <2>2
<1>. HIDE DEF SeatInv
<1>. QED  BY <1>1, <1>2, <1>3, <1>4, <1>5, StepKinds

\* The socketpairs hold what was passed on, once, and to whom.
LEMMA PipeStep ==
  ASSUME TypeOK, SeatInv, PipeInv, [Next]_vars
  PROVE  PipeInv'
<1>1. ASSUME NEW s \in Rooms, InPipe(s), toRoom'[s] = toRoom[s],
             \A d \in Conns : seat[d] = "pipe" /\ room[d] = s =>
                               seat'[d] = "pipe" /\ room'[d] = s
      PROVE  InPipe(s)'
  BY <1>1 DEF InPipe
<1>2. ASSUME NEW c \in Conns, Stays(c)  PROVE PipeInv'
  <2>1. /\ toRoom' = toRoom /\ dead' = dead /\ seat[c] # "pipe"
        /\ \A d \in Conns \ {c} : room'[d] = room[d] /\ seat'[d] = seat[d]
    BY <1>2, StaysStep DEF roomVars
  <2>. QED  BY <1>1, <2>1 DEF PipeInv, Rooms
<1>3. ASSUME NEW c \in Conns, CreateWrite(c) \/ JoinWrite(c)  PROVE PipeInv'
  <2>. PICK r \in Rooms : r = room[c]
    BY DEF TypeOK
  <2>1. PICK k \in {"C", "J"} : toRoom' = [toRoom EXCEPT ![r] = Append(toRoom[r], <<k, c>>)]
    BY <1>3, GiveStep
  <2>2. /\ seat[c] = "none" /\ r \notin dead /\ dead' = dead /\ room' = room
        /\ seat'[c] = "pipe" /\ \A d \in Conns \ {c} : seat'[d] = seat[d]
    BY <1>3, GiveStep
  <2>3. ASSUME NEW s \in Rooms \ dead', s # r  PROVE InPipe(s)'
    <3>1. toRoom'[s] = toRoom[s]
      BY <2>1, <2>3 DEF TypeOK
    <3>. QED  BY <1>1, <2>2, <3>1 DEF PipeInv, TypeOK
  <2>4. InPipe(r)'
    <3>1. InPipe(r) /\ toRoom[r] \in Seq({"C", "J"} \X Conns) /\ <<k, c>> \in {"C", "J"} \X Conns
      BY <2>2 DEF PipeInv, TypeOK
    <3>2. toRoom'[r] = Append(toRoom[r], <<k, c>>)
      BY <2>1 DEF TypeOK
    <3>3. /\ Len(toRoom'[r]) = Len(toRoom[r]) + 1
          /\ \A i \in 1..Len(toRoom[r]) : toRoom'[r][i] = toRoom[r][i]
          /\ toRoom'[r][Len(toRoom[r]) + 1] = <<k, c>>
          /\ \A i \in 1..Len(toRoom[r]) + 1 : i = Len(toRoom[r]) + 1 \/ i \in 1..Len(toRoom[r])
      BY <3>1, <3>2, AppendAt
    <3>4. \A i \in 1..Len(toRoom[r]) : toRoom[r][i][2] # c
      BY <2>2, <3>1 DEF InPipe
    <3>5. \A i \in 1..Len(toRoom[r]) :
             /\ toRoom'[r][i][2] \in Conns \ {c}
             /\ seat'[toRoom'[r][i][2]] = "pipe" /\ room'[toRoom'[r][i][2]] = r
      BY <2>2, <3>1, <3>3, <3>4 DEF InPipe
    <3>6. toRoom'[r][Len(toRoom[r]) + 1][2] = c /\ room'[c] = r
      BY <2>2, <3>3
    <3>7. \A i, j \in 1..Len(toRoom[r]) : toRoom'[r][i][2] = toRoom'[r][j][2] => i = j
      <4>. TAKE i, j \in 1..Len(toRoom[r])
      <4>1. toRoom'[r][i] = toRoom[r][i] /\ toRoom'[r][j] = toRoom[r][j]
        BY <3>3
      <4>2. toRoom[r][i][2] = toRoom[r][j][2] => i = j
        BY <3>1 DEF InPipe
      <4>. QED  BY <4>1, <4>2
    <3>. DEFINE n == Len(toRoom[r]) + 1
    <3>8. /\ \A i \in 1..Len(toRoom'[r]) : i = n \/ i \in 1..Len(toRoom[r])
          /\ toRoom'[r][n][2] = c
      BY <3>3, <3>6
    <3>. HIDE DEF n
    <3>. QED  BY <2>2, <3>5, <3>6, <3>7, <3>8 DEF InPipe
  <2>. QED  BY <2>3, <2>4 DEF PipeInv, Rooms
<1>4. ASSUME NEW r \in Rooms, RoomCreate(r) \/ RoomJoin(r) \/ RoomIgnores(r)  PROVE PipeInv'
  <2>1. PICK c \in Conns :
           /\ r \notin dead /\ toRoom[r] # <<>> /\ Head(toRoom[r])[2] = c
           /\ seat[c] = "pipe" /\ room[c] = r
           /\ \A d \in Conns \ {c} : seat'[d] = seat[d]
           /\ toRoom' = [toRoom EXCEPT ![r] = Tail(@)]
           /\ room' = room /\ dead' = dead
    BY <1>4, TakeStep
  <2>3. ASSUME NEW s \in Rooms \ dead', s # r  PROVE InPipe(s)'
    <3>1. toRoom'[s] = toRoom[s]
      BY <2>1, <2>3 DEF TypeOK
    <3>. QED  BY <1>1, <2>1, <2>3, <3>1 DEF PipeInv
  <2>4. InPipe(r)'
    <3>1. toRoom'[r] = Tail(toRoom[r]) /\ toRoom[r] \in Seq({"C", "J"} \X Conns) /\ InPipe(r)
      BY <2>1 DEF TypeOK, PipeInv
    <3>2. /\ 1 \in 1..Len(toRoom[r]) /\ toRoom[r][1][2] = c
          /\ \A i \in 1..Len(toRoom'[r]) :
               toRoom'[r][i] = toRoom[r][i + 1] /\ i + 1 \in 1..Len(toRoom[r])
      <4>1. \A i \in 1..Len(Tail(toRoom[r])) :
               Tail(toRoom[r])[i] = toRoom[r][i + 1] /\ i + 1 \in 1..Len(toRoom[r])
        BY <2>1, <3>1, TailAt
      <4>2. 1 \in 1..Len(toRoom[r]) /\ Head(toRoom[r]) = toRoom[r][1]
        BY <2>1, <3>1, TailAt
      <4>. QED  BY <2>1, <3>1, <4>1, <4>2
    <3>3. \A i \in 1..Len(toRoom'[r]) : toRoom[r][i + 1][2] \in Conns \ {c}
      <4>. SUFFICES ASSUME NEW i \in 1..Len(toRoom'[r])
                    PROVE  toRoom[r][i + 1][2] \in Conns \ {c}
        OBVIOUS
      <4>1. i + 1 # 1 /\ i + 1 \in 1..Len(toRoom[r])
        BY <3>2
      <4>. QED  BY <3>1, <3>2, <4>1 DEF InPipe
    <3>4. ASSUME NEW i \in 1..Len(toRoom'[r])
          PROVE  /\ toRoom'[r][i][2] \in Conns
                 /\ seat'[toRoom'[r][i][2]] = "pipe"
                 /\ room'[toRoom'[r][i][2]] = r
      <4>. PICK j \in 1..Len(toRoom[r]) : j = i + 1
        BY <3>2
      <4>1. toRoom'[r][i] = toRoom[r][j] /\ toRoom[r][j][2] \in Conns \ {c}
        BY <3>2, <3>3
      <4>2. seat[toRoom[r][j][2]] = "pipe" /\ room[toRoom[r][j][2]] = r
        BY <3>1 DEF InPipe
      <4>. QED  BY <2>1, <4>1, <4>2
    <3>5. ASSUME NEW i \in 1..Len(toRoom'[r]), NEW j \in 1..Len(toRoom'[r]),
                 toRoom'[r][i][2] = toRoom'[r][j][2]
          PROVE  i = j
      <4>1. i + 1 = j + 1
        BY <3>1, <3>2, <3>5 DEF InPipe
      <4>. QED  BY <3>2, <4>1
    <3>. QED  BY <3>4, <3>5 DEF InPipe
  <2>. QED  BY <2>3, <2>4 DEF PipeInv, Rooms
<1>5. ASSUME NEW r \in Rooms, (\E c \in Conns : MemberLeaves(r, c)) \/ OwnerLeaves(r) \/ Die(r)
      PROVE  PipeInv'
  <2>1. /\ \A d \in Conns : \/ seat'[d] = seat[d]
                            \/ /\ room[d] = r
                               /\ seat[d] = "room" \/ (seat[d] = "pipe" /\ r \in dead')
        /\ dead \subseteq dead' /\ room' = room /\ toRoom' = toRoom
    BY <1>5, LeaveStep
  <2>2. ASSUME NEW s \in Rooms \ dead'  PROVE InPipe(s)'
    BY <1>1, <2>1 DEF PipeInv
  <2>. QED  BY <2>2 DEF PipeInv, Rooms
<1>6. CASE \/ \E c \in Conns : CreateOccupy(c) \/ CreateDone(c) \/ JoinReply(c)
           \/ \E r \in Rooms : Notify(r) \/ ReadNotice(r) \/ ParentQuits(r)
           \/ RoomEmpty \/ PartnerQuit \/ UNCHANGED vars
  <2>1. UNCHANGED <<room, seat, toRoom, dead>>
    BY <1>6, OtherStep
  <2>. QED  BY <1>1, <2>1 DEF PipeInv, Rooms
<1>. QED  BY <1>2, <1>3, <1>4, <1>5, <1>6, StepKinds

-----------------------------------------------------------------------------
(* The parent's total *)

\* The connections a room process has or is about to take.
Here(r) == Members(r) \cup Waiting(r)

\* A room that had a meeting has neither an owner nor one in its socketpair.
Between(r) == meeting[r] > 0 /\ ~Creating(r) /\ ~Hosting(r)

\* The total covers the members and the notices on their way.  It is one more
\* than that once an owner is gone: clear_room owes no 'Q' for the owner.
Covered(r) ==
    total[r] + Cardinality(Uncounted(r))
        >= Cardinality(Here(r)) + QuitNotices(r) + (IF Between(r) THEN 1 ELSE 0)

CoverInv == \A r \in Rooms \ dead : Covered(r)

\* The sets that are counted.
LEMMA CountTypes ==
  ASSUME TypeOK, NEW r \in Rooms
  PROVE  /\ IsFiniteSet(Here(r)) /\ Cardinality(Here(r)) \in Nat
         /\ IsFiniteSet(Uncounted(r)) /\ Cardinality(Uncounted(r)) \in Nat
         /\ Quits(toParent[r]) \in Nat /\ Quits(owed[r]) \in Nat /\ QuitNotices(r) \in Nat
         /\ QuitNotices(r) = Quits(toParent[r]) + Quits(owed[r])
                              + (IF heard = <<r, "Q">> THEN 1 ELSE 0)
         /\ total[r] \in Int
<1>1. Here(r) \in SUBSET Conns /\ Uncounted(r) \in SUBSET Conns
  BY DEF Here, Members, Waiting, Uncounted
<1>2. toParent[r] \in Seq({"E", "Q"}) /\ owed[r] \in Seq({"E", "Q"}) /\ total[r] \in Int
  BY DEF TypeOK
<1>3. QuitNotices(r) = Quits(toParent[r]) + Quits(owed[r])
                       + (IF heard = <<r, "Q">> THEN 1 ELSE 0)
  BY DEF QuitNotices, Quits
<1>4. Quits(toParent[r]) \in Nat /\ Quits(owed[r]) \in Nat
  BY <1>2, QuitsType
<1>5. QuitNotices(r) \in Nat
  BY <1>3, <1>4
<1>6. /\ IsFiniteSet(Here(r)) /\ Cardinality(Here(r)) \in Nat
      /\ IsFiniteSet(Uncounted(r)) /\ Cardinality(Uncounted(r)) \in Nat
  BY <1>1, ConnsCount
<1>. QED  BY <1>2, <1>3, <1>4, <1>5, <1>6

\* The notices of a room whose socketpair, debts and notice read stay.
LEMMA NoticesFrame ==
  ASSUME NEW r \in Rooms, toParent'[r] = toParent[r], owed'[r] = owed[r],
         heard' = <<r, "Q">> <=> heard = <<r, "Q">>
  PROVE  QuitNotices(r)' = QuitNotices(r)
  BY DEF QuitNotices

\* What is in a sequence but for its head.
LEMMA TailOccurs ==
  ASSUME NEW T, NEW s \in Seq(T), s # <<>>, NEW S, Head(s) \notin S
  PROVE  Occurs(Tail(s), S) <=> Occurs(s, S)
<1>1. /\ Head(s) = s[1]
      /\ \A i \in 1..Len(Tail(s)) : Tail(s)[i] = s[i + 1] /\ i + 1 \in 1..Len(s)
      /\ \A i \in 1..Len(s) : i # 1 => i - 1 \in 1..Len(Tail(s)) /\ s[i] = Tail(s)[i - 1]
  BY TailAt
<1>2. ASSUME Occurs(Tail(s), S)  PROVE Occurs(s, S)
  BY <1>1, <1>2 DEF Occurs
<1>3. ASSUME Occurs(s, S)  PROVE Occurs(Tail(s), S)
  BY <1>1, <1>3 DEF Occurs
<1>. QED  BY <1>2, <1>3

\* What was appended is there.
LEMMA AppendOccurs ==
  ASSUME NEW T, NEW s \in Seq(T), NEW e \in T, NEW S, e \in S
  PROVE  Occurs(Append(s, e), S)
<1>1. /\ Len(s) \in Nat /\ Len(Append(s, e)) = Len(s) + 1
      /\ Append(s, e)[Len(s) + 1] = e
  BY AppendAt
<1>2. Len(s) + 1 \in 1..Len(Append(s, e))
  BY <1>1
<1>. QED  BY <1>1, <1>2 DEF Occurs

\* What a step does with the head of a socketpair or at its end.
LEMMA CreatingStep ==
  ASSUME TypeOK, NEW r \in Rooms
  PROVE  /\ \A c \in Conns : /\ toRoom'[r] = Append(toRoom[r], <<"C", c>>) => Creating(r)'
                             /\ toRoom'[r] = Append(toRoom[r], <<"J", c>>)
                                   => (Creating(r)' <=> Creating(r))
         /\ toRoom[r] # <<>> /\ toRoom'[r] = Tail(toRoom[r]) /\ Head(toRoom[r])[1] = "J"
              => (Creating(r)' <=> Creating(r))
         /\ toRoom'[r] = toRoom[r] => (Creating(r)' <=> Creating(r))
<1>1. toRoom[r] \in Seq({"C", "J"} \X Conns)
  BY DEF TypeOK
<1>2. Creating(r)' <=> Occurs(toRoom'[r], Creations)
  BY DEF Creating, Creations
<1>3. ASSUME NEW c \in Conns, toRoom'[r] = Append(toRoom[r], <<"C", c>>)  PROVE Creating(r)'
  <2>1. <<"C", c>> \in Creations /\ <<"C", c>> \in {"C", "J"} \X Conns
    BY DEF Creations
  <2>. QED  BY <1>1, <1>2, <1>3, <2>1, AppendOccurs
<1>4. ASSUME NEW c \in Conns, toRoom'[r] = Append(toRoom[r], <<"J", c>>)
      PROVE  Creating(r)' <=> Creating(r)
  <2>1. <<"J", c>> \notin Creations /\ <<"J", c>> \in {"C", "J"} \X Conns
    BY DEF Creations
  <2>2. Occurs(Append(toRoom[r], <<"J", c>>), Creations) <=> Occurs(toRoom[r], Creations)
    BY <1>1, <2>1, AppendOther
  <2>. QED  BY <1>2, <1>4, <2>2 DEF Creating
<1>5. ASSUME toRoom[r] # <<>>, toRoom'[r] = Tail(toRoom[r]), Head(toRoom[r])[1] = "J"
      PROVE  Creating(r)' <=> Creating(r)
  <2>1. Head(toRoom[r]) \notin Creations
    BY <1>5 DEF Creations
  <2>2. Occurs(Tail(toRoom[r]), Creations) <=> Occurs(toRoom[r], Creations)
    BY <1>1, <1>5, <2>1, TailOccurs
  <2>. QED  BY <1>2, <1>5, <2>2 DEF Creating
<1>. QED  BY <1>2, <1>3, <1>4, <1>5 DEF Creating

\* A step that neither counts nor adds anybody keeps the total good, even if it
\* takes the owner away: then there is one less to cover.
LEMMA CoverFrame ==
  ASSUME TypeOK, NEW r \in Rooms, Covered(r),
         total'[r] = total[r], Uncounted(r)' = Uncounted(r), QuitNotices(r)' = QuitNotices(r),
         Here(r)' \subseteq Here(r), Between(r)' => Between(r) \/ Here(r)' # Here(r)
  PROVE  Covered(r)'
<1>1. /\ Cardinality(Here(r)') \in Nat /\ Cardinality(Here(r)') <= Cardinality(Here(r))
      /\ Here(r)' # Here(r) => Cardinality(Here(r)') # Cardinality(Here(r))
  BY CountTypes, FS_Subset, FS_CardinalityType
<1>. QED  BY <1>1, CountTypes DEF Covered

\* A worker that neither writes nor counts changes nobody's place.
LEMMA StaysPlaces ==
  ASSUME TypeOK, SeatInv, NEW c \in Conns, Stays(c), NEW r \in Rooms
  PROVE  /\ Members(r)' = Members(r) /\ Waiting(r)' = Waiting(r) /\ Here(r)' = Here(r)
         /\ Uncounted(r)' = Uncounted(r)
<1>1. /\ pc[c] \notin Counting /\ pc'[c] \in Unpassed
      /\ seat[c] \notin {"pipe", "room"} /\ seat'[c] = "none"
      /\ \A d \in Conns \ {c} : pc'[d] = pc[d] /\ room'[d] = room[d] /\ seat'[d] = seat[d]
  BY StaysStep
<1>2. Members(r)' = Members(r) /\ Waiting(r)' = Waiting(r)
  BY <1>1 DEF Members, Waiting
<1>3. pc'[c] \notin Counting
  BY <1>1 DEF Unpassed, Counting
<1>4. Uncounted(r)' = Uncounted(r)
  BY <1>1, <1>3 DEF Uncounted, Counting
<1>. QED  BY <1>2, <1>4 DEF Here

\* A room that takes no part in a step of a connection or of another room.
LEMMA CoverElsewhere ==
  ASSUME TypeOK, NEW s \in Rooms, Covered(s),
         total'[s] = total[s], toParent'[s] = toParent[s], owed'[s] = owed[s],
         heard' = <<s, "Q">> <=> heard = <<s, "Q">>,
         toRoom'[s] = toRoom[s], owner'[s] = owner[s], meeting'[s] = meeting[s],
         \A d \in Conns : /\ d \in Uncounted(s)' <=> d \in Uncounted(s)
                          /\ d \in Here(s)' => d \in Here(s)
  PROVE  Covered(s)'
<1>1. Uncounted(s)' = Uncounted(s) /\ Here(s)' \subseteq Here(s)
  BY DEF Uncounted, Here, Members, Waiting
<1>2. Between(s)' <=> Between(s)
  BY CreatingStep DEF Between, Hosting
<1>. QED  BY <1>1, <1>2, NoticesFrame, CoverFrame

\* write_fd adds a connection to the room and to those not counted yet.
LEMMA GiveCover ==
  ASSUME TypeOK, SeatInv, CoverInv, NEW c \in Conns, CreateWrite(c) \/ JoinWrite(c)
  PROVE  CoverInv'
<1>. PICK r \in Rooms : r = room[c]
  BY DEF TypeOK
<1>1. /\ pc[c] \in Unpassed /\ seat[c] = "none" /\ r \notin dead
      /\ pc'[c] \in Counting /\ seat'[c] = "pipe"
      /\ \A d \in Conns \ {c} : pc'[d] = pc[d] /\ seat'[d] = seat[d]
      /\ UNCHANGED <<room, toParent, owed, owner, roomstatus, dead, parentVars>>
  BY GiveStep
<1>2. PICK k \in {"C", "J"} : toRoom' = [toRoom EXCEPT ![r] = Append(toRoom[r], <<k, c>>)]
  BY GiveStep
<1>3. pc[c] \notin Counting
  BY <1>1 DEF Unpassed, Counting
<1>4. ASSUME NEW s \in Rooms \ dead', s # r  PROVE Covered(s)'
  <2>1. toRoom'[s] = toRoom[s] /\ meeting'[s] = meeting[s]
    BY <1>2, <1>4 DEF CreateWrite, JoinWrite, TypeOK
  <2>2. \A d \in Conns : /\ d \in Uncounted(s)' <=> d \in Uncounted(s)
                         /\ d \in Here(s)' => d \in Here(s)
    BY <1>1, <1>4 DEF Uncounted, Here, Members, Waiting
  <2>3. Covered(s)
    BY <1>1 DEF CoverInv
  <2>. QED  BY <1>1, <2>1, <2>2, <2>3, CoverElsewhere DEF parentVars
<1>5. Covered(r)'
  <2>1. Uncounted(r)' = Uncounted(r) \cup {c} /\ c \notin Uncounted(r)
    BY <1>1, <1>3 DEF Uncounted, Counting
  <2>2. Here(r)' = Here(r) \cup {c} /\ c \notin Here(r)
    BY <1>1 DEF Here, Members, Waiting
  <2>3. /\ Cardinality(Uncounted(r)') = Cardinality(Uncounted(r)) + 1
        /\ Cardinality(Here(r)') = Cardinality(Here(r)) + 1
    <3>1. IsFiniteSet(Uncounted(r)) /\ IsFiniteSet(Here(r))
      BY CountTypes
    <3>2. Cardinality(Uncounted(r)') = Cardinality(Uncounted(r)) + 1
      BY <2>1, <3>1, FS_AddElement
    <3>3. Cardinality(Here(r)') = Cardinality(Here(r)) + 1
      BY <2>2, <3>1, FS_AddElement
    <3>. QED  BY <3>2, <3>3
  <2>4. QuitNotices(r)' = QuitNotices(r) /\ total' = total
    BY <1>1, NoticesFrame DEF parentVars
  <2>5. Between(r)' => Between(r)
    <3>1. toRoom'[r] = Append(toRoom[r], <<k, c>>)
      BY <1>2 DEF TypeOK
    <3>2. CASE k = "C"
      BY <3>1, <3>2, CreatingStep DEF Between
    <3>3. CASE k = "J"
      <4>1. JoinWrite(c)
        <5>1. ASSUME CreateWrite(c)  PROVE FALSE
          <6>1. toRoom'[r] = Append(toRoom[r], <<"C", c>>)
            BY <5>1 DEF CreateWrite, TypeOK
          <6>2. /\ Append(toRoom[r], <<"C", c>>)[Len(toRoom[r]) + 1] = <<"C", c>>
                /\ Append(toRoom[r], <<"J", c>>)[Len(toRoom[r]) + 1] = <<"J", c>>
            BY AppendAt DEF TypeOK
          <6>. QED  BY <3>1, <3>3, <6>1, <6>2
        <5>. QED  BY <5>1
      <4>2. meeting' = meeting
        BY <4>1 DEF JoinWrite
      <4>. QED  BY <1>1, <3>1, <3>3, <4>2, CreatingStep DEF Between, Hosting
    <3>. QED  BY <3>2, <3>3
  <2>6. Covered(r)
    BY <1>1 DEF CoverInv
  <2>. QED  BY <2>3, <2>4, <2>5, <2>6, CountTypes DEF Covered
<1>. QED  BY <1>4, <1>5 DEF CoverInv, Rooms

\* What a room takes concerns no other room.
LEMMA TakeElsewhere ==
  ASSUME TypeOK, NEW r \in Rooms, RoomCreate(r) \/ RoomJoin(r) \/ RoomIgnores(r),
         toRoom' = [toRoom EXCEPT ![r] = Tail(@)], NEW s \in Rooms, s # r
  PROVE  toRoom'[s] = toRoom[s] /\ owner'[s] = owner[s]
<1>1. owner' = owner \/ \E o : owner' = [owner EXCEPT ![r] = o]
  BY DEF RoomCreate, RoomJoin, RoomIgnores
<1>. QED  BY <1>1 DEF TypeOK

\* A room that takes a 'C' has an owner then.
LEMMA CreateHosts ==
  ASSUME TypeOK, NEW r \in Rooms, RoomCreate(r)
  PROVE  Hosting(r)'
<1>1. toRoom[r] \in Seq({"C", "J"} \X Conns) /\ toRoom[r] # <<>>
      /\ owner' = [owner EXCEPT ![r] = Head(toRoom[r])[2]] /\ DOMAIN owner = Rooms
  BY DEF RoomCreate, TypeOK
<1>2. Head(toRoom[r]) \in {"C", "J"} \X Conns
  BY <1>1, HeadTailProperties
<1>3. Head(toRoom[r])[2] # NoConn
  BY <1>2, PoolAssumption
<1>. QED  BY <1>1, <1>3 DEF Hosting

\* What a room takes from its socketpair it had, and what it does not keep
\* leaves one less to cover.
LEMMA TakeCover ==
  ASSUME TypeOK, SeatInv, PipeInv, CoverInv, NEW r \in Rooms,
         RoomCreate(r) \/ RoomJoin(r) \/ RoomIgnores(r)
  PROVE  CoverInv'
<1>1. PICK c \in Conns :
         /\ r \notin dead /\ toRoom[r] # <<>> /\ Head(toRoom[r])[2] = c
         /\ Head(toRoom[r]) \in {"C", "J"} \X Conns
         /\ seat[c] = "pipe" /\ room[c] = r /\ pc[c] \notin Unpassed
         /\ seat'[c] \in {"room", "left", "lost"}
         /\ \A d \in Conns \ {c} : seat'[d] = seat[d]
         /\ toRoom' = [toRoom EXCEPT ![r] = Tail(@)]
         /\ UNCHANGED <<pc, room, toParent, owed, dead, meeting, parentVars>>
  BY TakeStep
<1>2. ASSUME NEW s \in Rooms
      PROVE  Uncounted(s)' = Uncounted(s) /\ Here(s)' \subseteq Here(s)
  BY <1>1 DEF Uncounted, Here, Members, Waiting
<1>3. ASSUME NEW s \in Rooms \ dead', s # r  PROVE Covered(s)'
  <2>1. toRoom'[s] = toRoom[s] /\ owner'[s] = owner[s]
    BY <1>1, <1>3, TakeElsewhere
  <2>2. Covered(s)
    BY <1>1 DEF CoverInv
  <2>. QED  BY <1>1, <1>2, <2>1, <2>2, CoverElsewhere DEF parentVars
<1>4. Covered(r)'
  <2>1. Between(r)' => Between(r) \/ Here(r)' # Here(r)
    <3>1. CASE RoomCreate(r)
      BY <3>1, CreateHosts DEF Between
    <3>2. CASE RoomJoin(r)
      <4>1. toRoom'[r] = Tail(toRoom[r]) /\ Head(toRoom[r])[1] = "J" /\ owner' = owner
        BY <1>1, <3>2 DEF RoomJoin, TypeOK
      <4>. QED  BY <1>1, <4>1, CreatingStep DEF Between, Hosting
    <3>3. CASE RoomIgnores(r)
      <4>1. seat'[c] = "lost"
        BY <1>1, <3>3 DEF RoomIgnores, TypeOK
      <4>2. c \in Here(r) /\ c \notin Here(r)'
        BY <1>1, <4>1 DEF Here, Members, Waiting
      <4>. QED  BY <4>2
    <3>. QED  BY <3>1, <3>2, <3>3
  <2>2. QuitNotices(r)' = QuitNotices(r)
    BY <1>1, NoticesFrame DEF parentVars
  <2>3. Covered(r)
    BY <1>1 DEF CoverInv
  <2>. QED  BY <1>1, <1>2, <2>1, <2>2, <2>3, CoverFrame DEF parentVars
<1>. QED  BY <1>3, <1>4 DEF CoverInv, Rooms

\* A member that leaves is owed a 'Q'; the owner takes the members along, and
\* fewer 'Q' than members may follow.
LEMMA LeaveCover ==
  ASSUME TypeOK, CoverInv, NEW r \in Rooms,
         (\E c \in Conns : MemberLeaves(r, c)) \/ OwnerLeaves(r) \/ Die(r)
  PROVE  CoverInv'
<1>1. /\ \A d \in Conns : \/ seat'[d] = seat[d]
                          \/ /\ seat'[d] = "left" /\ room[d] = r
                             /\ seat[d] = "room" \/ (seat[d] = "pipe" /\ r \in dead')
      /\ dead \subseteq dead'
      /\ UNCHANGED <<pc, room, toRoom, toParent, meeting, parentVars>>
  BY LeaveStep
<1>2. ASSUME NEW s \in Rooms  PROVE Uncounted(s)' = Uncounted(s) /\ Here(s)' \subseteq Here(s)
  BY <1>1 DEF Uncounted, Here, Members, Waiting
<1>3. ASSUME NEW s \in Rooms \ dead', s # r  PROVE Covered(s)'
  <2>1. owed'[s] = owed[s] /\ owner'[s] = owner[s]
    BY <1>3 DEF MemberLeaves, OwnerLeaves, Die, TypeOK
  <2>2. Covered(s)
    BY <1>1 DEF CoverInv
  <2>. QED  BY <1>1, <1>2, <2>1, <2>2, CoverElsewhere DEF parentVars
<1>4. ASSUME r \notin dead'  PROVE Covered(r)'
  <2>1. Covered(r)
    BY <1>1, <1>4 DEF CoverInv
  <2>2. /\ total' = total /\ Uncounted(r)' = Uncounted(r)
        /\ QuitNotices(r) = Quits(toParent[r]) + Quits(owed[r])
                             + (IF heard = <<r, "Q">> THEN 1 ELSE 0)
        /\ QuitNotices(r)' = Quits(toParent[r]) + Quits(owed'[r])
                             + (IF heard = <<r, "Q">> THEN 1 ELSE 0)
    <3>1. QuitNotices(r)' = Quits(toParent'[r]) + Quits(owed'[r])
                             + (IF heard' = <<r, "Q">> THEN 1 ELSE 0)
      BY DEF QuitNotices, Quits
    <3>. QED  BY <1>1, <1>2, <3>1, CountTypes DEF parentVars
  <2>3. ASSUME NEW c \in Conns, MemberLeaves(r, c)  PROVE Covered(r)'
    <3>1. owed[r] = <<>> /\ owed'[r] = <<"Q">> /\ owner' = owner
      BY <2>3 DEF MemberLeaves, TypeOK
    <3>2. Quits(owed[r]) = 0 /\ Quits(owed'[r]) = 1
      BY <3>1, QuitsOwed
    <3>3. c \in Here(r) /\ Here(r)' = Here(r) \ {c}
      BY <2>3 DEF MemberLeaves, Here, Members, Waiting, TypeOK
    <3>4. Cardinality(Here(r)') = Cardinality(Here(r)) - 1
      BY <3>3, CountTypes, FS_RemoveElement
    <3>5. Between(r)' <=> Between(r)
      BY <1>1, <3>1, CreatingStep DEF Between, Hosting
    <3>. QED  BY <2>1, <2>2, <3>2, <3>4, <3>5, CountTypes DEF Covered
  <2>4. ASSUME OwnerLeaves(r)  PROVE Covered(r)'
    <3>1. PICK n \in 0..Cardinality(Members(r)) - 1 :
            owed' = [owed EXCEPT ![r] = <<"E">> \o [i \in 1..n |-> "Q"]]
      BY <2>4 DEF OwnerLeaves
    <3>2. owed[r] = <<>> /\ owed'[r] = <<"E">> \o [i \in 1..n |-> "Q"]
      BY <2>4, <3>1 DEF OwnerLeaves, TypeOK
    <3>3. n \in Nat /\ Quits(owed[r]) = 0 /\ Quits(owed'[r]) = n
      BY <3>2, QuitsOwed
    <3>4. Members(r) \subseteq Here(r) /\ Here(r)' = Here(r) \ Members(r)
      BY <2>4 DEF OwnerLeaves, Here, Members, Waiting
    <3>5. Cardinality(Here(r)') = Cardinality(Here(r)) - Cardinality(Members(r))
      <4>1. Here(r) \cap Members(r) = Members(r)
        BY <3>4
      <4>. QED  BY <3>4, <4>1, CountTypes, FS_Difference
    <3>6. Cardinality(Members(r)) \in Nat
      BY ConnsCount DEF Members
    <3>7. Cardinality(Here(r)') + n + 1 <= Cardinality(Here(r))
      BY <3>3, <3>5, <3>6, CountTypes
    <3>8. Cardinality(Here(r)') \in Nat
      BY ConnsCount DEF Here, Members, Waiting
    <3>. QED  BY <2>1, <2>2, <3>3, <3>7, <3>8, CountTypes DEF Covered
  <2>5. ASSUME Die(r)  PROVE FALSE
    BY <1>4, <2>5 DEF Die
  <2>. QED  BY <2>3, <2>4, <2>5
<1>. QED  BY <1>3, <1>4 DEF CoverInv, Rooms

\* A worker counts what it has passed on, and main what it is told.
LEMMA CountCover ==
  ASSUME TypeOK, CoverInv,
         \/ \E c \in Conns : CreateOccupy(c) \/ CreateDone(c) \/ JoinReply(c)
         \/ \E r \in Rooms : Notify(r) \/ ReadNotice(r) \/ ParentQuits(r)
         \/ RoomEmpty \/ PartnerQuit \/ UNCHANGED vars
  PROVE  CoverInv'
<1>1. UNCHANGED <<room, seat, toRoom, owner, roomstatus, dead, meeting>>
  BY OtherStep
<1>2. ASSUME NEW s \in Rooms
      PROVE  Here(s)' = Here(s) /\ (Between(s)' <=> Between(s))
  <2>1. Here(s)' = Here(s)
    BY <1>1 DEF Here, Members, Waiting
  <2>. QED  BY <1>1, <2>1, CreatingStep DEF Between, Hosting
<1>3. \A s \in Rooms \ dead' : Covered(s)
  BY <1>1 DEF CoverInv
<1>4. ASSUME NEW c \in Conns, CreateOccupy(c)  PROVE CoverInv'
  <2>1. ASSUME NEW s \in Rooms  PROVE Uncounted(s)' = Uncounted(s)
    BY <1>4 DEF CreateOccupy, Uncounted, TypeOK
  <2>. QED  BY <1>2, <1>3, <1>4, <2>1, NoticesFrame, CoverFrame DEF CreateOccupy, roomVars, CoverInv, Rooms
<1>5. ASSUME NEW c \in Conns, CreateDone(c) \/ JoinReply(c)  PROVE CoverInv'
  <2>. PICK r \in Rooms : r = room[c]
    BY DEF TypeOK
  <2>1. /\ c \in Uncounted(r) /\ pc' = [pc EXCEPT ![c] = "handed"] /\ room' = room
        /\ total' = [total EXCEPT ![r] = @ + 1]
        /\ heard' = heard /\ toParent' = toParent /\ owed' = owed
    BY <1>5 DEF CreateDone, JoinReply, Uncounted, roomVars
  <2>2. ASSUME NEW s \in Rooms
        PROVE  /\ s # r => Uncounted(s)' = Uncounted(s)
               /\ Uncounted(r)' = Uncounted(r) \ {c}
               /\ QuitNotices(s)' = QuitNotices(s)
    <3>1. /\ s # r => Uncounted(s)' = Uncounted(s)
          /\ Uncounted(r)' = Uncounted(r) \ {c}
      BY <2>1 DEF Uncounted, TypeOK
    <3>. QED  BY <2>1, <3>1, NoticesFrame
  <2>3. Cardinality(Uncounted(r)') = Cardinality(Uncounted(r)) - 1
    <3>1. IsFiniteSet(Uncounted(r))
      BY CountTypes
    <3>. QED  BY <2>1, <2>2, <3>1, FS_RemoveElement
  <2>4. total'[r] = total[r] + 1 /\ \A s \in Rooms \ {r} : total'[s] = total[s]
    BY <2>1 DEF TypeOK
  <2>5. ASSUME NEW s \in Rooms \ dead'  PROVE Covered(s)'
    <3>1. CASE s = r
      BY <1>2, <1>3, <2>2, <2>3, <2>4, <3>1, CountTypes DEF Covered
    <3>2. CASE s # r
      BY <1>2, <1>3, <2>2, <2>4, <3>2, CoverFrame
    <3>. QED  BY <3>1, <3>2
  <2>. QED  BY <2>5 DEF CoverInv, Rooms
<1>6. ASSUME pc' = pc  PROVE \A s \in Rooms : Uncounted(s)' = Uncounted(s)
  BY <1>1, <1>6 DEF Uncounted
<1>7. ASSUME pc' = pc, total' = total,
             \A s \in Rooms : QuitNotices(s)' = QuitNotices(s)
      PROVE  CoverInv'
  BY <1>2, <1>3, <1>6, <1>7, CoverFrame DEF CoverInv, Rooms
<1>8. ASSUME NEW s \in Rooms
      PROVE  QuitNotices(s)' = Quits(toParent'[s]) + Quits(owed'[s])
                               + (IF heard' = <<s, "Q">> THEN 1 ELSE 0)
  BY DEF QuitNotices, Quits
<1>9. ASSUME NEW r \in Rooms, Notify(r)  PROVE CoverInv'
  <2>1. /\ owed[r] # <<>> /\ owed[r] \in Seq({"E", "Q"}) /\ toParent[r] \in Seq({"E", "Q"})
        /\ toParent'[r] = Append(toParent[r], Head(owed[r])) /\ owed'[r] = Tail(owed[r])
        /\ \A s \in Rooms \ {r} : toParent'[s] = toParent[s] /\ owed'[s] = owed[s]
        /\ pc' = pc /\ total' = total /\ heard' = heard
    BY <1>9 DEF Notify, parentVars, workerVars, TypeOK
  <2>2. Head(owed[r]) \in {"E", "Q"} /\ Tail(owed[r]) \in Seq({"E", "Q"})
    BY <2>1, TailAt
  <2>3. /\ Quits(toParent'[r]) = Quits(toParent[r]) + (IF Head(owed[r]) = "Q" THEN 1 ELSE 0)
        /\ Quits(owed[r]) = Quits(owed'[r]) + (IF Head(owed[r]) = "Q" THEN 1 ELSE 0)
        /\ Quits(owed'[r]) \in Nat
    BY <2>1, <2>2, QuitsAppend, QuitsTail, QuitsType
  <2>4. QuitNotices(r)' = QuitNotices(r)
    <3>1. QuitNotices(r)' = Quits(toParent'[r]) + Quits(owed'[r])
                             + (IF heard = <<r, "Q">> THEN 1 ELSE 0)
      BY <1>8, <2>1
    <3>2. /\ QuitNotices(r) = Quits(toParent[r]) + Quits(owed[r])
                             + (IF heard = <<r, "Q">> THEN 1 ELSE 0)
          /\ Quits(toParent[r]) \in Nat /\ Quits(owed[r]) \in Nat
      BY CountTypes
    <3>. QED  BY <2>3, <3>1, <3>2
  <2>. QED  BY <1>7, <2>1, <2>4, NoticesFrame
<1>10. ASSUME NEW r \in Rooms, ReadNotice(r)  PROVE CoverInv'
  <2>1. /\ toParent[r] # <<>> /\ toParent[r] \in Seq({"E", "Q"}) /\ heard = <<>>
        /\ toParent'[r] = Tail(toParent[r]) /\ heard' = <<r, Head(toParent[r])>>
        /\ \A s \in Rooms \ {r} : toParent'[s] = toParent[s]
        /\ pc' = pc /\ total' = total /\ owed' = owed
    BY <1>10 DEF ReadNotice, workerVars, TypeOK
  <2>2. Quits(toParent[r]) = Quits(toParent'[r]) + (IF Head(toParent[r]) = "Q" THEN 1 ELSE 0)
    BY <2>1, QuitsTail
  <2>3. Quits(toParent'[r]) \in Nat
    BY <2>1, TailAt, QuitsType
  <2>4. QuitNotices(r)' = QuitNotices(r)
    BY <1>8, <2>1, <2>2, <2>3, CountTypes
  <2>5. \A s \in Rooms \ {r} : heard' # <<s, "Q">> /\ heard # <<s, "Q">>
    BY <2>1
  <2>. QED  BY <1>7, <2>1, <2>4, <2>5, NoticesFrame
<1>11. CASE RoomEmpty
  <2>1. /\ heard[2] = "E" /\ heard' = <<>>
        /\ pc' = pc /\ total' = total /\ toParent' = toParent /\ owed' = owed
    BY <1>11 DEF RoomEmpty, workerVars, roomVars
  <2>2. \A s \in Rooms : heard' # <<s, "Q">> /\ heard # <<s, "Q">>
    BY <2>1
  <2>. QED  BY <1>7, <2>1, <2>2, NoticesFrame
<1>12. CASE PartnerQuit
  <2>1. PICK r \in Rooms : heard = <<r, "Q">>
    BY <1>12 DEF PartnerQuit, TypeOK
  <2>2. /\ heard' = <<>> /\ total' = [total EXCEPT ![r] = @ - 1]
        /\ pc' = pc /\ toParent' = toParent /\ owed' = owed
    BY <1>12, <2>1 DEF PartnerQuit, workerVars, roomVars
  <2>3. total'[r] = total[r] - 1 /\ \A s \in Rooms \ {r} : total'[s] = total[s]
    BY <2>2 DEF TypeOK
  <2>4. QuitNotices(r)' = QuitNotices(r) - 1
    BY <1>8, <2>1, <2>2, CountTypes
  <2>5. ASSUME NEW s \in Rooms \ dead'  PROVE Covered(s)'
    <3>1. CASE s = r
      <4>1. /\ Here(r)' = Here(r) /\ (Between(r)' <=> Between(r))
            /\ Uncounted(r)' = Uncounted(r)
        BY <1>2, <1>6, <2>2
      <4>2. Covered(r)
        BY <1>3, <3>1
      <4>3. /\ Cardinality(Here(r)) \in Nat /\ Cardinality(Uncounted(r)) \in Nat
            /\ QuitNotices(r) \in Nat /\ total[r] \in Int
        BY CountTypes
      <4>. QED  BY <2>3, <2>4, <3>1, <4>1, <4>2, <4>3 DEF Covered
    <3>2. CASE s # r
      <4>1. heard' # <<s, "Q">> /\ heard # <<s, "Q">>
        BY <2>1, <2>2, <3>2
      <4>. QED  BY <1>2, <1>3, <1>6, <2>2, <2>3, <3>2, <4>1, NoticesFrame, CoverFrame
    <3>. QED  BY <3>1, <3>2
  <2>. QED  BY <2>5 DEF CoverInv, Rooms
<1>13. CASE (\E r \in Rooms : ParentQuits(r)) \/ UNCHANGED vars
  <2>1. UNCHANGED <<pc, total, toParent, owed, heard>>
    BY <1>13 DEF ParentQuits, vars, parentVars, workerVars, roomVars
  <2>. QED  BY <1>7, <2>1, NoticesFrame
<1>. QED  BY <1>4, <1>5, <1>9, <1>10, <1>11, <1>12, <1>13

\* Every step keeps the totals good.
LEMMA CoverStep ==
  ASSUME TypeOK, SeatInv, PipeInv, CoverInv, [Next]_vars
  PROVE  CoverInv'
<1>1. ASSUME NEW c \in Conns, Stays(c)  PROVE CoverInv'
  <2>1. UNCHANGED <<total, heard, toRoom, toParent, owner, owed, dead, meeting>>
    BY <1>1, StaysStep DEF roomVars
  <2>2. ASSUME NEW s \in Rooms \ dead'  PROVE Covered(s)'
    BY <1>1, <2>1, StaysPlaces, CoverElsewhere DEF CoverInv
  <2>. QED  BY <2>2 DEF CoverInv, Rooms
<1>. QED  BY <1>1, GiveCover, TakeCover, LeaveCover, CountCover, StepKinds

\* At first there is nobody to cover.
LEMMA CoverInit == Init => CoverInv
<1>. SUFFICES ASSUME Init, NEW r \in Rooms  PROVE Covered(r)
  BY DEF CoverInv
<1>1. toParent[r] = <<>> /\ owed[r] = <<>> /\ heard = <<>> /\ total[r] = 0 /\ meeting[r] = 0
  BY DEF Init
<1>2. Here(r) = {} /\ Uncounted(r) = {}
  BY DEF Init, Here, Members, Waiting, Uncounted
<1>3. QuitNotices(r) = Quits(toParent[r]) + Quits(owed[r])
                       + (IF heard = <<r, "Q">> THEN 1 ELSE 0)
  BY DEF QuitNotices, Quits
<1>4. QuitNotices(r) = 0
  BY <1>1, <1>3, QuitsOwed
<1>. QED  BY <1>1, <1>2, <1>4, FS_EmptySet DEF Covered, Between

\* The inductive invariant behind the totals holds whatever fails.
LEMMA CoverInductive == Spec => [](TypeOK /\ SeatInv /\ PipeInv /\ CoverInv)
<1>1. Init => SeatInv /\ PipeInv /\ CoverInv
  BY SeatInit, CoverInit
<1>2. TypeOK /\ (SeatInv /\ PipeInv /\ CoverInv) /\ [Next]_vars
        => (SeatInv /\ PipeInv /\ CoverInv)'
  BY SeatStep, PipeStep, CoverStep
<1>. QED  BY <1>1, <1>2, PoolTypeCorrect, PTL DEF Spec

\* Whatever the interleaving of workers, rooms and main, and whatever fails, the
\* total that JOIN_MEETING tests (userdeal.cpp:245) is never below the members a
\* living room has: the 'Q' of clear_room and fdclose (room.cpp) never take more
\* off it than the workers have put on it (main.cpp:99, userdeal.cpp:196).
THEOREM TotalNeverTooLow == Spec => []TotalCoversMembers
<1>1. ASSUME TypeOK, CoverInv, NEW r \in Rooms \ dead
      PROVE  total[r] + Cardinality(Uncounted(r))
               >= Cardinality(Members(r) \cup Waiting(r)) + QuitNotices(r)
  <2>1. Covered(r)
    BY <1>1 DEF CoverInv
  <2>. QED  BY <1>1, <2>1, CountTypes DEF Covered, Here
<1>2. TypeOK /\ CoverInv => TotalCoversMembers
  BY <1>1 DEF TotalCoversMembers
<1>. QED  BY <1>2, CoverInductive, PTL

-----------------------------------------------------------------------------
(* The limit of JOIN_MEETING *)

\* The phases of a worker that knows its room to be given away.
Knowing == Counting \cup {"join_check", "join_lock", "join_write"}

\* A room that is given away, or was when a worker looked, has had a meeting.
StartedInv ==
    /\ \A r \in Rooms : child_status[r] = 1 => meeting[r] > 0
    /\ \A c \in Conns : pc[c] \in Knowing => meeting[room[c]] > 0

\* No more connections are served than there are workers.
BusyInv == Cardinality(Busy) <= NThreads

\* The workers that passed the test of the limit and have not written yet.
Past(r) == {c \in Conns : room[c] = r /\ pc[c] \in {"join_lock", "join_write"}}

\* No owner is in the room or on its way there.
Vacant(r) == ~Creating(r) /\ ~Hosting(r)

\* Together with the workers past the test the members stay below the limit and
\* the workers, with a place left for an owner as long as there is none.
Limited(r) ==
    Cardinality(Here(r)) + Cardinality(Past(r)) + (IF Vacant(r) THEN 1 ELSE 0)
        <= MaxMembers + NThreads - 1

LimitInv == \A r \in Rooms \ dead : Limited(r)

\* A meeting once started is never forgotten.
LEMMA StartedStep ==
  ASSUME TypeOK, StartedInv, [Next]_vars
  PROVE  StartedInv'
<1>. USE DEF StartedInv, Knowing, Counting, TypeOK
<1>1. ASSUME meeting' = meeting, child_status' = child_status, NEW c \in Conns,
             \A d \in Conns \ {c} : pc'[d] = pc[d] /\ room'[d] = room[d],
             pc'[c] \in Knowing => pc[c] \in Knowing /\ room'[c] = room[c]
      PROVE  StartedInv'
  BY <1>1
<1>2. ASSUME NEW c \in Conns, Accept(c) \/ Hangup(c) \/ Unsupported(c) \/ CreateRequest(c)
      PROVE  StartedInv'
  BY <1>2 DEF Accept, Hangup, Unsupported, CreateRequest, roomVars, parentVars
<1>3. ASSUME NEW c \in Conns, NEW r \in Rooms, JoinRequest(c, r)  PROVE StartedInv'
  BY <1>3 DEF JoinRequest, roomVars, parentVars
<1>4. ASSUME NEW c \in Conns, BackToLobby(c), meeting' = meeting, child_status' = child_status
      PROVE  StartedInv'
  BY <1>4 DEF BackToLobby
<1>5. ASSUME NEW c \in Conns, CreateLock(c)  PROVE StartedInv'
  <2>1. CASE BackToLobby(c)
    BY <1>4, <1>5, <2>1 DEF CreateLock, roomVars
  <2>2. ASSUME NEW r \in Free, room' = [room EXCEPT ![c] = r],
               pc' = [pc EXCEPT ![c] = "create_write"]
        PROVE  StartedInv'
    BY <1>5, <2>2 DEF CreateLock, roomVars
  <2>. QED  BY <1>5, <2>1, <2>2 DEF CreateLock
<1>6. ASSUME NEW c \in Conns, CreateFails(c)  PROVE StartedInv'
  BY <1>6 DEF CreateFails, roomVars
<1>7. ASSUME NEW c \in Conns, CreateUnlock(c) \/ JoinFails(c)  PROVE StartedInv'
  BY <1>4, <1>7 DEF CreateUnlock, JoinFails, roomVars
<1>8. ASSUME NEW c \in Conns, JoinCheck(c)  PROVE StartedInv'
  <2>1. meeting' = meeting /\ child_status' = child_status
    BY <1>8 DEF JoinCheck, roomVars, parentVars
  <2>2. CASE BackToLobby(c)
    BY <1>4, <2>1, <2>2
  <2>3. CASE pc' = [pc EXCEPT ![c] = "join_lock"] /\ room' = room
    BY <1>8, <2>1, <2>3 DEF JoinCheck
  <2>. QED  BY <1>8, <2>2, <2>3 DEF JoinCheck
<1>9. ASSUME NEW c \in Conns, JoinLock(c)  PROVE StartedInv'
  BY <1>9 DEF JoinLock, roomVars
<1>10. ASSUME NEW c \in Conns, CreateWrite(c)  PROVE StartedInv'
  <2>1. /\ child_status' = child_status /\ room' = room
        /\ \A d \in Conns \ {c} : pc'[d] = pc[d]
    BY <1>10 DEF CreateWrite, parentVars
  <2>2. /\ \A r \in Rooms : meeting[r] > 0 => meeting'[r] > 0
        /\ meeting'[room[c]] > 0
    BY <1>10 DEF CreateWrite
  <2>. QED  BY <2>1, <2>2
<1>11. ASSUME NEW c \in Conns, JoinWrite(c)  PROVE StartedInv'
  BY <1>11 DEF JoinWrite, parentVars
<1>12. ASSUME NEW c \in Conns, CreateOccupy(c)  PROVE StartedInv'
  BY <1>12 DEF CreateOccupy, roomVars
<1>13. ASSUME NEW c \in Conns, CreateDone(c) \/ JoinReply(c)  PROVE StartedInv'
  BY <1>13 DEF CreateDone, JoinReply, roomVars
<1>14. CASE RoomEmpty
  BY <1>14 DEF RoomEmpty, workerVars, roomVars
<1>15. ASSUME UNCHANGED <<pc, room, child_status, meeting>>  PROVE StartedInv'
  BY <1>15
<1>16. ASSUME NEW r \in Rooms, RoomCreate(r) \/ RoomJoin(r) \/ RoomIgnores(r)
              \/ (\E c \in Conns : MemberLeaves(r, c)) \/ OwnerLeaves(r) \/ Die(r)
       PROVE  UNCHANGED <<pc, room, child_status, meeting>>
  BY <1>16 DEF RoomCreate, RoomJoin, RoomIgnores, MemberLeaves, OwnerLeaves, Die, parentVars
<1>17. ASSUME (\E r \in Rooms : Notify(r) \/ ReadNotice(r) \/ ParentQuits(r))
              \/ PartnerQuit \/ UNCHANGED vars
       PROVE  UNCHANGED <<pc, room, child_status, meeting>>
  BY <1>17 DEF Notify, ReadNotice, ParentQuits, PartnerQuit, vars, parentVars, workerVars,
     roomVars
<1>. HIDE DEF StartedInv, Knowing, Counting, TypeOK
<1>. QED
  BY <1>2, <1>3, <1>5, <1>6, <1>7, <1>8, <1>9, <1>10, <1>11, <1>12, <1>13, <1>14, <1>15,
     <1>16, <1>17, StepKinds DEF Stays

\* Only Accept adds to the connections that are served, and it looks first.
LEMMA BusyStep ==
  ASSUME TypeOK, BusyInv, [Next]_vars
  PROVE  BusyInv'
<1>. USE DEF TypeOK
<1>1. IsFiniteSet(Busy) /\ Cardinality(Busy) \in Nat
  BY ConnsCount DEF Busy
<1>2. ASSUME Busy' \subseteq Busy  PROVE BusyInv'
  <2>1. Cardinality(Busy') <= Cardinality(Busy) /\ Cardinality(Busy') \in Nat
    BY <1>1, <1>2, FS_Subset, FS_CardinalityType
  <2>. QED  BY <1>1, <2>1, PoolAssumption DEF BusyInv
<1>3. ASSUME NEW c \in Conns, Accept(c)  PROVE BusyInv'
  <2>1. Busy' \subseteq Busy \cup {c} /\ Cardinality(Busy) < NThreads
    BY <1>3 DEF Accept, Busy
  <2>2. /\ IsFiniteSet(Busy \cup {c}) /\ Cardinality(Busy \cup {c}) \in Nat
        /\ Cardinality(Busy \cup {c}) <= Cardinality(Busy) + 1
    <3>1. /\ IsFiniteSet(Busy \cup {c})
          /\ Cardinality(Busy \cup {c}) = IF c \in Busy THEN Cardinality(Busy)
                                                      ELSE Cardinality(Busy) + 1
      BY <1>1, FS_AddElement
    <3>. QED  BY <1>1, <3>1
  <2>3. Cardinality(Busy') <= Cardinality(Busy \cup {c}) /\ Cardinality(Busy') \in Nat
    BY <2>1, <2>2, FS_Subset, FS_CardinalityType
  <2>. QED  BY <1>1, <2>1, <2>2, <2>3, PoolAssumption DEF BusyInv
<1>4. ASSUME NEW c \in Conns, pc[c] \in Serving, \A d \in Conns \ {c} : pc'[d] = pc[d]
      PROVE  Busy' \subseteq Busy
  BY <1>4 DEF Busy
<1>5. ASSUME NEW c \in Conns, Stays(c), ~Accept(c)
      PROVE  pc[c] \in Serving /\ \A d \in Conns \ {c} : pc'[d] = pc[d]
  BY <1>5
     DEF Stays, Hangup, Unsupported, CreateRequest, JoinRequest, CreateLock, CreateFails,
         CreateUnlock, JoinCheck, JoinLock, JoinFails, BackToLobby, Serving
<1>6. ASSUME NEW c \in Conns, CreateWrite(c) \/ JoinWrite(c) \/ CreateOccupy(c)
              \/ CreateDone(c) \/ JoinReply(c)
      PROVE  pc[c] \in Serving /\ \A d \in Conns \ {c} : pc'[d] = pc[d]
  BY <1>6 DEF CreateWrite, JoinWrite, CreateOccupy, CreateDone, JoinReply, Serving
<1>7. ASSUME NEW c \in Conns, (Stays(c) /\ ~Accept(c)) \/ CreateWrite(c) \/ JoinWrite(c)
              \/ CreateOccupy(c) \/ CreateDone(c) \/ JoinReply(c)
      PROVE  Busy' \subseteq Busy
  BY <1>4, <1>5, <1>6, <1>7
<1>8. ASSUME pc' = pc  PROVE Busy' \subseteq Busy
  BY <1>8 DEF Busy
<1>9. ASSUME NEW r \in Rooms, RoomCreate(r) \/ RoomJoin(r) \/ RoomIgnores(r)
             \/ (\E c \in Conns : MemberLeaves(r, c)) \/ OwnerLeaves(r) \/ Die(r)
      PROVE  pc' = pc
  BY <1>9 DEF RoomCreate, RoomJoin, RoomIgnores, MemberLeaves, OwnerLeaves, Die
<1>10. ASSUME (\E r \in Rooms : Notify(r) \/ ReadNotice(r) \/ ParentQuits(r))
              \/ RoomEmpty \/ PartnerQuit \/ UNCHANGED vars
       PROVE  pc' = pc
  BY <1>10 DEF Notify, ReadNotice, ParentQuits, RoomEmpty, PartnerQuit, vars, workerVars
<1>. HIDE DEF TypeOK
<1>. QED  BY <1>2, <1>3, <1>7, <1>8, <1>9, <1>10, StepKinds

\* CREATE_MEETING writes to a room that is not given away and holds no trace.
LEMMA ReadyRoom ==
  ASSUME TypeOK, LockInv, TraceInv, ChoiceInv, NEW c \in Conns, CreateWrite(c)
  PROVE  /\ ~Occupied(room[c]) /\ ~Creating(room[c]) /\ ~Hosting(room[c])
         /\ ~Ending(room[c]) /\ ~Telling(room[c]) /\ ~Told(room[c])
<1>1. room[c] \in Rooms /\ child_status[room[c]] = 0 /\ lock = c
  BY DEF CreateWrite, TypeOK, ChoiceInv, LockInv, Locked
<1>2. \A d \in Conns : pc[d] # "create_occupy"
  BY <1>1 DEF CreateWrite, LockInv, Locked
<1>. QED  BY <1>1, <1>2 DEF TraceInv, RoomInv, Occupied

\* A step that adds nobody, and frees the owner's place only by taking somebody
\* away, keeps the limit.
LEMMA LimitFrame ==
  ASSUME TypeOK, NEW r \in Rooms, Limited(r),
         Past(r)' \subseteq Past(r), Here(r)' \subseteq Here(r),
         Vacant(r)' => Vacant(r) \/ Here(r)' # Here(r)
  PROVE  Limited(r)'
<1>1. /\ Cardinality(Here(r)') \in Nat /\ Cardinality(Here(r)') <= Cardinality(Here(r))
      /\ Here(r)' # Here(r) => Cardinality(Here(r)') # Cardinality(Here(r))
  BY CountTypes, FS_Subset, FS_CardinalityType
<1>2. IsFiniteSet(Past(r)) /\ Cardinality(Past(r)) \in Nat
  BY ConnsCount DEF Past
<1>3. Cardinality(Past(r)') \in Nat /\ Cardinality(Past(r)') <= Cardinality(Past(r))
  BY <1>2, FS_Subset, FS_CardinalityType
<1>. QED  BY <1>1, <1>2, <1>3, CountTypes, PoolAssumption DEF Limited

\* A worker that passes the test finds room for itself: those it cannot see in
\* the total are the other workers that passed the test or have not counted.
LEMMA CheckLimit ==
  ASSUME TypeOK, SeatInv, CoverInv, StartedInv, BusyInv, LimitInv,
         NEW c \in Conns, JoinCheck(c), NEW r \in Rooms \ dead
  PROVE  Limited(r)'
<1>1. /\ Here(r)' = Here(r) /\ Uncounted(r)' = Uncounted(r)
      /\ UNCHANGED <<toRoom, owner, dead, meeting>>
  BY StaysPlaces, StaysStep DEF Stays, roomVars
<1>2. Vacant(r)' <=> Vacant(r)
  BY <1>1, CreatingStep DEF Vacant, Hosting
<1>3. Limited(r)
  BY <1>1 DEF LimitInv
<1>4. pc[c] = "join_check" /\ \A d \in Conns \ {c} : pc'[d] = pc[d] /\ room'[d] = room[d]
  BY DEF JoinCheck, BackToLobby, TypeOK
<1>5. CASE Past(r)' \subseteq Past(r)
  BY <1>1, <1>2, <1>3, <1>5, LimitFrame
<1>6. CASE ~(Past(r)' \subseteq Past(r))
  <2>1. c \in Past(r)'
    BY <1>4, <1>6 DEF Past
  <2>2. pc'[c] = "join_lock" /\ room'[c] = r /\ room[c] = r /\ total[r] < MaxMembers
    BY <2>1, PoolAssumption DEF Past, JoinCheck, BackToLobby, TypeOK
  <2>3. Past(r)' = Past(r) \cup {c} /\ c \notin Past(r)
    BY <1>4, <2>2 DEF Past
  <2>4. IsFiniteSet(Past(r)) /\ Cardinality(Past(r)) \in Nat
    BY ConnsCount DEF Past
  <2>5. Cardinality(Past(r)') = Cardinality(Past(r)) + 1
    BY <2>3, <2>4, FS_AddElement
  <2>6. Cardinality(Uncounted(r)) + Cardinality(Past(r)) + 1 <= NThreads
    <3>1. Uncounted(r) \cap Past(r) = {} /\ c \notin Uncounted(r) \cup Past(r)
      BY <1>4 DEF Uncounted, Past
    <3>2. /\ IsFiniteSet(Uncounted(r) \cup Past(r))
          /\ Cardinality(Uncounted(r) \cup Past(r)) = Cardinality(Uncounted(r)) + Cardinality(Past(r))
      BY <2>4, <3>1, CountTypes, FS_Union, FS_EmptySet
    <3>3. Cardinality((Uncounted(r) \cup Past(r)) \cup {c})
            = Cardinality(Uncounted(r)) + Cardinality(Past(r)) + 1
      BY <3>1, <3>2, FS_AddElement
    <3>4. (Uncounted(r) \cup Past(r)) \cup {c} \subseteq Busy
      BY <1>4 DEF Uncounted, Past, Busy, Serving
    <3>5. IsFiniteSet(Busy) /\ Cardinality(Busy) \in Nat
      BY ConnsCount DEF Busy
    <3>6. Cardinality((Uncounted(r) \cup Past(r)) \cup {c}) <= Cardinality(Busy)
      BY <3>4, <3>5, FS_Subset
    <3>. QED  BY <2>4, <3>3, <3>5, <3>6, CountTypes, PoolAssumption DEF BusyInv
  <2>7. Cardinality(Here(r)) + (IF Vacant(r) THEN 1 ELSE 0) <= MaxMembers - 1 + Cardinality(Uncounted(r))
    <3>1. meeting[r] > 0
      BY <1>4, <2>2 DEF StartedInv, Knowing
    <3>2. Between(r) <=> Vacant(r)
      BY <3>1 DEF Between, Vacant
    <3>3. Covered(r)
      BY DEF CoverInv
    <3>. QED  BY <2>2, <3>2, <3>3, CountTypes, PoolAssumption DEF Covered
  <2>. QED  BY <1>1, <1>2, <2>4, <2>5, <2>6, <2>7, CountTypes, PoolAssumption DEF Limited
<1>. QED  BY <1>5, <1>6

\* What comes into a room had its place there: a guest as one of the workers
\* past the test, an owner because the room had none.
LEMMA GiveLimit ==
  ASSUME TypeOK, SeatInv, LockInv, TraceInv, ChoiceInv, LimitInv,
         NEW c \in Conns, CreateWrite(c) \/ JoinWrite(c), NEW r \in Rooms \ dead
  PROVE  Limited(r)'
<1>1. /\ pc[c] \in Unpassed /\ seat[c] = "none"
      /\ pc'[c] \in Counting /\ seat'[c] = "pipe"
      /\ \A d \in Conns \ {c} : pc'[d] = pc[d] /\ seat'[d] = seat[d]
      /\ UNCHANGED <<room, owner>>
  BY GiveStep
<1>2. PICK k \in {"C", "J"} :
        toRoom' = [toRoom EXCEPT ![room[c]] = Append(toRoom[room[c]], <<k, c>>)]
  BY GiveStep
<1>3. Limited(r)
  BY DEF LimitInv
<1>4. Past(r)' = Past(r) \ {c}
  <2>1. pc'[c] \notin {"join_lock", "join_write"}
    BY <1>1 DEF Counting
  <2>. QED  BY <1>1, <2>1 DEF Past
<1>5. CASE room[c] # r
  <2>1. Here(r)' = Here(r)
    BY <1>1, <1>5 DEF Here, Members, Waiting
  <2>2. toRoom'[r] = toRoom[r]
    BY <1>2, <1>5 DEF TypeOK
  <2>3. Vacant(r)' <=> Vacant(r)
    BY <1>1, <2>2, CreatingStep DEF Vacant, Hosting
  <2>. QED  BY <1>3, <1>4, <2>1, <2>3, LimitFrame
<1>6. CASE room[c] = r
  <2>1. Here(r)' = Here(r) \cup {c} /\ c \notin Here(r)
    BY <1>1, <1>6 DEF Here, Members, Waiting
  <2>2. Cardinality(Here(r)') = Cardinality(Here(r)) + 1
    BY <2>1, CountTypes, FS_AddElement
  <2>3. IsFiniteSet(Past(r)) /\ Cardinality(Past(r)) \in Nat
    BY ConnsCount DEF Past
  <2>4. Cardinality(Past(r)') = IF c \in Past(r) THEN Cardinality(Past(r)) - 1
                                               ELSE Cardinality(Past(r))
    BY <1>4, <2>3, FS_RemoveElement
  <2>5. CASE CreateWrite(c)
    <3>1. Vacant(r)
      BY <1>6, <2>5, ReadyRoom DEF Vacant
    <3>2. toRoom'[r] = Append(toRoom[r], <<"C", c>>)
      BY <1>6, <2>5 DEF CreateWrite, TypeOK
    <3>3. ~Vacant(r)'
      BY <3>2, CreatingStep DEF Vacant
    <3>. QED  BY <1>3, <2>2, <2>3, <2>4, <3>1, <3>3, CountTypes, PoolAssumption DEF Limited
  <2>6. CASE JoinWrite(c)
    <3>1. c \in Past(r)
      BY <1>6, <2>6 DEF JoinWrite, Past
    <3>2. toRoom'[r] = Append(toRoom[r], <<"J", c>>)
      BY <1>6, <2>6 DEF JoinWrite, TypeOK
    <3>3. Vacant(r)' <=> Vacant(r)
      BY <1>1, <3>2, CreatingStep DEF Vacant, Hosting
    <3>. QED  BY <1>3, <2>2, <2>3, <2>4, <3>1, <3>3, CountTypes, PoolAssumption DEF Limited
  <2>. QED  BY <2>5, <2>6
<1>. QED  BY <1>5, <1>6

\* Taking a descriptor adds nobody, and an owner's place becomes free only when
\* the room forgets the descriptor it takes.
LEMMA TakeLimit ==
  ASSUME TypeOK, SeatInv, PipeInv, LimitInv, NEW r \in Rooms,
         RoomCreate(r) \/ RoomJoin(r) \/ RoomIgnores(r), NEW s \in Rooms \ dead
  PROVE  Limited(s)'
<1>1. PICK c \in Conns :
         /\ toRoom[r] # <<>> /\ seat[c] = "pipe" /\ room[c] = r
         /\ Head(toRoom[r])[2] = c /\ seat'[c] \in {"room", "left", "lost"}
         /\ \A d \in Conns \ {c} : seat'[d] = seat[d]
         /\ toRoom' = [toRoom EXCEPT ![r] = Tail(@)]
         /\ UNCHANGED <<pc, room>>
  BY TakeStep
<1>2. Past(s)' = Past(s) /\ Here(s)' \subseteq Here(s)
  BY <1>1 DEF Past, Here, Members, Waiting
<1>3. Limited(s)
  BY DEF LimitInv
<1>4. Vacant(s)' => Vacant(s) \/ Here(s)' # Here(s)
  <2>1. CASE s # r
    <3>1. toRoom'[s] = toRoom[s] /\ owner'[s] = owner[s]
      BY <1>1, <2>1, TakeElsewhere
    <3>. QED  BY <3>1, CreatingStep DEF Vacant, Hosting
  <2>2. CASE s = r /\ RoomCreate(r)
    BY <2>2, CreateHosts DEF Vacant
  <2>3. CASE s = r /\ RoomJoin(r)
    <3>1. toRoom'[r] = Tail(toRoom[r]) /\ Head(toRoom[r])[1] = "J" /\ owner' = owner
      BY <1>1, <2>3 DEF RoomJoin, TypeOK
    <3>. QED  BY <1>1, <2>3, <3>1, CreatingStep DEF Vacant, Hosting
  <2>4. CASE s = r /\ RoomIgnores(r)
    <3>1. seat'[c] = "lost"
      BY <1>1, <2>4 DEF RoomIgnores, TypeOK
    <3>2. c \in Here(r) /\ c \notin Here(r)'
      BY <1>1, <3>1 DEF Here, Members, Waiting
    <3>. QED  BY <2>4, <3>2
  <2>. QED  BY <2>1, <2>2, <2>3, <2>4
<1>. QED  BY <1>2, <1>3, <1>4, LimitFrame

\* Leaving adds nobody either, and the owner leaves with the members.
LEMMA LeaveLimit ==
  ASSUME TypeOK, LimitInv, NEW r \in Rooms,
         (\E c \in Conns : MemberLeaves(r, c)) \/ OwnerLeaves(r) \/ Die(r),
         NEW s \in Rooms \ dead'
  PROVE  Limited(s)'
<1>1. /\ \A d \in Conns : seat'[d] = seat[d] \/ seat'[d] = "left"
      /\ dead \subseteq dead' /\ UNCHANGED <<pc, room, toRoom>>
  BY LeaveStep
<1>2. Past(s)' = Past(s) /\ Here(s)' \subseteq Here(s)
  BY <1>1 DEF Past, Here, Members, Waiting
<1>3. Limited(s)
  BY <1>1 DEF LimitInv
<1>4. Vacant(s)' => Vacant(s) \/ Here(s)' # Here(s)
  <2>1. ASSUME owner'[s] = owner[s]  PROVE Vacant(s)' => Vacant(s)
    BY <1>1, <2>1, CreatingStep DEF Vacant, Hosting
  <2>2. CASE \E c \in Conns : MemberLeaves(r, c)
    BY <2>1, <2>2 DEF MemberLeaves
  <2>3. CASE OwnerLeaves(r)
    <3>1. CASE s = r
      <4>1. owner[r] \in Members(r) /\ seat'[owner[r]] = "left"
        BY <2>3 DEF OwnerLeaves, Members
      <4>2. owner[r] \in Here(r) /\ owner[r] \notin Here(r)'
        BY <4>1 DEF Here, Members, Waiting
      <4>. QED  BY <3>1, <4>2
    <3>2. CASE s # r
      BY <2>1, <2>3, <3>2 DEF OwnerLeaves, TypeOK
    <3>. QED  BY <3>1, <3>2
  <2>4. CASE Die(r)
    <3>1. s # r
      BY <2>4 DEF Die
    <3>. QED  BY <2>1, <2>4, <3>1 DEF Die, TypeOK
  <2>. QED  BY <2>2, <2>3, <2>4
<1>. QED  BY <1>2, <1>3, <1>4, LimitFrame

\* Every step keeps the limit, as long as a room is given away once at a time.
LEMMA LimitStep ==
  ASSUME TypeOK, LockInv, TraceInv, ChoiceInv, SeatInv, PipeInv, CoverInv, StartedInv,
         BusyInv, LimitInv, [Next]_vars
  PROVE  LimitInv'
<1>1. ASSUME NEW c \in Conns, Stays(c)  PROVE LimitInv'
  <2>1. dead' = dead /\ toRoom' = toRoom /\ owner' = owner
    BY <1>1, StaysStep DEF roomVars
  <2>2. ASSUME NEW r \in Rooms \ dead  PROVE Limited(r)'
    <3>1. CASE JoinCheck(c)
      BY <3>1, CheckLimit
    <3>2. CASE ~JoinCheck(c)
      <4>1. /\ \A d \in Conns \ {c} : pc'[d] = pc[d] /\ room'[d] = room[d]
            /\ pc'[c] \in {"join_lock", "join_write"} => pc[c] = "join_lock" /\ room'[c] = room[c]
        BY <1>1, <3>2
           DEF Stays, Accept, Hangup, Unsupported, CreateRequest, JoinRequest, CreateLock,
               CreateFails, CreateUnlock, JoinLock, JoinFails, BackToLobby, TypeOK
      <4>2. Past(r)' \subseteq Past(r)
        BY <4>1 DEF Past
      <4>3. Here(r)' = Here(r)
        BY <1>1, StaysPlaces
      <4>4. Vacant(r)' <=> Vacant(r)
        BY <2>1, CreatingStep DEF Vacant, Hosting
      <4>. QED  BY <4>2, <4>3, <4>4, LimitFrame DEF LimitInv
    <3>. QED  BY <3>1, <3>2
  <2>. QED  BY <2>1, <2>2 DEF LimitInv, Rooms
<1>2. ASSUME NEW c \in Conns, CreateWrite(c) \/ JoinWrite(c)  PROVE LimitInv'
  <2>1. dead' = dead
    BY <1>2, GiveStep
  <2>. QED  BY <1>2, <2>1, GiveLimit DEF LimitInv, Rooms
<1>3. ASSUME NEW r \in Rooms, RoomCreate(r) \/ RoomJoin(r) \/ RoomIgnores(r)  PROVE LimitInv'
  <2>1. dead' = dead
    BY <1>3, TakeStep
  <2>. QED  BY <1>3, <2>1, TakeLimit DEF LimitInv, Rooms
<1>4. ASSUME NEW r \in Rooms, (\E c \in Conns : MemberLeaves(r, c)) \/ OwnerLeaves(r) \/ Die(r)
      PROVE  LimitInv'
  BY <1>4, LeaveLimit DEF LimitInv, Rooms
<1>5. CASE \/ \E c \in Conns : CreateOccupy(c) \/ CreateDone(c) \/ JoinReply(c)
           \/ \E r \in Rooms : Notify(r) \/ ReadNotice(r) \/ ParentQuits(r)
           \/ RoomEmpty \/ PartnerQuit \/ UNCHANGED vars
  <2>1. /\ UNCHANGED <<room, seat, toRoom, owner, dead>>
        /\ \A d \in Conns : pc'[d] = pc[d] \/ pc'[d] \in Counting \cup {"handed"}
    BY <1>5, OtherStep
  <2>2. ASSUME NEW s \in Rooms \ dead'  PROVE Limited(s)'
    <3>1. Here(s)' = Here(s)
      BY <2>1 DEF Here, Members, Waiting
    <3>2. Past(s)' \subseteq Past(s)
      BY <2>1 DEF Past, Counting
    <3>3. Vacant(s)' <=> Vacant(s)
      BY <2>1, CreatingStep DEF Vacant, Hosting
    <3>4. Limited(s)
      BY <2>1 DEF LimitInv
    <3>. QED  BY <3>1, <3>2, <3>3, <3>4, LimitFrame
  <2>. QED  BY <2>2 DEF LimitInv, Rooms
<1>. QED  BY <1>1, <1>2, <1>3, <1>4, <1>5, StepKinds

\* At first there is room for everybody.
LEMMA LimitInit == Init => StartedInv /\ BusyInv /\ LimitInv
<1>. SUFFICES ASSUME Init  PROVE StartedInv /\ BusyInv /\ LimitInv
  OBVIOUS
<1>1. StartedInv
  BY DEF Init, StartedInv, Knowing, Counting
<1>2. Busy = {}
  BY DEF Init, Busy, Serving
<1>3. BusyInv
  BY <1>2, FS_EmptySet, PoolAssumption DEF BusyInv
<1>4. ASSUME NEW r \in Rooms  PROVE Limited(r)
  <2>1. Here(r) = {} /\ Past(r) = {}
    BY DEF Init, Here, Members, Waiting, Past
  <2>. QED  BY <2>1, FS_EmptySet, PoolAssumption DEF Limited
<1>. QED  BY <1>1, <1>3, <1>4 DEF LimitInv

\* What the limit rests on: that the parent never undercounts, and that a room
\* is given away once at a time.
LEMMA LimitInductive ==
  ASSUME "write_fd" \notin Faults
  PROVE  Spec => [](TypeOK /\ StartedInv /\ LimitInv)
<1>1. Init => StartedInv /\ BusyInv /\ LimitInv
  BY LimitInit
<1>2. PoolInv /\ (TypeOK /\ SeatInv /\ PipeInv /\ CoverInv)
        /\ (StartedInv /\ BusyInv /\ LimitInv) /\ [Next]_vars
        => (StartedInv /\ BusyInv /\ LimitInv)'
  BY StartedStep, BusyStep, LimitStep DEF PoolInv
<1>. QED  BY <1>1, <1>2, PoolInductive, CoverInductive, PoolTypeCorrect, PTL DEF Spec

\* As long as sendmsg does not fail, a room has at most as many members as the
\* limit allows plus the workers that may pass its test together (userdeal.cpp:245
\* tests total without the lock), whatever else fails.
THEOREM OvershootBounded ==
  ASSUME "write_fd" \notin Faults
  PROVE  Spec => []AdmissionOvershoot
<1>1. ASSUME TypeOK, LimitInv, NEW r \in Rooms \ dead
      PROVE  Cardinality(Members(r) \cup Waiting(r)) <= MaxMembers + NThreads - 1
  <2>1. Limited(r)
    BY <1>1 DEF LimitInv
  <2>2. Cardinality(Past(r)) \in Nat
    BY ConnsCount DEF Past
  <2>. QED  BY <1>1, <2>1, <2>2, CountTypes, PoolAssumption DEF Limited, Here
<1>2. TypeOK /\ LimitInv => AdmissionOvershoot
  BY <1>1 DEF AdmissionOvershoot
<1>. QED  BY <1>2, LimitInductive, PTL

-----------------------------------------------------------------------------
(* Who is in a room, and when *)

\* The parent has given the room away, no owner is on its way there and no 'E'
\* on its way back.
Held(r) == Occupied(r) /\ ~Creating(r) /\ ~Ending(r) /\ ~Telling(r) /\ ~Told(r)

\* Only a room that is held has members, and only with their owner, unless it
\* misread the owner's command.
MemberInv ==
    \A r \in Rooms : Members(r) # {} => Held(r) /\ (Hosting(r) \/ "command" \in Faults)

\* Why a room lets guests in: it has an owner; or nobody comes before an owner
\* does; or the owner comes next; or it misread the owner's command.
Open(r) ==
    roomstatus[r] = "ON" =>
        \/ Hosting(r)
        \/ meeting[r] = 0 /\ toRoom[r] = <<>>
        \/ toRoom[r] # <<>> /\ Head(toRoom[r])[1] = "C"
        \/ "command" \in Faults /\ Held(r)

OpenInv == \A r \in Rooms \ dead : Open(r)

\* What the head of a socketpair has to do with the traces.
LEMMA HeadTrace ==
  ASSUME TypeOK, TraceInv, NEW r \in Rooms, toRoom[r] # <<>>
  PROVE  /\ Head(toRoom[r]) \in {"C", "J"} \X Conns
         /\ Head(toRoom[r])[1] = "C" =>
              /\ Creating(r) /\ Occupied(r)
              /\ ~Ending(r) /\ ~Telling(r) /\ ~Told(r)
         /\ toRoom'[r] = Tail(toRoom[r]) =>
              /\ Creating(r)' => Creating(r)
              /\ Head(toRoom[r])[1] = "C" => ~Creating(r)'
<1>1. toRoom[r] \in Seq({"C", "J"} \X Conns) /\ RoomInv(r)
  BY DEF TypeOK, TraceInv
<1>2. Head(toRoom[r]) \in {"C", "J"} \X Conns
  BY <1>1, TailAt
<1>3. Head(toRoom[r])[1] = "C" => Head(toRoom[r]) \in Creations
  BY <1>2 DEF Creations
<1>4. /\ Occurs(Tail(toRoom[r]), Creations) => Occurs(toRoom[r], Creations)
      /\ Head(toRoom[r]) \in Creations =>
           Occurs(toRoom[r], Creations) /\ ~Occurs(Tail(toRoom[r]), Creations)
  BY <1>1, RemoveHead DEF RoomInv
<1>5. Creating(r)' <=> Occurs(toRoom'[r], Creations)
  BY DEF Creating, Creations
<1>6. Creating(r) <=> Occurs(toRoom[r], Creations)
  BY DEF Creating
<1>. QED  BY <1>1, <1>2, <1>3, <1>4, <1>5, <1>6 DEF RoomInv

\* A room that is held stays held until its owner leaves.
LEMMA HeldStep ==
  ASSUME TypeOK, LockInv, TraceInv, ChoiceInv, SeatInv, PipeInv, [Next]_vars,
         NEW r \in Rooms, Held(r), ~OwnerLeaves(r)
  PROVE  Held(r)'
<1>1. ASSUME Occupied(r)', Creating(r)' => Creating(r), owed'[r] = owed[r],
             toParent'[r] = toParent[r], Told(r)' => Told(r)
      PROVE  Held(r)'
  BY <1>1 DEF Held, Ending, Telling
<1>2. ASSUME UNCHANGED <<pc, room, child_status>>  PROVE Occupied(r)'
  BY <1>2 DEF Held, Occupied
<1>3. ASSUME heard' = heard  PROVE Told(r)' => Told(r)
  BY <1>3 DEF Told
<1>4. ASSUME NEW c \in Conns, Stays(c)  PROVE Held(r)'
  <2>1. /\ UNCHANGED <<child_status, heard, toRoom, toParent, owed>>
        /\ pc[c] # "create_occupy" /\ \A d \in Conns \ {c} : pc'[d] = pc[d] /\ room'[d] = room[d]
    BY <1>4, StaysStep DEF roomVars, Counting
  <2>2. Occupied(r)'
    BY <2>1, OccupiedFrame DEF Held
  <2>. QED  BY <1>1, <1>3, <2>1, <2>2, CreatingStep
<1>5. ASSUME NEW c \in Conns, CreateWrite(c) \/ JoinWrite(c)  PROVE Held(r)'
  <2>1. /\ pc[c] # "create_occupy" /\ room' = room /\ \A d \in Conns \ {c} : pc'[d] = pc[d]
        /\ UNCHANGED <<child_status, heard, toParent, owed>>
    BY <1>5, GiveStep DEF parentVars, Unpassed
  <2>2. Occupied(r)'
    BY <2>1, OccupiedFrame DEF Held
  <2>3. Creating(r)' => Creating(r)
    <3>1. CASE CreateWrite(c)
      <4>1. room[c] # r
        BY <3>1, ReadyRoom DEF Held
      <4>2. toRoom'[r] = toRoom[r]
        BY <3>1, <4>1 DEF CreateWrite, TypeOK
      <4>. QED  BY <4>2, CreatingStep
    <3>2. CASE JoinWrite(c)
      <4>1. toRoom'[r] = toRoom[r] \/ toRoom'[r] = Append(toRoom[r], <<"J", c>>)
        BY <3>2 DEF JoinWrite, TypeOK
      <4>. QED  BY <4>1, CreatingStep
    <3>. QED  BY <1>5, <3>1, <3>2
  <2>. QED  BY <1>1, <1>3, <2>1, <2>2, <2>3
<1>6. ASSUME NEW s \in Rooms, RoomCreate(s) \/ RoomJoin(s) \/ RoomIgnores(s)  PROVE Held(r)'
  <2>1. /\ toRoom[s] # <<>> /\ toRoom' = [toRoom EXCEPT ![s] = Tail(@)]
        /\ UNCHANGED <<pc, room, toParent, owed, child_status, heard>>
    BY <1>6, TakeStep DEF parentVars
  <2>2. Creating(r)' => Creating(r)
    <3>1. CASE s = r
      BY <2>1, <3>1, HeadTrace DEF TypeOK
    <3>2. CASE s # r
      BY <2>1, <3>2, CreatingStep DEF TypeOK
    <3>. QED  BY <3>1, <3>2
  <2>. QED  BY <1>1, <1>2, <1>3, <2>1, <2>2
<1>7. ASSUME NEW s \in Rooms, (\E c \in Conns : MemberLeaves(s, c)) \/ OwnerLeaves(s) \/ Die(s)
      PROVE  Held(r)'
  <2>1. UNCHANGED <<pc, room, toRoom, toParent, child_status, heard>>
    BY <1>7, LeaveStep DEF parentVars
  <2>2. ~Ending(r)'
    <3>1. CASE owed'[r] = owed[r]
      BY <3>1 DEF Held, Ending
    <3>2. CASE owed'[r] # owed[r]
      <4>1. ~Die(s)
        BY <3>2 DEF Die
      <4>2. ASSUME OwnerLeaves(s)  PROVE FALSE
        <5>1. s # r
          BY <4>2
        <5>. QED  BY <3>2, <4>2, <5>1 DEF OwnerLeaves, TypeOK
      <4>3. PICK c \in Conns : MemberLeaves(s, c)
        BY <1>7, <4>1, <4>2
      <4>4. owed'[r] = <<"Q">>
        BY <3>2, <4>3 DEF MemberLeaves, TypeOK
      <4>5. ~Occurs(owed'[r], {"E"})
        BY <4>4 DEF Occurs
      <4>. QED  BY <4>5 DEF Ending
    <3>. QED  BY <3>1, <3>2
  <2>3. Creating(r)' => Creating(r)
    BY <2>1, CreatingStep
  <2>. QED  BY <1>2, <1>3, <2>1, <2>2, <2>3 DEF Held, Telling
<1>8. ASSUME NEW c \in Conns, CreateOccupy(c) \/ CreateDone(c) \/ JoinReply(c)  PROVE Held(r)'
  <2>1. UNCHANGED <<room, heard, toRoom, toParent, owed>>
    BY <1>8 DEF CreateOccupy, CreateDone, JoinReply, roomVars
  <2>2. Occupied(r)'
    <3>1. CASE CreateOccupy(c)
      BY <3>1 DEF CreateOccupy, Held, Occupied, TypeOK
    <3>2. CASE CreateDone(c) \/ JoinReply(c)
      <4>1. /\ pc[c] # "create_occupy" /\ child_status' = child_status /\ room' = room
            /\ pc' = [pc EXCEPT ![c] = "handed"] /\ pc \in [Conns -> Phases]
        BY <3>2 DEF CreateDone, JoinReply, TypeOK
      <4>. QED  BY <4>1, OccupiedFrame DEF Held
    <3>. QED  BY <1>8, <3>1, <3>2
  <2>. QED  BY <1>1, <1>3, <2>1, <2>2, CreatingStep
<1>9. ASSUME NEW s \in Rooms, Notify(s)  PROVE Held(r)'
  <2>1. UNCHANGED <<pc, room, child_status, heard, toRoom>>
    BY <1>9 DEF Notify, workerVars, parentVars
  <2>2. CASE s # r
    <3>1. owed'[r] = owed[r] /\ toParent'[r] = toParent[r]
      BY <1>9, <2>2 DEF Notify, TypeOK
    <3>. QED  BY <1>1, <1>2, <1>3, <2>1, <3>1, CreatingStep
  <2>3. CASE s = r
    <3>1. /\ owed[r] # <<>> /\ owed[r] \in Seq({"E", "Q"}) /\ toParent[r] \in Seq({"E", "Q"})
          /\ owed'[r] = Tail(owed[r]) /\ toParent'[r] = Append(toParent[r], Head(owed[r]))
      BY <1>9, <2>3 DEF Notify, TypeOK
    <3>2. /\ AtMostOnce(owed[r], {"E"}) /\ ~Occurs(owed[r], {"E"}) /\ ~Occurs(toParent[r], {"E"})
      BY DEF Held, Ending, Telling, TraceInv, RoomInv
    <3>3. Head(owed[r]) \notin {"E"} /\ ~Occurs(owed'[r], {"E"})
      BY <3>1, <3>2, RemoveHead
    <3>4. Head(owed[r]) \in {"E", "Q"}
      BY <3>1, TailAt
    <3>5. ~Occurs(toParent'[r], {"E"})
      BY <3>1, <3>2, <3>3, <3>4, AppendOther
    <3>. QED  BY <1>2, <1>3, <2>1, <3>3, <3>5, CreatingStep DEF Held, Ending, Telling
  <2>. QED  BY <2>2, <2>3
<1>10. ASSUME NEW s \in Rooms, ReadNotice(s)  PROVE Held(r)'
  <2>1. UNCHANGED <<pc, room, child_status, owed, toRoom>>
    BY <1>10 DEF ReadNotice, workerVars
  <2>2. CASE s # r
    <3>1. toParent'[r] = toParent[r] /\ ~Told(r)'
      BY <1>10, <2>2 DEF ReadNotice, Told, TypeOK
    <3>. QED  BY <1>1, <1>2, <2>1, <3>1, CreatingStep
  <2>3. CASE s = r
    <3>1. /\ toParent[r] # <<>> /\ toParent[r] \in Seq({"E", "Q"})
          /\ toParent'[r] = Tail(toParent[r]) /\ heard' = <<r, Head(toParent[r])>>
      BY <1>10, <2>3 DEF ReadNotice, TypeOK
    <3>2. AtMostOnce(toParent[r], {"E"}) /\ ~Occurs(toParent[r], {"E"})
      BY DEF Held, Telling, TraceInv, RoomInv
    <3>3. Head(toParent[r]) \notin {"E"} /\ ~Occurs(toParent'[r], {"E"})
      BY <3>1, <3>2, RemoveHead
    <3>4. ~Told(r)'
      BY <3>1, <3>3 DEF Told
    <3>. QED  BY <1>2, <2>1, <3>3, <3>4, CreatingStep DEF Held, Ending, Telling
  <2>. QED  BY <2>2, <2>3
<1>11. CASE RoomEmpty
  <2>1. PICK s \in Rooms : heard = <<s, "E">>
    BY <1>11 DEF RoomEmpty, TypeOK
  <2>2. s # r
    BY <2>1 DEF Held, Told
  <2>3. /\ child_status'[r] = child_status[r] /\ heard' = <<>>
        /\ UNCHANGED <<pc, room, toRoom, toParent, owed>>
    BY <1>11, <2>1, <2>2 DEF RoomEmpty, workerVars, roomVars, TypeOK
  <2>4. Occupied(r)' /\ ~Told(r)'
    BY <2>3 DEF Held, Occupied, Told
  <2>. QED  BY <1>1, <2>3, <2>4, CreatingStep
<1>12. CASE PartnerQuit
  <2>1. heard' = <<>> /\ UNCHANGED <<pc, room, child_status, toRoom, toParent, owed>>
    BY <1>12 DEF PartnerQuit, workerVars, roomVars
  <2>2. ~Told(r)'
    BY <2>1 DEF Told
  <2>. QED  BY <1>1, <1>2, <2>1, <2>2, CreatingStep
<1>13. CASE (\E s \in Rooms : ParentQuits(s)) \/ UNCHANGED vars
  <2>1. UNCHANGED <<pc, room, child_status, heard, toRoom, toParent, owed>>
    BY <1>13 DEF ParentQuits, vars, parentVars, workerVars, roomVars
  <2>. QED  BY <1>1, <1>2, <1>3, <2>1, CreatingStep
<1>. QED  BY <1>4, <1>5, <1>6, <1>7, <1>8, <1>9, <1>10, <1>11, <1>12, <1>13, StepKinds

\* What the owner's leaving leaves behind.
LEMMA OwnerGone ==
  ASSUME TypeOK, NEW r \in Rooms, OwnerLeaves(r)
  PROVE  Members(r)' = {} /\ roomstatus'[r] = "CLOSE"
BY DEF OwnerLeaves, Members, TypeOK

\* Members come to a room with its owner or while it is open, and stay while it
\* is held.
LEMMA MemberStep ==
  ASSUME TypeOK, LockInv, TraceInv, ChoiceInv, SeatInv, PipeInv, MemberInv, OpenInv,
         [Next]_vars
  PROVE  MemberInv'
<1>. SUFFICES ASSUME NEW r \in Rooms, Members(r)' # {}
              PROVE  Held(r)' /\ (Hosting(r)' \/ "command" \in Faults)
  BY DEF MemberInv
<1>1. Held(r) => Held(r)'
  BY OwnerGone, HeldStep
<1>2. ASSUME Held(r), Hosting(r)' \/ "command" \in Faults
      PROVE  Held(r)' /\ (Hosting(r)' \/ "command" \in Faults)
  BY <1>1, <1>2
<1>3. ASSUME Members(r)' \subseteq Members(r), owner'[r] = owner[r]
      PROVE  Held(r)' /\ (Hosting(r)' \/ "command" \in Faults)
  BY <1>1, <1>3 DEF MemberInv, Hosting
<1>4. ASSUME NEW c \in Conns, Stays(c)
      PROVE  Held(r)' /\ (Hosting(r)' \/ "command" \in Faults)
  BY <1>3, <1>4, StaysPlaces, StaysStep DEF roomVars
<1>5. ASSUME NEW c \in Conns, CreateWrite(c) \/ JoinWrite(c)
      PROVE  Held(r)' /\ (Hosting(r)' \/ "command" \in Faults)
  <2>1. /\ seat'[c] = "pipe" /\ \A d \in Conns \ {c} : seat'[d] = seat[d]
        /\ UNCHANGED <<room, owner>>
    BY <1>5, GiveStep
  <2>2. Members(r)' \subseteq Members(r)
    BY <2>1 DEF Members
  <2>. QED  BY <1>3, <2>1, <2>2
<1>6. ASSUME NEW s \in Rooms, RoomCreate(s) \/ RoomJoin(s) \/ RoomIgnores(s)
      PROVE  Held(r)' /\ (Hosting(r)' \/ "command" \in Faults)
  <2>1. PICK c \in Conns :
          /\ toRoom[s] # <<>> /\ Head(toRoom[s])[2] = c
          /\ Head(toRoom[s]) \in {"C", "J"} \X Conns
          /\ room[c] = s /\ \A d \in Conns \ {c} : seat'[d] = seat[d]
          /\ toRoom' = [toRoom EXCEPT ![s] = Tail(@)] /\ s \notin dead
          /\ UNCHANGED <<pc, room, toParent, owed, parentVars>>
    BY <1>6, TakeStep
  <2>2. CASE s # r
    <3>1. Members(r)' \subseteq Members(r)
      BY <2>1, <2>2 DEF Members
    <3>2. owner'[r] = owner[r]
      BY <1>6, <2>2 DEF RoomCreate, RoomJoin, RoomIgnores, TypeOK
    <3>. QED  BY <1>3, <3>1, <3>2
  <2>3. CASE s = r /\ RoomCreate(r)
    <3>1. Head(toRoom[r])[1] = "C" /\ owner'[r] = c /\ toRoom'[r] = Tail(toRoom[r])
      BY <2>1, <2>3 DEF RoomCreate, TypeOK
    <3>2. Occupied(r) /\ ~Ending(r) /\ ~Telling(r) /\ ~Told(r) /\ ~Creating(r)'
      BY <2>1, <2>3, <3>1, HeadTrace
    <3>3. Occupied(r)' /\ ~Ending(r)' /\ ~Telling(r)' /\ ~Told(r)'
      BY <2>1, <3>2 DEF Occupied, Ending, Telling, Told, parentVars
    <3>4. Hosting(r)'
      BY <3>1, PoolAssumption DEF Hosting
    <3>. QED  BY <3>2, <3>3, <3>4 DEF Held
  <2>4. CASE s = r /\ RoomJoin(r)
    <3>1. owner'[r] = owner[r] /\ Head(toRoom[r])[1] = "J" /\ toRoom[r] # <<>>
      BY <2>4 DEF RoomJoin
    <3>2. CASE roomstatus[r] = "CLOSE"
      <4>1. Members(r)' \subseteq Members(r)
        BY <2>1, <2>4, <3>2 DEF RoomJoin, Members, TypeOK
      <4>. QED  BY <1>3, <3>1, <4>1
    <3>3. CASE roomstatus[r] = "ON"
      <4>1. Open(r)
        BY <2>1, <2>4 DEF OpenInv
      <4>2. Hosting(r) \/ ("command" \in Faults /\ Held(r))
        BY <3>1, <3>3, <4>1 DEF Open
      <4>3. Hosting(r) => Held(r)
        BY DEF TraceInv, RoomInv, Held
      <4>. QED  BY <1>2, <3>1, <4>2, <4>3 DEF Hosting
    <3>. QED  BY <3>2, <3>3, <2>4 DEF TypeOK
  <2>5. CASE s = r /\ RoomIgnores(r)
    <3>1. seat'[c] = "lost" /\ owner' = owner
      BY <2>1, <2>5 DEF RoomIgnores, TypeOK
    <3>2. Members(r)' \subseteq Members(r)
      BY <2>1, <3>1 DEF Members
    <3>. QED  BY <1>3, <3>1, <3>2
  <2>. QED  BY <1>6, <2>2, <2>3, <2>4, <2>5
<1>7. ASSUME NEW s \in Rooms, (\E c \in Conns : MemberLeaves(s, c)) \/ OwnerLeaves(s) \/ Die(s)
      PROVE  Held(r)' /\ (Hosting(r)' \/ "command" \in Faults)
  <2>1. /\ \A d \in Conns : seat'[d] = seat[d] \/ seat'[d] = "left"
        /\ room' = room
    BY <1>7, LeaveStep
  <2>2. Members(r)' \subseteq Members(r)
    BY <2>1 DEF Members
  <2>3. ~OwnerLeaves(r)
    BY OwnerGone
  <2>4. s # r \/ ~Die(s)
    <3>1. ASSUME Die(r)  PROVE Members(r)' = {}
      BY <3>1 DEF Die, Members, TypeOK
    <3>. QED  BY <3>1
  <2>5. owner'[r] = owner[r]
    <3>1. CASE OwnerLeaves(s)
      <4>1. s # r
        BY <2>3, <3>1
      <4>. QED  BY <3>1, <4>1 DEF OwnerLeaves, TypeOK
    <3>2. CASE Die(s)
      BY <2>4, <3>2 DEF Die, TypeOK
    <3>3. CASE \E c \in Conns : MemberLeaves(s, c)
      BY <3>3 DEF MemberLeaves
    <3>. QED  BY <1>7, <3>1, <3>2, <3>3
  <2>. QED  BY <1>3, <2>2, <2>5
<1>8. ASSUME \/ \E c \in Conns : CreateOccupy(c) \/ CreateDone(c) \/ JoinReply(c)
             \/ \E s \in Rooms : Notify(s) \/ ReadNotice(s) \/ ParentQuits(s)
             \/ RoomEmpty \/ PartnerQuit \/ UNCHANGED vars
      PROVE  Held(r)' /\ (Hosting(r)' \/ "command" \in Faults)
  <2>1. UNCHANGED <<room, seat, owner>>
    BY <1>8, OtherStep
  <2>. QED  BY <1>3, <2>1 DEF Members
<1>. QED  BY <1>4, <1>5, <1>6, <1>7, <1>8, StepKinds

\* An open room stays open for a reason.
LEMMA OpenStep ==
  ASSUME TypeOK, LockInv, TraceInv, ChoiceInv, SeatInv, PipeInv, StartedInv, OpenInv,
         [Next]_vars
  PROVE  OpenInv'
<1>. SUFFICES ASSUME NEW r \in Rooms \ dead', roomstatus'[r] = "ON"
              PROVE  Open(r)'
  BY DEF OpenInv, Open
<1>1. Held(r) => Held(r)'
  BY OwnerGone, HeldStep
<1>2. ASSUME r \notin dead,
             UNCHANGED <<toRoom[r], owner[r], meeting[r], roomstatus[r]>>
      PROVE  Open(r)'
  <2>1. Open(r)
    BY <1>2 DEF OpenInv
  <2>. QED  BY <1>1, <1>2, <2>1 DEF Open, Hosting
<1>3. ASSUME NEW c \in Conns, Stays(c)  PROVE Open(r)'
  BY <1>2, <1>3, StaysStep DEF roomVars
<1>4. ASSUME NEW c \in Conns, CreateWrite(c) \/ JoinWrite(c)  PROVE Open(r)'
  <2>1. PICK k \in {"C", "J"} :
          toRoom' = [toRoom EXCEPT ![room[c]] = Append(toRoom[room[c]], <<k, c>>)]
    BY <1>4, GiveStep
  <2>2. UNCHANGED <<owner, roomstatus, dead>> /\ room[c] \in Rooms
        /\ meeting \in [Rooms -> Nat] /\ toRoom \in [Rooms -> Seq({"C", "J"} \X Conns)]
    BY <1>4, GiveStep DEF TypeOK
  <2>3. Open(r)
    BY <2>2 DEF OpenInv
  <2>4. CASE room[c] # r
    <3>1. meeting'[r] = meeting[r]
      BY <1>4, <2>2, <2>4 DEF CreateWrite, JoinWrite
    <3>2. toRoom'[r] = toRoom[r]
      BY <2>1, <2>2, <2>4
    <3>. QED  BY <1>2, <2>2, <3>1, <3>2
  <2>5. CASE room[c] = r
    <3>1. toRoom'[r] = Append(toRoom[r], <<k, c>>)
      BY <2>1, <2>2, <2>5
    <3>2. /\ toRoom'[r] # <<>>
          /\ toRoom[r] # <<>> => Head(toRoom'[r]) = Head(toRoom[r])
          /\ toRoom[r] = <<>> => Head(toRoom'[r]) = <<k, c>>
      <4>1. <<k, c>> \in {"C", "J"} \X Conns /\ toRoom[r] \in Seq({"C", "J"} \X Conns)
        BY <2>2
      <4>. QED  BY <3>1, <4>1, AppendHead
    <3>3. CASE CreateWrite(c)
      <4>1. ~Occupied(r) /\ ~Creating(r) /\ ~Hosting(r)
        BY <2>5, <3>3, ReadyRoom
      <4>2. toRoom[r] = <<>> \/ Head(toRoom[r])[1] # "C"
        BY <4>1, HeadTrace
      <4>3. toRoom[r] = <<>>
        BY <2>2, <2>3, <4>1, <4>2 DEF Open, Held
      <4>4. k = "C"
        <5>1. toRoom'[r] = Append(toRoom[r], <<"C", c>>)
          BY <2>2, <2>5, <3>3 DEF CreateWrite
        <5>. QED  BY <3>1, <4>3, <5>1
      <4>. QED  BY <3>2, <4>3, <4>4 DEF Open
    <3>4. CASE JoinWrite(c)
      <4>1. meeting[r] > 0
        BY <2>5, <3>4 DEF JoinWrite, StartedInv, Knowing
      <4>2. Hosting(r) \/ (toRoom[r] # <<>> /\ Head(toRoom[r])[1] = "C")
              \/ ("command" \in Faults /\ Held(r))
        BY <2>2, <2>3, <4>1 DEF Open
      <4>. QED  BY <1>1, <2>2, <3>2, <4>2 DEF Open, Hosting
    <3>. QED  BY <1>4, <3>3, <3>4
  <2>. QED  BY <2>4, <2>5
<1>5. ASSUME NEW s \in Rooms, RoomCreate(s) \/ RoomJoin(s) \/ RoomIgnores(s)  PROVE Open(r)'
  <2>1. /\ toRoom[s] # <<>> /\ toRoom' = [toRoom EXCEPT ![s] = Tail(@)] /\ s \notin dead
        /\ UNCHANGED <<pc, room, toParent, owed, parentVars>>
    BY <1>5, TakeStep
  <2>2. dead' = dead
    BY <1>5 DEF RoomCreate, RoomJoin, RoomIgnores
  <2>3. CASE s # r
    <3>1. UNCHANGED <<owner[r], meeting[r], roomstatus[r]>>
      BY <1>5, <2>3 DEF RoomCreate, RoomJoin, RoomIgnores, TypeOK
    <3>2. toRoom'[r] = toRoom[r]
      BY <2>1, <2>3 DEF TypeOK
    <3>. QED  BY <1>2, <2>2, <3>1, <3>2
  <2>4. CASE s = r /\ RoomCreate(r)
    <3>1. owner'[r] = Head(toRoom[r])[2] /\ Head(toRoom[r]) \in {"C", "J"} \X Conns
      BY <2>1, <2>4, HeadTrace DEF RoomCreate, TypeOK
    <3>2. Hosting(r)'
      BY <3>1, PoolAssumption DEF Hosting
    <3>. QED  BY <3>2 DEF Open
  <2>5. CASE s = r /\ (RoomJoin(r) \/ RoomIgnores(r))
    <3>1. UNCHANGED <<owner, meeting, roomstatus>> /\ toRoom'[r] = Tail(toRoom[r])
      BY <2>1, <2>5 DEF RoomJoin, RoomIgnores, TypeOK
    <3>2. Open(r)
      BY <2>2 DEF OpenInv
    <3>3. CASE Hosting(r) \/ ("command" \in Faults /\ Held(r))
      BY <1>1, <3>1, <3>3 DEF Open, Hosting
    <3>4. CASE Head(toRoom[r])[1] = "C"
      <4>1. "command" \in Faults
        BY <2>5, <3>4 DEF RoomJoin, RoomIgnores
      <4>2. /\ Occupied(r) /\ ~Ending(r) /\ ~Telling(r) /\ ~Told(r) /\ ~Creating(r)'
        BY <2>1, <2>5, <3>1, <3>4, HeadTrace
      <4>3. Occupied(r)' /\ ~Ending(r)' /\ ~Telling(r)' /\ ~Told(r)'
        BY <2>1, <4>2 DEF Occupied, Ending, Telling, Told, parentVars
      <4>. QED  BY <4>1, <4>2, <4>3 DEF Open, Held
    <3>. QED  BY <2>1, <2>5, <3>1, <3>2, <3>3, <3>4 DEF Open
  <2>. QED  BY <1>5, <2>3, <2>4, <2>5
<1>6. ASSUME NEW s \in Rooms, (\E c \in Conns : MemberLeaves(s, c)) \/ OwnerLeaves(s) \/ Die(s)
      PROVE  Open(r)'
  <2>1. dead \subseteq dead' /\ UNCHANGED <<toRoom, meeting>>
    BY <1>6, LeaveStep
  <2>2. CASE OwnerLeaves(s)
    <3>1. s # r
      BY <2>2, OwnerGone
    <3>2. owner'[r] = owner[r] /\ roomstatus'[r] = roomstatus[r]
      BY <2>2, <3>1 DEF OwnerLeaves, TypeOK
    <3>. QED  BY <1>2, <2>1, <3>2
  <2>3. CASE Die(s)
    <3>1. s # r /\ roomstatus' = roomstatus
      BY <2>3 DEF Die
    <3>2. owner'[r] = owner[r]
      BY <2>3, <3>1 DEF Die, TypeOK
    <3>. QED  BY <1>2, <2>1, <3>1, <3>2
  <2>4. CASE \E c \in Conns : MemberLeaves(s, c)
    <3>1. owner' = owner /\ roomstatus' = roomstatus
      BY <2>4 DEF MemberLeaves
    <3>. QED  BY <1>2, <2>1, <3>1
  <2>. QED  BY <1>6, <2>2, <2>3, <2>4
<1>7. ASSUME \/ \E c \in Conns : CreateOccupy(c) \/ CreateDone(c) \/ JoinReply(c)
             \/ \E s \in Rooms : Notify(s) \/ ReadNotice(s) \/ ParentQuits(s)
             \/ RoomEmpty \/ PartnerQuit \/ UNCHANGED vars
      PROVE  Open(r)'
  BY <1>2, <1>7, OtherStep
<1>. QED  BY <1>3, <1>4, <1>5, <1>6, <1>7, StepKinds

LEMMA RoomsInit == Init => MemberInv /\ OpenInv
<1>. SUFFICES ASSUME Init, NEW r \in Rooms  PROVE Members(r) = {} /\ Open(r)
  BY DEF MemberInv, OpenInv
<1>1. Members(r) = {}
  BY DEF Init, Members
<1>2. Open(r)
  BY DEF Init, Open
<1>. QED  BY <1>1, <1>2

\* What a room's members rest on.
LEMMA RoomsInductive ==
  ASSUME "write_fd" \notin Faults
  PROVE  Spec => [](PoolInv /\ SeatInv /\ PipeInv /\ StartedInv /\ MemberInv /\ OpenInv)
<1>1. Init => MemberInv /\ OpenInv
  BY RoomsInit
<1>2. PoolInv /\ (TypeOK /\ SeatInv /\ PipeInv /\ CoverInv) /\ (TypeOK /\ StartedInv /\ LimitInv)
        /\ (MemberInv /\ OpenInv) /\ [Next]_vars
        => (MemberInv /\ OpenInv)'
  BY MemberStep, OpenStep DEF PoolInv
<1>. QED  BY <1>1, <1>2, PoolInductive, CoverInductive, LimitInductive, PTL DEF Spec

\* The descriptors of owners in a room's socketpair.
LEMMA QueuedOwners ==
  ASSUME TypeOK, NEW r \in Rooms
  PROVE  Queued(r, "C") # {} => Creating(r)
<1>. SUFFICES ASSUME NEW c \in Queued(r, "C")  PROVE Creating(r)
  OBVIOUS
<1>1. PICK i \in 1..Len(toRoom[r]) : toRoom[r][i] = <<"C", c>>
  BY DEF Queued
<1>2. <<"C", c>> \in Creations
  BY DEF Creations, Queued, Waiting
<1>. QED  BY <1>1, <1>2 DEF Creating, Occurs

\* As long as sendmsg does not fail, a room the parent holds ready is empty
\* (main.cpp:94, userdeal.cpp:191): nobody is in it, no owner on his way to it,
\* and no 'E' on its way back that would make it ready a second time, whatever
\* room processes die and whatever commands they misread.
THEOREM ReadyRoomsAreEmpty ==
  ASSUME "write_fd" \notin Faults
  PROVE  Spec => []ReadyRoomIsEmpty
<1>1. ASSUME TypeOK, TraceInv, MemberInv, NEW r \in Free,
             \A c \in Conns : room[c] = r => pc[c] # "create_occupy"
      PROVE  /\ owner[r] = NoConn
             /\ Members(r) = {}
             /\ Queued(r, "C") = {}
             /\ \A i \in 1..Len(toParent[r]) : toParent[r][i] # "E"
             /\ \A i \in 1..Len(owed[r]) : owed[r][i] # "E"
             /\ heard # <<r, "E">>
  <2>1. r \in Rooms /\ ~Occupied(r)
    BY <1>1 DEF Free, Occupied
  <2>2. ~Creating(r) /\ ~Hosting(r) /\ ~Ending(r) /\ ~Telling(r) /\ ~Told(r)
    BY <1>1, <2>1 DEF TraceInv, RoomInv
  <2>3. Members(r) = {}
    BY <1>1, <2>1 DEF MemberInv, Held
  <2>4. Queued(r, "C") = {}
    BY <1>1, <2>1, <2>2, QueuedOwners
  <2>. QED  BY <2>2, <2>3, <2>4 DEF Hosting, Ending, Telling, Told, Occurs
<1>2. PoolInv /\ MemberInv => ReadyRoomIsEmpty
  BY <1>1 DEF PoolInv, ReadyRoomIsEmpty
<1>. QED  BY <1>2, RoomsInductive, PTL

=============================================================================
