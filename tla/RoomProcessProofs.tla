------------------------- MODULE RoomProcessProofs --------------------------
(***************************************************************************)
(* Theorems about RoomProcess, for any clients, descriptors, sender        *)
(* threads, requests and bounds that RoomAssumption allows: meeting after  *)
(* meeting, with clients that come back.  The last three are about a       *)
(* room's first meeting.                                                   *)
(***************************************************************************)
EXTENDS RoomProcess, FiniteSetTheorems, SequenceTheorems, WellFoundedInduction, TLAPS

(* Descriptors *)

\* A set of numbers that is not empty has a least one.
LEMMA MinExists ==
  ASSUME NEW S \in SUBSET Nat, S # {}
  PROVE  Min(S) \in S /\ \A n \in S : Min(S) <= n
<1>1. PICK m \in S : \A n \in S : <<n, m>> \notin OpToRel(<, Nat)
  BY NatLessThanWellFounded, WFMin
<1>2. ASSUME NEW n \in S  PROVE m <= n
  <2>1. n < m => <<n, m>> \in OpToRel(<, Nat)
    BY DEF OpToRel
  <2>2. ~ n < m
    BY <1>1, <2>1
  <2>. QED  BY <2>2
<1>3. \E x \in S : \A y \in S : x <= y
  BY <1>2
<1>. QED  BY <1>3 DEF Min

LEMMA FdsAreNumbers ==
  /\ Fds \subseteq Nat
  /\ \A fd \in Fds : fd # 0
  /\ IsFiniteSet(Fds)
  /\ Cardinality(Fds) = NFds
  /\ 1 \in Fds
<1>1. Cardinality(Clients) \in Nat /\ NFds \in Nat /\ NFds > Cardinality(Clients)
  BY RoomAssumption, FS_CardinalityType DEF RoomAssumption
<1>2. IsFiniteSet(1..NFds) /\ Cardinality(1..NFds) = NFds
  <2>1. 1 \in Int /\ NFds \in Int /\ ~ 1 > NFds
    BY <1>1
  <2>2. IsFiniteSet(1..NFds) /\ Cardinality(1..NFds) = IF 1 > NFds THEN 0 ELSE NFds - 1 + 1
    BY <2>1, FS_Interval
  <2>. QED  BY <2>1, <2>2, <1>1
<1>. QED  BY <1>1, <1>2 DEF Fds

\* Clients are in one place at most: one descriptor, or one place in the socketpair.
OnePlace ==
    /\ file \in [Fds -> Clients \cup {NoClient}]
    /\ \A fd, gd \in Fds : file[fd] = file[gd] /\ file[fd] # NoClient => fd = gd

FreeFds == {fd \in Fds : file[fd] = NoClient}

\* read_fd finds a free number: there are more of them than clients.
LEMMA FreeFd ==
  ASSUME OnePlace
  PROVE  Min(FreeFds) \in FreeFds /\ \A fd \in FreeFds : Min(FreeFds) <= fd
<1>1. FreeFds # {}
  <2>. SUFFICES ASSUME FreeFds = {}  PROVE FALSE
    OBVIOUS
  <2>1. \A fd \in Fds : file[fd] \in Clients
    BY DEF OnePlace, FreeFds
  <2>2. file \in [Fds -> Clients]
    BY <2>1 DEF OnePlace
  <2>3. Cardinality(Clients) < Cardinality(Fds) /\ IsFiniteSet(Fds) /\ IsFiniteSet(Clients)
    BY FdsAreNumbers, RoomAssumption, FS_CardinalityType DEF RoomAssumption
  <2>4. \E x, y \in Fds : x # y /\ file[x] = file[y]
    BY <2>2, <2>3, FS_PigeonHole
  <2>. QED  BY <2>1, <2>4, RoomAssumption DEF OnePlace, RoomAssumption
<1>2. FreeFds \in SUBSET Nat
  BY FdsAreNumbers DEF FreeFds
<1>3. Min(FreeFds) \in FreeFds /\ \A n \in FreeFds : Min(FreeFds) <= n
  BY <1>1, <1>2, MinExists
<1>. QED  BY <1>3

-----------------------------------------------------------------------------
(* Types *)

Addresses == Clients \cup {NoClient}

\* The parts of the type invariant.  Between its select and its next one the main
\* thread has a descriptor in hand, and so has the acceptor between two commands.
PoolTypes ==
    /\ file \in [Fds -> Addresses]
    /\ status \in [Fds -> {"ON", "CLOSE"}]
    /\ fdToIp \in [Fds -> Addresses]
    /\ quiet \subseteq Fds
    /\ owner \in Fds \cup {0}
    /\ maxfd \in Fds \cup {0}
    /\ roomstatus \in {"ON", "CLOSE"}

MainTypes ==
    /\ mpc \in {"select", "next", "read", "kick", "close", "clear", "drop", "notify E",
                "notify Q", "close fd", "push exit", "dead"}
    /\ rset \subseteq Fds
    /\ cfd \in Fds \cup {0}
    /\ mpc \notin {"select", "next", "dead"} => cfd \in Fds
    /\ mode \in {"scan", "timeouts"}
    /\ ip \in Addresses
    /\ ki \in 0..NFds + 1

AcceptorTypes ==
    /\ apc \in {"recv", "admit", "compose", "push", "list", "dead"}
    /\ cmd \in {"C", "J"}
    /\ tfd \in Fds \cup {0}
    /\ apc \notin {"recv", "dead"} => tfd \in Fds
    /\ out \in Message \cup {NoMsg}
    /\ apc = "push" => out \in Message

QueueTypes ==
    /\ sendqueue \in Seq(Message)
    /\ held \in [SendThreads -> Message \cup {NoMsg}]

LinkTypes ==
    /\ pipe \in Seq({"C", "J"} \X Clients)
    /\ notices \in Seq({"E", "Q"})
    /\ ready \in BOOLEAN
    /\ joins \in Nat

ClientTypes ==
    /\ conn \in [Clients -> {"out", "pipe", "in", "gone", "over"}]
    /\ known \in [Clients -> SUBSET Addresses]
    /\ meetings \in Nat

\* A client is in one place at most: under one descriptor or once in the socketpair;
\* one that may connect is in neither.
Placed ==
    /\ OnePlace
    /\ \A i, j \in DOMAIN pipe : pipe[i][2] = pipe[j][2] => i = j
    /\ \A i \in DOMAIN pipe : \A fd \in Fds : file[fd] # pipe[i][2]
    /\ \A c \in Clients : conn[c] \in {"out", "over"} =>
          /\ \A i \in DOMAIN pipe : pipe[i][2] # c
          /\ \A fd \in Fds : file[fd] # c

Typed ==
    /\ PoolTypes /\ MainTypes /\ AcceptorTypes /\ QueueTypes /\ LinkTypes /\ ClientTypes
    /\ Placed

LEMMA TypedIsTypeOK == Typed => TypeOK
  BY DEF TypeOK, Typed, PoolTypes, MainTypes, AcceptorTypes, QueueTypes, LinkTypes,
         ClientTypes, Addresses

LEMMA MessageTyped ==
  ASSUME NEW k \in {"CREATE_MEETING_RESPONSE", "PARTNER_JOIN", "PARTNER_JOIN2",
                    "PARTNER_EXIT", "TEXT_RECV", "HEARTBEAT_ACK",
                    "KICK_OUT_RESPONSE", "KICK_OUT_NOTIFY"},
         NEW fd \in Fds \cup {0}, NEW ips \in SUBSET Addresses
  PROVE  Msg(k, fd, ips) \in Message
  BY DEF Msg, Message, Addresses

\* What AcceptRecv takes out of the socketpair.
LEMMA PipeHead ==
  ASSUME LinkTypes, pipe # <<>>
  PROVE  /\ Head(pipe)[1] \in {"C", "J"} /\ Head(pipe)[2] \in Clients
         /\ Tail(pipe) \in Seq({"C", "J"} \X Clients)
         /\ 1 \in DOMAIN pipe /\ Head(pipe) = pipe[1]
         /\ DOMAIN Tail(pipe) = 1..Len(pipe) - 1
         /\ \A i \in DOMAIN Tail(pipe) : i + 1 \in DOMAIN pipe /\ Tail(pipe)[i] = pipe[i + 1]
<1>1. Head(pipe) \in {"C", "J"} \X Clients /\ Tail(pipe) \in Seq({"C", "J"} \X Clients)
  BY HeadTailProperties DEF LinkTypes
<1>2. Len(pipe) \in Nat /\ DOMAIN pipe = 1..Len(pipe) /\ Len(pipe) # 0
  BY LenProperties, EmptySeq DEF LinkTypes
<1>3. /\ Head(pipe) = pipe[1]
      /\ Len(Tail(pipe)) = Len(pipe) - 1
      /\ \A i \in 1..Len(Tail(pipe)) : Tail(pipe)[i] = pipe[i + 1]
  BY HeadTailProperties DEF LinkTypes
<1>4. DOMAIN Tail(pipe) = 1..Len(Tail(pipe))
  BY <1>1, LenProperties
<1>. QED  BY <1>1, <1>2, <1>3, <1>4

\* The pool: the acceptor takes members in, fdclose takes them out.
LEMMA PoolTypeStep ==
  ASSUME Typed, [Next]_vars
  PROVE  PoolTypes'
<1>. USE DEF PoolTypes
<1>1. PoolTypes /\ MainTypes /\ AcceptorTypes
  BY DEF Typed
<1>2. \A fd \in Fds : fd - 1 \in Fds \cup {0}
  <2>1. NFds \in Nat
    BY RoomAssumption DEF RoomAssumption
  <2>. QED  BY <2>1 DEF Fds
<1>3. ASSUME UNCHANGED poolVars  PROVE PoolTypes'
  BY <1>1, <1>3 DEF poolVars
<1>4. ASSUME NEW fd \in Fds, FallSilent(fd)  PROVE PoolTypes'
  BY <1>1, <1>4 DEF FallSilent
<1>5. ASSUME NEW fds, CloseAll(fds)  PROVE file' \in [Fds -> Addresses]
  BY <1>1, <1>5 DEF CloseAll, Addresses
<1>6. CASE AcceptRecv
  <2>1. Head(pipe)[2] \in Addresses
    BY <1>6, PipeHead DEF AcceptRecv, Typed, Addresses
  <2>. QED  BY <1>1, <1>6, <2>1 DEF AcceptRecv
<1>7. ASSUME apc = "admit"  PROVE tfd \in Fds
  BY <1>1, <1>7 DEF AcceptorTypes
<1>8. CASE AcceptCreate
  BY <1>1, <1>7, <1>8 DEF AcceptCreate, Enter
<1>9. CASE AcceptTooLate
  BY <1>1, <1>5, <1>9 DEF AcceptTooLate
<1>10. CASE AcceptJoin
  BY <1>1, <1>7, <1>10 DEF AcceptJoin, Enter
<1>11. CASE MainDies
  BY <1>1, <1>5, <1>11 DEF MainDies
<1>12. CASE MainNext
  <2>1. quiet' = quiet \/ quiet' = quiet \ {cfd'}
    BY <1>12 DEF MainNext
  <2>. QED  BY <1>1, <1>12, <2>1 DEF MainNext
<1>13. CASE ClearRoom
  BY <1>1, <1>5, <1>13 DEF ClearRoom, Addresses
<1>14. CASE DropMember
  <2>1. cfd \in Fds /\ NoClient \in Addresses
    BY <1>1, <1>14 DEF DropMember, MainTypes, Addresses
  <2>. QED  BY <1>1, <1>2, <1>14, <2>1 DEF DropMember
<1>15. CASE CloseFd
  BY <1>1, <1>5, <1>15 DEF CloseFd
<1>. HIDE DEF PoolTypes
<1>16. ASSUME NEW c \in Clients, Create(c) \/ Join(c) \/ HangUp(c)  PROVE UNCHANGED poolVars
  BY <1>16 DEF Create, Join, HangUp
<1>17. CASE ParentReads
  BY <1>3, <1>17 DEF ParentReads
<1>18. CASE AcceptCompose \/ AcceptPush \/ AcceptList
  BY <1>3, <1>18 DEF AcceptCompose, AcceptPush, AcceptList
<1>19. CASE MainSelect \/ MainTimeout \/ MainReadFails \/ MainKick \/ MainKickNotify
  BY <1>3, <1>19 DEF MainSelect, MainTimeout, MainReadFails, MainKick, MainKickNotify
<1>20. CASE MainHeartbeat \/ MainForward \/ MainKickRefused
  BY <1>3, <1>20 DEF MainHeartbeat, MainForward, MainKickRefused, Answer
<1>21. CASE CloseTest \/ NotifyParent \/ PushExit
  BY <1>3, <1>21 DEF CloseTest, NotifyParent, PushExit
<1>22. ASSUME NEW t \in SendThreads, Sender(t)  PROVE UNCHANGED poolVars
  BY <1>22 DEF Sender, SendPop, SendDeliver
<1>23. CASE UNCHANGED vars
  BY <1>3, <1>23 DEF vars
<1>. QED
  BY <1>3, <1>4, <1>6, <1>8, <1>9, <1>10, <1>11, <1>12, <1>13, <1>14, <1>15, <1>16, <1>17, <1>18,
     <1>19, <1>20, <1>21, <1>22, <1>23 DEF Next, Acceptor, Main, Closing

\* The main thread: the descriptors it goes through are descriptors.
LEMMA MainTypeStep ==
  ASSUME Typed, [Next]_vars
  PROVE  MainTypes'
<1>. USE DEF MainTypes
<1>1. PoolTypes /\ MainTypes /\ AcceptorTypes
  BY DEF Typed
<1>2. NFds \in Nat /\ Fds = 1..NFds
  BY RoomAssumption DEF RoomAssumption, Fds
<1>3. ASSUME UNCHANGED mainVars  PROVE MainTypes'
  BY <1>1, <1>3 DEF mainVars
<1>4. ASSUME cfd' = cfd, rset' = rset, mode' = mode, ip' \in Addresses, ki' \in 0..NFds + 1,
             \/ mpc' = "next"
             \/ mpc \notin {"select", "next", "dead"} /\
                mpc' \in {"kick", "close", "clear", "drop", "notify E", "notify Q", "close fd",
                          "push exit"}
      PROVE  MainTypes'
  BY <1>1, <1>4
<1>5. CASE MainSelect
  BY <1>1, <1>5 DEF MainSelect, Ended, On
<1>6. CASE MainDies
  BY <1>1, <1>6 DEF MainDies
<1>7. CASE MainTimeout
  BY <1>1, <1>7 DEF MainTimeout, On
<1>8. CASE MainNext
  <2> DEFINE todo == IF mode = "scan" THEN {fd \in rset : fd <= maxfd} ELSE rset
  <2>1. CASE todo = {}
    <3>1. mpc' = "select" /\ rset' = {} /\ cfd' = 0 /\ UNCHANGED <<mode, ip, ki>>
      BY <1>8, <2>1 DEF MainNext
    <3>. QED  BY <1>1, <3>1
  <2>2. CASE todo # {}
    <3>1. todo \subseteq Fds
      BY <1>1
    <3>2. Min(todo) \in todo
      BY <2>2, <3>1, FdsAreNumbers, MinExists
    <3>3. /\ cfd' = Min(todo) /\ rset' = todo \ {cfd'} /\ mpc' \in {"read", "close"}
          /\ UNCHANGED <<mode, ip, ki>>
      BY <1>8, <2>2 DEF MainNext
    <3>. HIDE DEF todo
    <3>. QED  BY <1>1, <3>1, <3>2, <3>3
  <2>. QED  BY <2>1, <2>2
<1>9. CASE MainReadFails
  BY <1>1, <1>4, <1>9 DEF MainReadFails
<1>10. CASE MainHeartbeat \/ MainForward \/ MainKickRefused
  BY <1>1, <1>4, <1>10 DEF MainHeartbeat, MainForward, MainKickRefused, Answer
<1>11. CASE MainKick
  <2>1. ip' \in Addresses
    BY <1>1, <1>11 DEF MainKick, PoolTypes
  <2>2. 1 \in 0..NFds + 1
    BY <1>2
  <2>. QED  BY <1>1, <1>4, <1>11, <2>1, <2>2 DEF MainKick
<1>12. CASE MainKickNotify
  <2>1. CASE ki <= maxfd
    <3>1. ki \in Nat /\ maxfd \in Nat /\ maxfd <= NFds
      <4>1. ki \in 0..NFds + 1 /\ maxfd \in Fds \cup {0}
        BY <1>1 DEF PoolTypes, MainTypes
      <4>. QED  BY <1>2, <4>1
    <3>2. ki + 1 \in 0..NFds + 1
      BY <1>2, <2>1, <3>1
    <3>. QED  BY <1>1, <1>4, <1>12, <2>1, <3>2 DEF MainKickNotify
  <2>2. CASE ~ ki <= maxfd
    <3>1. 0 \in 0..NFds + 1 /\ NoClient \in Addresses
      BY <1>2 DEF Addresses
    <3>. QED  BY <1>1, <1>4, <1>12, <2>2, <3>1 DEF MainKickNotify
  <2>. QED  BY <2>1, <2>2
<1>13. CASE CloseTest
  BY <1>1, <1>4, <1>13 DEF CloseTest
<1>14. CASE ClearRoom
  BY <1>1, <1>4, <1>14 DEF ClearRoom
<1>15. CASE DropMember
  <2>1. ip' \in Addresses
    BY <1>1, <1>15 DEF DropMember, PoolTypes
  <2>. QED  BY <1>1, <1>4, <1>15, <2>1 DEF DropMember
<1>16. CASE NotifyParent
  BY <1>1, <1>4, <1>16 DEF NotifyParent
<1>17. CASE CloseFd
  BY <1>1, <1>4, <1>17 DEF CloseFd
<1>18. CASE PushExit
  BY <1>1, <1>4, <1>18 DEF PushExit, Addresses
<1>. HIDE DEF MainTypes
<1>19. ASSUME NEW c \in Clients, Create(c) \/ Join(c) \/ HangUp(c)  PROVE UNCHANGED mainVars
  BY <1>19 DEF Create, Join, HangUp
<1>20. ASSUME NEW fd \in Fds, FallSilent(fd)  PROVE UNCHANGED mainVars
  BY <1>20 DEF FallSilent
<1>21. CASE ParentReads \/ Acceptor
  BY <1>3, <1>21 DEF ParentReads, Acceptor, AcceptRecv, AcceptCreate, AcceptTooLate, AcceptJoin,
                     AcceptCompose, AcceptPush, AcceptList
<1>22. ASSUME NEW t \in SendThreads, Sender(t)  PROVE UNCHANGED mainVars
  BY <1>22 DEF Sender, SendPop, SendDeliver
<1>23. CASE UNCHANGED vars
  BY <1>3, <1>23 DEF vars
<1>. QED
  BY <1>3, <1>5, <1>6, <1>7, <1>8, <1>9, <1>10, <1>11, <1>12, <1>13, <1>14, <1>15, <1>16, <1>17,
     <1>18, <1>19, <1>20, <1>21, <1>22, <1>23 DEF Next, Main, Closing

\* The acceptor: between two commands it has a descriptor in hand, and a message
\* when it pushes.
LEMMA AcceptorTypeStep ==
  ASSUME Typed, [Next]_vars
  PROVE  AcceptorTypes'
<1>. USE DEF AcceptorTypes
<1>1. PoolTypes /\ AcceptorTypes /\ LinkTypes
  BY DEF Typed
<1>2. ASSUME UNCHANGED acptVars  PROVE AcceptorTypes'
  BY <1>1, <1>2 DEF acptVars
<1>3. CASE AcceptRecv
  <2>1. Min(FreeFds) \in Fds
    BY FreeFd DEF Typed, Placed, FreeFds
  <2>2. tfd' \in Fds /\ cmd' \in {"C", "J"} /\ apc' = "admit" /\ out' = out
    BY <1>1, <1>3, <2>1, PipeHead DEF AcceptRecv, FreeFds
  <2>. QED  BY <1>1, <2>2
<1>4. CASE AcceptCreate
  <2>1. {} \in SUBSET Addresses
    OBVIOUS
  <2>2. Msg("CREATE_MEETING_RESPONSE", tfd, {}) \in Message
    BY <1>1, <2>1, MessageTyped
  <2>. QED  BY <1>1, <1>4, <2>2 DEF AcceptCreate
<1>5. CASE AcceptTooLate \/ AcceptJoin
  BY <1>1, <1>5 DEF AcceptTooLate, AcceptJoin
<1>6. CASE AcceptCompose
  <2>1. {fdToIp[tfd]} \in SUBSET Addresses
    BY <1>1, <1>6 DEF AcceptCompose, PoolTypes
  <2>2. Msg("PARTNER_JOIN", tfd, {fdToIp[tfd]}) \in Message
    BY <1>1, <2>1, MessageTyped
  <2>. QED  BY <1>1, <1>6, <2>2 DEF AcceptCompose
<1>7. CASE AcceptPush
  BY <1>1, <1>7 DEF AcceptPush
<1>8. CASE AcceptList
  <2> DEFINE others == {fdToIp[fd] : fd \in {g \in On : g <= maxfd /\ g # tfd}}
  <2>1. others \in SUBSET Addresses
    BY <1>1 DEF PoolTypes, On
  <2>2. out' = Msg("PARTNER_JOIN2", tfd, others) /\ apc' = "push" /\ UNCHANGED <<cmd, tfd>>
    BY <1>8 DEF AcceptList
  <2>. HIDE DEF others
  <2>3. Msg("PARTNER_JOIN2", tfd, others) \in Message
    BY <1>1, <2>1, MessageTyped
  <2>. QED  BY <1>1, <1>8, <2>2, <2>3 DEF AcceptList
<1>9. CASE MainDies
  BY <1>1, <1>9 DEF MainDies
<1>. HIDE DEF AcceptorTypes
<1>10. ASSUME NEW c \in Clients, Create(c) \/ Join(c) \/ HangUp(c)  PROVE UNCHANGED acptVars
  BY <1>10 DEF Create, Join, HangUp
<1>11. ASSUME NEW fd \in Fds, FallSilent(fd)  PROVE UNCHANGED acptVars
  BY <1>11 DEF FallSilent
<1>12. CASE ParentReads
  BY <1>2, <1>12 DEF ParentReads
<1>13. CASE MainSelect \/ MainTimeout \/ MainNext \/ MainReadFails \/ MainKick \/ MainKickNotify
  BY <1>2, <1>13 DEF MainSelect, MainTimeout, MainNext, MainReadFails, MainKick, MainKickNotify
<1>14. CASE MainHeartbeat \/ MainForward \/ MainKickRefused
  BY <1>2, <1>14 DEF MainHeartbeat, MainForward, MainKickRefused, Answer
<1>15. CASE Closing
  BY <1>2, <1>15 DEF Closing, CloseTest, ClearRoom, DropMember, NotifyParent, CloseFd, PushExit
<1>16. ASSUME NEW t \in SendThreads, Sender(t)  PROVE UNCHANGED acptVars
  BY <1>16 DEF Sender, SendPop, SendDeliver
<1>17. CASE UNCHANGED vars
  BY <1>2, <1>17 DEF vars
<1>. QED
  BY <1>2, <1>3, <1>4, <1>5, <1>6, <1>7, <1>8, <1>9, <1>10, <1>11, <1>12, <1>13, <1>14, <1>15,
     <1>16, <1>17 DEF Next, Acceptor, Main

\* The send queue and what the senders hold.
LEMMA QueueTypeStep ==
  ASSUME Typed, [Next]_vars
  PROVE  QueueTypes'
<1>. USE DEF QueueTypes
<1>1. PoolTypes /\ MainTypes /\ AcceptorTypes /\ QueueTypes
  BY DEF Typed
<1>2. ASSUME UNCHANGED <<sendqueue, held>>  PROVE QueueTypes'
  BY <1>1, <1>2
<1>3. ASSUME NEW k \in {"CREATE_MEETING_RESPONSE", "PARTNER_JOIN", "PARTNER_JOIN2",
                        "PARTNER_EXIT", "TEXT_RECV", "HEARTBEAT_ACK",
                        "KICK_OUT_RESPONSE", "KICK_OUT_NOTIFY"},
             NEW fd \in Fds \cup {0}, NEW ips \in SUBSET Addresses,
             Queue!Put(Msg(k, fd, ips)), held' = held
      PROVE  QueueTypes'
  <2>1. Append(sendqueue, Msg(k, fd, ips)) \in Seq(Message)
    BY <1>1, <1>3, MessageTyped, AppendProperties
  <2>. QED  BY <1>1, <1>3, <2>1 DEF Queue!Put
<1>4. CASE AcceptPush
  <2>1. Append(sendqueue, out) \in Seq(Message)
    BY <1>1, <1>4, AppendProperties DEF AcceptPush, AcceptorTypes
  <2>. QED  BY <1>1, <1>4, <2>1 DEF AcceptPush, Queue!Put
<1>5. CASE MainDies \/ ClearRoom
  <2>1. sendqueue' = <<>>
    BY <1>5 DEF MainDies, ClearRoom
  <2>2. held' = [t \in SendThreads |-> NoMsg] \/ held' = held
    BY <1>5 DEF MainDies, ClearRoom
  <2>. QED  BY <1>1, <2>1, <2>2, EmptySeq
<1>6. {} \in SUBSET Addresses /\ cfd \in Fds \cup {0} /\ {ip} \in SUBSET Addresses
  BY <1>1 DEF MainTypes
<1>7. CASE MainHeartbeat
  BY <1>3, <1>6, <1>7 DEF MainHeartbeat, Answer
<1>8. CASE MainForward
  <2>1. {fdToIp[cfd]} \in SUBSET Addresses
    BY <1>1, <1>8 DEF MainForward, Answer, MainTypes, PoolTypes
  <2>. QED  BY <1>3, <1>6, <1>8, <2>1 DEF MainForward, Answer
<1>9. CASE MainKickRefused
  BY <1>3, <1>6, <1>9 DEF MainKickRefused, Answer
<1>10. CASE MainKickNotify
  <2>1. CASE ki <= maxfd /\ status[ki] = "ON"
    <3>1. ki \in Fds \cup {0}
      <4>1. NFds \in Nat /\ Fds = 1..NFds
        BY RoomAssumption DEF RoomAssumption, Fds
      <4>2. ki \in Nat /\ maxfd \in Nat /\ maxfd <= NFds
        <5>1. ki \in 0..NFds + 1 /\ maxfd \in Fds \cup {0}
          BY <1>1 DEF PoolTypes, MainTypes
        <5>. QED  BY <4>1, <5>1
      <4>. QED  BY <2>1, <4>1, <4>2
    <3>2. Queue!Put(Msg("KICK_OUT_NOTIFY", ki, {ip})) /\ held' = held
      BY <1>10, <2>1 DEF MainKickNotify
    <3>. QED  BY <1>3, <1>6, <3>1, <3>2
  <2>2. CASE ki <= maxfd /\ status[ki] # "ON"
    BY <1>2, <1>10, <2>2 DEF MainKickNotify
  <2>3. CASE ~ ki <= maxfd
    BY <1>3, <1>6, <1>10, <2>3 DEF MainKickNotify
  <2>. QED  BY <2>1, <2>2, <2>3
<1>11. CASE PushExit
  BY <1>3, <1>6, <1>11 DEF PushExit
<1>12. ASSUME NEW t \in SendThreads, SendPop(t)  PROVE QueueTypes'
  <2>1. sendqueue # <<>> /\ sendqueue' = Tail(sendqueue)
        /\ held' = [held EXCEPT ![t] = Head(sendqueue)]
    BY <1>12 DEF SendPop, Queue!Take
  <2>2. Head(sendqueue) \in Message /\ Tail(sendqueue) \in Seq(Message)
    BY <1>1, <2>1, HeadTailProperties
  <2>. QED  BY <1>1, <2>1, <2>2
<1>13. ASSUME NEW t \in SendThreads, SendDeliver(t)  PROVE QueueTypes'
  BY <1>1, <1>13 DEF SendDeliver
<1>. HIDE DEF QueueTypes
<1>14. ASSUME NEW c \in Clients, Create(c) \/ Join(c) \/ HangUp(c)
       PROVE  UNCHANGED <<sendqueue, held>>
  BY <1>14 DEF Create, Join, HangUp
<1>15. ASSUME NEW fd \in Fds, FallSilent(fd)  PROVE UNCHANGED <<sendqueue, held>>
  BY <1>15 DEF FallSilent
<1>16. CASE ParentReads
  BY <1>2, <1>16 DEF ParentReads
<1>17. CASE AcceptRecv \/ AcceptCreate \/ AcceptTooLate \/ AcceptJoin \/ AcceptCompose \/ AcceptList
  BY <1>2, <1>17 DEF AcceptRecv, AcceptCreate, AcceptTooLate, AcceptJoin, AcceptCompose, AcceptList
<1>18. CASE MainSelect \/ MainTimeout \/ MainNext \/ MainReadFails \/ MainKick
  BY <1>2, <1>18 DEF MainSelect, MainTimeout, MainNext, MainReadFails, MainKick
<1>19. CASE CloseTest \/ DropMember \/ NotifyParent \/ CloseFd
  BY <1>2, <1>19 DEF CloseTest, DropMember, NotifyParent, CloseFd
<1>20. CASE UNCHANGED vars
  BY <1>2, <1>20 DEF vars
<1>. QED
  BY <1>2, <1>4, <1>5, <1>7, <1>8, <1>9, <1>10, <1>11, <1>12, <1>13, <1>14, <1>15, <1>16, <1>17,
     <1>18, <1>19, <1>20 DEF Next, Acceptor, Main, Closing, Sender

\* The socketpair and what the parent knows.
LEMMA LinkTypeStep ==
  ASSUME Typed, [Next]_vars
  PROVE  LinkTypes'
<1>. USE DEF LinkTypes
<1>1. LinkTypes
  BY DEF Typed
<1>2. ASSUME UNCHANGED linkVars  PROVE LinkTypes'
  BY <1>1, <1>2 DEF linkVars
<1>3. ASSUME NEW c \in Clients, NEW k \in {"C", "J"}
      PROVE  Append(pipe, <<k, c>>) \in Seq({"C", "J"} \X Clients)
  <2>1. <<k, c>> \in {"C", "J"} \X Clients
    OBVIOUS
  <2>. QED  BY <1>1, <2>1, AppendProperties
<1>4. ASSUME NEW c \in Clients, Create(c)  PROVE LinkTypes'
  BY <1>1, <1>3, <1>4 DEF Create
<1>5. ASSUME NEW c \in Clients, Join(c)  PROVE LinkTypes'
  BY <1>1, <1>3, <1>5 DEF Join
<1>6. CASE ParentReads
  <2>1. Tail(notices) \in Seq({"E", "Q"})
    BY <1>1, <1>6, HeadTailProperties DEF ParentReads
  <2>. QED  BY <1>1, <1>6, <2>1 DEF ParentReads
<1>7. CASE AcceptRecv
  BY <1>1, <1>7, PipeHead DEF AcceptRecv
<1>8. CASE NotifyParent
  <2>1. \A n \in {"E", "Q"} : Append(notices, n) \in Seq({"E", "Q"})
    BY <1>1, AppendProperties
  <2>. QED  BY <1>1, <1>8, <2>1 DEF NotifyParent
<1>. HIDE DEF LinkTypes
<1>9. ASSUME NEW c \in Clients, HangUp(c)  PROVE UNCHANGED linkVars
  BY <1>9 DEF HangUp
<1>10. ASSUME NEW fd \in Fds, FallSilent(fd)  PROVE UNCHANGED linkVars
  BY <1>10 DEF FallSilent
<1>11. CASE AcceptCreate \/ AcceptTooLate \/ AcceptJoin \/ AcceptCompose \/ AcceptPush \/ AcceptList
  BY <1>2, <1>11 DEF AcceptCreate, AcceptTooLate, AcceptJoin, AcceptCompose, AcceptPush, AcceptList
<1>12. CASE MainSelect \/ MainDies \/ MainTimeout \/ MainNext \/ MainReadFails \/ MainKick
            \/ MainKickNotify
  BY <1>2, <1>12 DEF MainSelect, MainDies, MainTimeout, MainNext, MainReadFails, MainKick,
                     MainKickNotify
<1>13. CASE MainHeartbeat \/ MainForward \/ MainKickRefused
  BY <1>2, <1>13 DEF MainHeartbeat, MainForward, MainKickRefused, Answer
<1>14. CASE CloseTest \/ ClearRoom \/ DropMember \/ CloseFd \/ PushExit
  BY <1>2, <1>14 DEF CloseTest, ClearRoom, DropMember, CloseFd, PushExit
<1>15. ASSUME NEW t \in SendThreads, Sender(t)  PROVE UNCHANGED linkVars
  BY <1>15 DEF Sender, SendPop, SendDeliver
<1>16. CASE UNCHANGED vars
  BY <1>2, <1>16 DEF vars
<1>. QED
  BY <1>2, <1>4, <1>5, <1>6, <1>7, <1>8, <1>9, <1>10, <1>11, <1>12, <1>13, <1>14, <1>15, <1>16
     DEF Next, Acceptor, Main, Closing

\* What CloseAll is called with.
LEMMA Closes ==
  ASSUME Typed, AcceptTooLate \/ MainDies \/ ClearRoom \/ CloseFd
  PROVE  /\ \E fds \in SUBSET Fds : CloseAll(fds)
         /\ pipe' = pipe
         /\ meetings' = meetings
<1>1. tfd \in Fds \/ ~AcceptTooLate
  BY DEF Typed, AcceptorTypes, AcceptTooLate
<1>2. cfd \in Fds \/ ~CloseFd
  BY DEF Typed, MainTypes, CloseFd
<1>3. \E fds \in SUBSET Fds : CloseAll(fds)
  BY <1>1, <1>2 DEF AcceptTooLate, MainDies, ClearRoom, CloseFd, On
<1>. QED  BY <1>3 DEF AcceptTooLate, MainDies, ClearRoom, CloseFd, linkVars

\* What the other steps leave alone.
LEMMA PlacesKept ==
  ASSUME [Next]_vars
  PROVE  \/ \E c \in Clients : Create(c) \/ Join(c) \/ HangUp(c)
         \/ AcceptRecv \/ AcceptCreate
         \/ AcceptTooLate \/ MainDies \/ ClearRoom \/ CloseFd
         \/ \E t \in SendThreads : SendDeliver(t)
         \/ UNCHANGED <<file, pipe, conn, known, meetings>>
<1>1. ASSUME NEW fd \in Fds, FallSilent(fd)  PROVE UNCHANGED <<file, pipe, conn, known, meetings>>
  BY <1>1 DEF FallSilent, linkVars
<1>2. ASSUME ParentReads  PROVE UNCHANGED <<file, pipe, conn, known, meetings>>
  BY <1>2 DEF ParentReads, poolVars
<1>3. ASSUME AcceptJoin \/ AcceptCompose \/ AcceptPush \/ AcceptList
      PROVE  UNCHANGED <<file, pipe, conn, known, meetings>>
  BY <1>3 DEF AcceptJoin, AcceptCompose, AcceptPush, AcceptList, poolVars, linkVars
<1>4. ASSUME MainSelect \/ MainTimeout \/ MainNext \/ MainReadFails \/ MainKick \/ MainKickNotify
      PROVE  UNCHANGED <<file, pipe, conn, known, meetings>>
  BY <1>4 DEF MainSelect, MainTimeout, MainNext, MainReadFails, MainKick, MainKickNotify, poolVars,
              linkVars
<1>5. ASSUME MainHeartbeat \/ MainForward \/ MainKickRefused
      PROVE  UNCHANGED <<file, pipe, conn, known, meetings>>
  BY <1>5 DEF MainHeartbeat, MainForward, MainKickRefused, Answer, poolVars, linkVars
<1>6. ASSUME CloseTest \/ DropMember \/ NotifyParent \/ PushExit
      PROVE  UNCHANGED <<file, pipe, conn, known, meetings>>
  BY <1>6 DEF CloseTest, DropMember, NotifyParent, PushExit, poolVars, linkVars
<1>7. ASSUME NEW t \in SendThreads, SendPop(t)
      PROVE  UNCHANGED <<file, pipe, conn, known, meetings>>
  BY <1>7 DEF SendPop, poolVars, linkVars
<1>8. ASSUME UNCHANGED vars  PROVE UNCHANGED <<file, pipe, conn, known, meetings>>
  BY <1>8 DEF vars, poolVars, linkVars
<1>. QED  BY <1>1, <1>2, <1>3, <1>4, <1>5, <1>6, <1>7, <1>8 DEF Next, Acceptor, Main, Closing, Sender

\* The clients.
LEMMA ClientTypeStep ==
  ASSUME Typed, [Next]_vars
  PROVE  ClientTypes'
<1>. USE DEF ClientTypes
<1>1. PoolTypes /\ AcceptorTypes /\ QueueTypes /\ ClientTypes
  BY DEF Typed
<1>2. ASSUME NEW c \in Clients, Create(c) \/ Join(c) \/ HangUp(c)  PROVE ClientTypes'
  BY <1>1, <1>2 DEF Create, Join, HangUp
<1>3. CASE AcceptRecv
  BY <1>1, <1>3 DEF AcceptRecv
<1>4. CASE AcceptCreate
  BY <1>1, <1>4 DEF AcceptCreate
<1>5. ASSUME NEW fds \in SUBSET Fds, CloseAll(fds), meetings' = meetings  PROVE ClientTypes'
  BY <1>1, <1>5 DEF CloseAll
<1>6. ASSUME NEW t \in SendThreads, SendDeliver(t)  PROVE ClientTypes'
  <2>1. held[t] \in Message
    BY <1>1, <1>6 DEF SendDeliver, QueueTypes
  <2>2. held[t].ips \in SUBSET Addresses
    BY <2>1 DEF Message, Addresses
  <2>3. ASSUME NEW c \in Clients  PROVE Shown(c, held[t]) \in SUBSET Addresses
    BY <1>1, <2>2 DEF Shown
  <2>. QED  BY <1>1, <1>6, <2>3 DEF SendDeliver
<1>7. CASE UNCHANGED <<file, pipe, conn, known, meetings>>
  BY <1>1, <1>7
<1>. HIDE DEF ClientTypes
<1>8. CASE AcceptTooLate \/ MainDies \/ ClearRoom \/ CloseFd
  BY <1>5, <1>8, Closes
<1>. QED  BY <1>2, <1>3, <1>4, <1>6, <1>7, <1>8, PlacesKept

LEMMA PipeAppended ==
  ASSUME LinkTypes, NEW k \in {"C", "J"}, NEW c \in Clients
  PROVE  /\ Len(pipe) \in Nat
         /\ DOMAIN pipe = 1..Len(pipe)
         /\ DOMAIN Append(pipe, <<k, c>>) = 1..Len(pipe) + 1
         /\ \A i \in DOMAIN pipe : Append(pipe, <<k, c>>)[i] = pipe[i]
         /\ Append(pipe, <<k, c>>)[Len(pipe) + 1] = <<k, c>>
         /\ \A i \in DOMAIN Append(pipe, <<k, c>>) : i \in DOMAIN pipe \/ i = Len(pipe) + 1
<1>1. pipe \in Seq({"C", "J"} \X Clients) /\ <<k, c>> \in {"C", "J"} \X Clients
  BY DEF LinkTypes
<1>2. /\ Append(pipe, <<k, c>>) \in Seq({"C", "J"} \X Clients)
      /\ Len(Append(pipe, <<k, c>>)) = Len(pipe) + 1
      /\ \A i \in 1..Len(pipe) : Append(pipe, <<k, c>>)[i] = pipe[i]
      /\ Append(pipe, <<k, c>>)[Len(pipe) + 1] = <<k, c>>
  BY <1>1, AppendProperties
<1>3. Len(pipe) \in Nat /\ DOMAIN pipe = 1..Len(pipe)
  BY <1>1, LenProperties
<1>4. DOMAIN Append(pipe, <<k, c>>) = 1..Len(Append(pipe, <<k, c>>))
  BY <1>2, LenProperties
<1>5. DOMAIN Append(pipe, <<k, c>>) = 1..Len(pipe) + 1
  BY <1>2, <1>4
<1>6. \A i \in 1..Len(pipe) + 1 : i \in 1..Len(pipe) \/ i = Len(pipe) + 1
  BY <1>3
<1>. QED  BY <1>2, <1>3, <1>5, <1>6

\* A client that is passed on goes into the socketpair.
LEMMA PassedPlaced ==
  ASSUME Typed, NEW c \in Clients, Create(c) \/ Join(c)
  PROVE  Placed'
<1>1. PICK k \in {"C", "J"} : pipe' = Append(pipe, <<k, c>>)
  BY DEF Create, Join
<1>2. conn[c] \in {"out", "over"} /\ conn' = [conn EXCEPT ![c] = "pipe"] /\ file' = file
  BY DEF Create, Join, Connects, poolVars
<1>3. /\ Len(pipe) \in Nat
      /\ DOMAIN pipe = 1..Len(pipe)
      /\ DOMAIN pipe' = 1..Len(pipe) + 1
      /\ \A i \in DOMAIN pipe : pipe'[i][2] = pipe[i][2]
      /\ pipe'[Len(pipe) + 1][2] = c
  BY <1>1, PipeAppended DEF Typed
<1>4. \A i \in DOMAIN pipe' : i = Len(pipe) + 1 \/ i \in DOMAIN pipe
  BY <1>3
<1>5. /\ \A i \in DOMAIN pipe : pipe[i][2] # c
      /\ \A fd \in Fds : file[fd] # c
  BY <1>2 DEF Typed, Placed
<1>6. OnePlace'
  BY <1>2 DEF Typed, Placed, OnePlace
<1>7. \A i, j \in DOMAIN pipe' : pipe'[i][2] = pipe'[j][2] => i = j
  BY <1>3, <1>4, <1>5 DEF Typed, Placed
<1>8. \A i \in DOMAIN pipe' : \A fd \in Fds : file'[fd] # pipe'[i][2]
  BY <1>2, <1>3, <1>4, <1>5 DEF Typed, Placed
<1>9. ASSUME NEW d \in Clients, conn'[d] \in {"out", "over"}
      PROVE  d # c /\ conn[d] \in {"out", "over"}
  BY <1>2, <1>9 DEF Typed, ClientTypes
<1>10. \A d \in Clients : conn'[d] \in {"out", "over"} =>
          /\ \A i \in DOMAIN pipe' : pipe'[i][2] # d
          /\ \A fd \in Fds : file'[fd] # d
  BY <1>2, <1>3, <1>4, <1>9 DEF Typed, Placed
<1>. QED  BY <1>6, <1>7, <1>8, <1>10 DEF Placed

\* The acceptor moves it from the socketpair to a free descriptor.
LEMMA ReceivedPlaced ==
  ASSUME Typed, AcceptRecv
  PROVE  Placed'
<1> DEFINE c == Head(pipe)[2]
           fd == Min(FreeFds)
<1>1. /\ c \in Clients /\ 1 \in DOMAIN pipe /\ pipe[1][2] = c
      /\ DOMAIN Tail(pipe) = 1..Len(pipe) - 1
      /\ \A i \in DOMAIN Tail(pipe) : i + 1 \in DOMAIN pipe /\ Tail(pipe)[i] = pipe[i + 1]
  BY PipeHead DEF Typed, AcceptRecv
<1>2. fd \in Fds /\ file[fd] = NoClient
  BY FreeFd DEF Typed, Placed, FreeFds
<1>3. /\ file' = [file EXCEPT ![fd] = c]
      /\ conn' = [conn EXCEPT ![c] = IF @ = "pipe" THEN "in" ELSE @]
      /\ pipe' = Tail(pipe)
  BY DEF AcceptRecv, FreeFds
<1>. HIDE DEF c, fd
<1>4. \A gd \in Fds : file'[gd] = IF gd = fd THEN c ELSE file[gd]
  BY <1>2, <1>3 DEF Typed, PoolTypes
<1>5. \A gd \in Fds : file[gd] # c
  BY <1>1 DEF Typed, Placed
<1>6. \A i \in DOMAIN pipe' : i \in Nat /\ i + 1 # 1 /\ i + 1 \in DOMAIN pipe /\ pipe'[i] = pipe[i + 1]
  BY <1>1, <1>3
<1>7. \A i \in DOMAIN pipe' : pipe'[i][2] # c
  BY <1>1, <1>6 DEF Typed, Placed
<1>8. OnePlace'
  <2>1. file' \in [Fds -> Clients \cup {NoClient}]
    BY <1>1, <1>3 DEF Typed, PoolTypes, Addresses
  <2>2. \A gd, hd \in Fds : file'[gd] = file'[hd] /\ file'[gd] # NoClient => gd = hd
    BY <1>4, <1>5 DEF Typed, Placed, OnePlace
  <2>. QED  BY <2>1, <2>2 DEF OnePlace
<1>9. \A i, j \in DOMAIN pipe' : pipe'[i][2] = pipe'[j][2] => i = j
  <2>. SUFFICES ASSUME NEW i \in DOMAIN pipe', NEW j \in DOMAIN pipe', pipe'[i][2] = pipe'[j][2]
                PROVE  i = j
    OBVIOUS
  <2>1. i + 1 = j + 1
    BY <1>6 DEF Typed, Placed
  <2>. QED  BY <1>6, <2>1
<1>10. \A i \in DOMAIN pipe' : \A gd \in Fds : file'[gd] # pipe'[i][2]
  BY <1>4, <1>6, <1>7 DEF Typed, Placed
<1>11. ASSUME NEW d \in Clients, conn'[d] \in {"out", "over"}
       PROVE  d # c /\ conn[d] \in {"out", "over"}
  <2>1. conn[c] \notin {"out", "over"}
    BY <1>1 DEF Typed, Placed
  <2>. QED  BY <1>1, <1>3, <1>11, <2>1 DEF Typed, ClientTypes
<1>12. \A d \in Clients : conn'[d] \in {"out", "over"} =>
          /\ \A i \in DOMAIN pipe' : pipe'[i][2] # d
          /\ \A gd \in Fds : file'[gd] # d
  BY <1>4, <1>6, <1>11 DEF Typed, Placed
<1>. QED  BY <1>8, <1>9, <1>10, <1>12 DEF Placed

\* Who closes a descriptor takes its client out of the process.
LEMMA ClosedPlaced ==
  ASSUME Typed, NEW fds \in SUBSET Fds, CloseAll(fds), pipe' = pipe
  PROVE  Placed'
<1>1. \A fd \in Fds : file'[fd] = IF fd \in fds THEN NoClient ELSE file[fd]
  BY DEF CloseAll
<1>2. NoClient \notin Clients
  BY RoomAssumption DEF RoomAssumption
<1>3. OnePlace'
  <2>1. file' \in [Fds -> Clients \cup {NoClient}]
    BY DEF CloseAll, Typed, PoolTypes, Addresses
  <2>2. \A fd, gd \in Fds : file'[fd] = file'[gd] /\ file'[fd] # NoClient => fd = gd
    BY <1>1 DEF Typed, Placed, OnePlace
  <2>. QED  BY <2>1, <2>2 DEF OnePlace
<1>4. \A i \in DOMAIN pipe : pipe[i][2] \in Clients
  BY LenProperties DEF Typed, LinkTypes
<1>5. \A i \in DOMAIN pipe' : \A fd \in Fds : file'[fd] # pipe'[i][2]
  BY <1>1, <1>2, <1>4 DEF Typed, Placed
<1>6. ASSUME NEW c \in Clients, conn'[c] \in {"out", "over"}
      PROVE  /\ \A i \in DOMAIN pipe' : pipe'[i][2] # c
             /\ \A fd \in Fds : file'[fd] # c
  <2>1. CASE c \in ClosedClients(fds)
    <3>1. PICK fd \in fds : c = file[fd]
      BY <2>1 DEF ClosedClients
    <3>2. \A gd \in Fds : file'[gd] # c
      BY <1>1, <1>2, <3>1 DEF Typed, Placed, OnePlace
    <3>3. \A i \in DOMAIN pipe' : pipe'[i][2] # c
      BY <3>1 DEF Typed, Placed
    <3>. QED  BY <3>2, <3>3
  <2>2. CASE c \notin ClosedClients(fds)
    <3>1. conn'[c] = conn[c]
      BY <2>2 DEF CloseAll
    <3>. QED  BY <1>1, <1>2, <1>6, <3>1 DEF Typed, Placed
  <2>. QED  BY <2>1, <2>2
<1>. QED  BY <1>3, <1>5, <1>6 DEF Typed, Placed

LEMMA PlacedStep ==
  ASSUME Typed, [Next]_vars
  PROVE  Placed'
<1>1. ASSUME NEW c \in Clients, HangUp(c)  PROVE Placed'
  <2>1. conn' = [conn EXCEPT ![c] = "gone"] /\ file' = file /\ pipe' = pipe
    BY <1>1 DEF HangUp, poolVars, linkVars
  <2>2. \A d \in Clients : conn'[d] \in {"out", "over"} => conn[d] \in {"out", "over"}
    BY <2>1 DEF Typed, ClientTypes
  <2>. QED  BY <2>1, <2>2 DEF Typed, Placed, OnePlace
<1>2. ASSUME UNCHANGED <<file, pipe, conn>>  PROVE Placed'
  BY <1>2 DEF Typed, Placed, OnePlace
<1>3. CASE AcceptCreate
  BY <1>2, <1>3 DEF AcceptCreate, linkVars
<1>4. CASE AcceptTooLate \/ MainDies \/ ClearRoom \/ CloseFd
  BY <1>4, Closes, ClosedPlaced
<1>5. ASSUME NEW t \in SendThreads, SendDeliver(t)  PROVE Placed'
  BY <1>2, <1>5 DEF SendDeliver, poolVars, linkVars
<1>. QED  BY <1>1, <1>2, <1>3, <1>4, <1>5, PlacesKept, PassedPlaced, ReceivedPlaced

LEMMA TypedInit == Init => Typed
<1>. SUFFICES ASSUME Init  PROVE Typed
  OBVIOUS
<1>1. NFds \in Nat /\ 0 \in 0..NFds + 1
  BY RoomAssumption DEF RoomAssumption
<1>2. PoolTypes /\ MainTypes /\ AcceptorTypes
  BY <1>1 DEF Init, PoolTypes, MainTypes, AcceptorTypes, Addresses
<1>3. QueueTypes /\ LinkTypes /\ ClientTypes
  BY EmptySeq DEF Init, QueueTypes, LinkTypes, ClientTypes
<1>4. DOMAIN pipe = {}
  BY DEF Init
<1>5. \A c \in Clients : \A fd \in Fds : file[fd] # c
  BY RoomAssumption DEF Init, RoomAssumption
<1>6. Placed
  BY <1>4, <1>5 DEF Init, Placed, OnePlace
<1>. QED  BY <1>2, <1>3, <1>6 DEF Typed

LEMMA TypedAlways == Spec => []Typed
<1>1. Typed /\ [Next]_vars => Typed'
  BY PoolTypeStep, MainTypeStep, AcceptorTypeStep, QueueTypeStep, LinkTypeStep, ClientTypeStep,
     PlacedStep DEF Typed
<1>. QED  BY TypedInit, <1>1, PTL DEF Spec

\* Whatever clients, acceptor, main thread and senders do in whatever order, the
\* variables keep their types: the acceptor finds a free number for every client it is
\* passed (room.cpp:466), and no index runs past the arrays of the pool.
THEOREM RoomTypeCorrect == Spec => []TypeOK
  BY TypedAlways, TypedIsTypeOK, PTL

-----------------------------------------------------------------------------
(* The owner *)

\* A meeting leaves one trace at a time: the room is ready for it, its 'C' is in the
\* socketpair or in the acceptor's hand, it has an owner, or its end is to be
\* reported, is reported.
Ordered   == \E i \in DOMAIN pipe : pipe[i][1] = "C"
Admitting == apc = "admit" /\ cmd = "C"
Owned     == owner # 0
Ending    == mpc = "notify E"
Reported  == \E i \in DOMAIN notices : notices[i] = "E"

OneTrace ==
    /\ ready => ~Ordered /\ ~Admitting /\ ~Owned /\ ~Ending /\ ~Reported
    /\ Ordered => ~Admitting /\ ~Owned /\ ~Ending /\ ~Reported
    /\ Admitting => ~Owned /\ ~Ending /\ ~Reported
    /\ Owned => ~Ending /\ ~Reported
    /\ Ending => ~Reported
    /\ \A i, j \in DOMAIN pipe : pipe[i][1] = "C" /\ pipe[j][1] = "C" => i = j
    /\ \A i, j \in DOMAIN notices : notices[i] = "E" /\ notices[j] = "E" => i = j

\* Nobody is admitted before the first owner, although roomstatus is ON from the start.
FirstMeeting ==
    meetings = 0 =>
        /\ \A fd \in Fds : status[fd] # "ON"
        /\ \/ ready /\ pipe = <<>> /\ apc = "recv"
           \/ pipe # <<>> /\ pipe[1][1] = "C" /\ apc = "recv"
           \/ Admitting

\* The owner has the lowest number: when its descriptor arrives the last meeting has
\* given it back, and nobody but a guest about to be turned away has it meanwhile.
NumberOne ==
    /\ owner \in {0, 1}
    /\ owner = 1 => status[1] = "ON" /\ file[1] # NoClient
    /\ file[1] # NoClient => owner = 1 \/ (apc = "admit" /\ tfd = 1)
    /\ status[1] = "ON" => owner = 1
    /\ Admitting => tfd = 1 /\ file[1] # NoClient
    /\ apc = "admit" /\ owner = 1 => tfd # 1
    /\ roomstatus = "ON" /\ apc # "dead" => owner = 1 \/ meetings = 0

\* The main thread looks at the lowest number only for the owner, and closes it only
\* with the room.
OwnerInHand ==
    /\ 1 \in rset => owner = 1
    /\ mpc = "select" => rset = {}
    /\ mpc \notin {"select", "next"} => cfd \notin rset
    /\ mpc \in {"read", "kick", "close"} /\ cfd = 1 => owner = 1
    /\ mpc = "clear" => owner = cfd
    /\ mpc \in {"drop", "notify Q", "close fd"} => cfd # 1

OwnerInv == Typed /\ MaxfdCoversMembers /\ OneTrace /\ FirstMeeting /\ NumberOne /\ OwnerInHand

\* The steps between the locked sections: they move the main thread or the acceptor
\* on and touch nothing the owner depends on.
BetweenSections ==
    /\ UNCHANGED <<file, status, owner, maxfd, roomstatus, rset, cfd, cmd, tfd, pipe, notices,
                   ready, meetings>>
    /\ \/ apc' = apc
       \/ apc \in {"compose", "push", "list"} /\ apc' \in {"push", "list", "recv"}
    /\ \/ mpc' = mpc
       \/ mpc \in {"read", "kick"} /\ mpc' \in {"kick", "next", "close"}
       \/ mpc = "close" /\ mpc' = IF owner = cfd THEN "clear" ELSE "drop"
       \/ mpc = "push exit" /\ mpc' = "next"

LEMMA RoomSteps ==
  ASSUME [Next]_vars
  PROVE  \/ \E c \in Clients : Create(c) \/ Join(c)
         \/ ParentReads
         \/ AcceptRecv \/ AcceptCreate \/ AcceptTooLate \/ AcceptJoin
         \/ MainSelect \/ MainDies \/ MainTimeout \/ MainNext
         \/ ClearRoom \/ DropMember \/ NotifyParent \/ CloseFd
         \/ BetweenSections
<1>. USE DEF BetweenSections
<1>1. ASSUME NEW c \in Clients, HangUp(c)  PROVE BetweenSections
  BY <1>1 DEF HangUp, poolVars, mainVars, acptVars, linkVars
<1>2. ASSUME NEW fd \in Fds, FallSilent(fd)  PROVE BetweenSections
  BY <1>2 DEF FallSilent, mainVars, acptVars, linkVars
<1>3. ASSUME AcceptCompose \/ AcceptPush \/ AcceptList  PROVE BetweenSections
  BY <1>3 DEF AcceptCompose, AcceptPush, AcceptList, poolVars, mainVars, linkVars
<1>4. ASSUME MainReadFails \/ MainKick \/ MainKickNotify  PROVE BetweenSections
  BY <1>4 DEF MainReadFails, MainKick, MainKickNotify, poolVars, acptVars, linkVars
<1>5. ASSUME MainHeartbeat \/ MainForward \/ MainKickRefused  PROVE BetweenSections
  BY <1>5 DEF MainHeartbeat, MainForward, MainKickRefused, Answer, poolVars, acptVars, linkVars
<1>6. ASSUME CloseTest \/ PushExit  PROVE BetweenSections
  BY <1>6 DEF CloseTest, PushExit, poolVars, acptVars, linkVars
<1>7. ASSUME NEW t \in SendThreads, Sender(t)  PROVE BetweenSections
  BY <1>7 DEF Sender, SendPop, SendDeliver, poolVars, mainVars, acptVars, linkVars
<1>8. ASSUME UNCHANGED vars  PROVE BetweenSections
  BY <1>8 DEF vars, poolVars, mainVars, acptVars, linkVars
<1>. HIDE DEF BetweenSections
<1>. QED  BY <1>1, <1>2, <1>3, <1>4, <1>5, <1>6, <1>7, <1>8 DEF Next, Acceptor, Main, Closing

\* maxfd: it is raised for whoever enters, and lowered only below a member that leaves.
LEMMA MaxfdStep ==
  ASSUME Typed, MaxfdCoversMembers, [Next]_vars
  PROVE  MaxfdCoversMembers'
<1>. USE DEF MaxfdCoversMembers, On
<1>1. ASSUME UNCHANGED <<status, maxfd>>  PROVE MaxfdCoversMembers'
  BY <1>1
<1>2. ASSUME NEW fd \in Fds, Enter(fd)  PROVE MaxfdCoversMembers'
  <2>1. maxfd \in Nat /\ maxfd' \in Nat /\ maxfd <= maxfd' /\ fd <= maxfd'
    BY <1>2, FdsAreNumbers DEF Enter, Typed, PoolTypes
  <2>2. \A gd \in Fds : status'[gd] = "ON" => gd = fd \/ status[gd] = "ON"
    BY <1>2 DEF Enter, Typed, PoolTypes
  <2>3. \A gd \in Fds : gd \in Nat
    BY FdsAreNumbers
  <2>. QED  BY <2>1, <2>2, <2>3
<1>3. CASE AcceptCreate \/ AcceptJoin
  BY <1>2, <1>3 DEF AcceptCreate, AcceptJoin, Typed, AcceptorTypes
<1>4. CASE MainDies \/ ClearRoom
  BY <1>4 DEF MainDies, ClearRoom
<1>5. CASE DropMember
  <2>1. cfd \in Fds /\ maxfd \in Nat
    <3>1. cfd \in Fds /\ maxfd \in Fds \cup {0}
      BY <1>5 DEF DropMember, Typed, PoolTypes, MainTypes
    <3>. QED  BY <3>1, FdsAreNumbers
  <2>2. status' = [status EXCEPT ![cfd] = "CLOSE"]
        /\ maxfd' = IF cfd = maxfd THEN maxfd - 1 ELSE maxfd
    BY <1>5 DEF DropMember
  <2>3. \A fd \in Fds : fd \in Nat
    BY FdsAreNumbers
  <2>4. \A fd \in Fds : status'[fd] = "ON" => fd # cfd /\ status[fd] = "ON"
    BY <2>2 DEF Typed, PoolTypes
  <2>5. ASSUME NEW fd \in Fds, status'[fd] = "ON"  PROVE fd <= maxfd'
    <3>1. fd <= maxfd /\ fd # cfd
      BY <2>4, <2>5
    <3>. QED  BY <2>1, <2>2, <2>3, <3>1
  <2>. QED  BY <2>5
<1>. HIDE DEF MaxfdCoversMembers, On
<1>6. ASSUME NEW c \in Clients, Create(c) \/ Join(c)  PROVE MaxfdCoversMembers'
  BY <1>1, <1>6 DEF Create, Join, poolVars
<1>7. CASE ParentReads
  BY <1>1, <1>7 DEF ParentReads, poolVars
<1>8. CASE AcceptRecv \/ AcceptTooLate
  BY <1>1, <1>8 DEF AcceptRecv, AcceptTooLate
<1>9. CASE MainSelect \/ MainTimeout \/ MainNext \/ NotifyParent \/ CloseFd
  BY <1>1, <1>9 DEF MainSelect, MainTimeout, MainNext, NotifyParent, CloseFd, poolVars
<1>10. CASE BetweenSections
  BY <1>1, <1>10 DEF BetweenSections
<1>. QED  BY <1>3, <1>4, <1>5, <1>6, <1>7, <1>8, <1>9, <1>10, RoomSteps

\* No loop that stops at maxfd passes a member over, however often numbers are
\* reused: fdclose lowers maxfd by one at most and clear_room not at all
\* (room.cpp:71-84, 438-441).
THEOREM MaxfdCovers == Spec => []MaxfdCoversMembers
<1>1. Init => MaxfdCoversMembers
  BY DEF Init, MaxfdCoversMembers, On
<1>2. Typed /\ MaxfdCoversMembers /\ [Next]_vars => MaxfdCoversMembers'
  BY MaxfdStep
<1>. QED  BY <1>1, <1>2, TypedAlways, PTL DEF Spec

\* The socketpair of notices.
LEMMA NoticesAppended ==
  ASSUME LinkTypes, NEW n \in {"E", "Q"}
  PROVE  /\ Len(notices) \in Nat
         /\ DOMAIN notices = 1..Len(notices)
         /\ DOMAIN Append(notices, n) = 1..Len(notices) + 1
         /\ \A i \in DOMAIN notices : Append(notices, n)[i] = notices[i]
         /\ Append(notices, n)[Len(notices) + 1] = n
         /\ \A i \in DOMAIN Append(notices, n) : i \in DOMAIN notices \/ i = Len(notices) + 1
<1>1. notices \in Seq({"E", "Q"})
  BY DEF LinkTypes
<1>2. /\ Append(notices, n) \in Seq({"E", "Q"})
      /\ Len(Append(notices, n)) = Len(notices) + 1
      /\ \A i \in 1..Len(notices) : Append(notices, n)[i] = notices[i]
      /\ Append(notices, n)[Len(notices) + 1] = n
  BY <1>1, AppendProperties
<1>3. Len(notices) \in Nat /\ DOMAIN notices = 1..Len(notices)
  BY <1>1, LenProperties
<1>4. DOMAIN Append(notices, n) = 1..Len(Append(notices, n))
  BY <1>2, LenProperties
<1>5. DOMAIN Append(notices, n) = 1..Len(notices) + 1
  BY <1>2, <1>4
<1>6. \A i \in 1..Len(notices) + 1 : i \in 1..Len(notices) \/ i = Len(notices) + 1
  BY <1>3
<1>. QED  BY <1>2, <1>3, <1>5, <1>6

LEMMA NoticesHead ==
  ASSUME LinkTypes, notices # <<>>
  PROVE  /\ 1 \in DOMAIN notices /\ Head(notices) = notices[1]
         /\ \A i \in DOMAIN Tail(notices) :
               i \in Nat \ {0} /\ i + 1 \in DOMAIN notices /\ Tail(notices)[i] = notices[i + 1]
<1>1. Len(notices) \in Nat /\ DOMAIN notices = 1..Len(notices) /\ Len(notices) # 0
  BY LenProperties, EmptySeq DEF LinkTypes
<1>2. /\ Head(notices) = notices[1]
      /\ Tail(notices) \in Seq({"E", "Q"})
      /\ Len(Tail(notices)) = Len(notices) - 1
      /\ \A i \in 1..Len(Tail(notices)) : Tail(notices)[i] = notices[i + 1]
  BY HeadTailProperties DEF LinkTypes
<1>3. DOMAIN Tail(notices) = 1..Len(Tail(notices))
  BY <1>2, LenProperties
<1>. QED  BY <1>1, <1>2, <1>3

\* What read_fd gives the acceptor: a 'C' gets the lowest number.
LEMMA Received ==
  ASSUME OwnerInv, AcceptRecv
  PROVE  /\ apc = "recv" /\ apc' = "admit" /\ pipe # <<>>
         /\ cmd' = pipe[1][1] /\ 1 \in DOMAIN pipe
         /\ tfd' \in Fds /\ file[tfd'] = NoClient
         /\ \A fd \in Fds : fd # tfd' => file'[fd] = file[fd]
         /\ file'[tfd'] \in Clients
         /\ cmd' = "C" => Ordered /\ tfd' = 1
         /\ \A i \in DOMAIN pipe' : i \in Nat \ {0} /\ i + 1 \in DOMAIN pipe /\ pipe'[i] = pipe[i + 1]
         /\ UNCHANGED <<status, owner, maxfd, roomstatus, mpc, rset, cfd, notices, ready, meetings>>
<1>1. /\ apc = "recv" /\ apc' = "admit" /\ pipe # <<>> /\ pipe' = Tail(pipe)
      /\ cmd' = Head(pipe)[1] /\ tfd' = Min(FreeFds)
      /\ file' = [file EXCEPT ![tfd'] = Head(pipe)[2]]
      /\ UNCHANGED <<status, owner, maxfd, roomstatus, mpc, rset, cfd, notices, ready, meetings>>
  BY DEF AcceptRecv, FreeFds, mainVars
<1>2. /\ Head(pipe)[2] \in Clients
      /\ 1 \in DOMAIN pipe /\ Head(pipe) = pipe[1]
      /\ DOMAIN Tail(pipe) = 1..Len(pipe) - 1
      /\ \A i \in DOMAIN Tail(pipe) : i + 1 \in DOMAIN pipe /\ Tail(pipe)[i] = pipe[i + 1]
  BY <1>1, PipeHead DEF OwnerInv, Typed
<1>3. tfd' \in Fds /\ file[tfd'] = NoClient /\ \A fd \in FreeFds : tfd' <= fd
  BY <1>1, FreeFd DEF OwnerInv, Typed, Placed, FreeFds
<1>4. ASSUME cmd' = "C"  PROVE Ordered /\ tfd' = 1
  <2>1. Ordered
    BY <1>1, <1>2, <1>4 DEF Ordered
  <2>2. file[1] = NoClient
    <3>1. owner = 0
      BY <2>1 DEF OwnerInv, OneTrace, Owned
    <3>2. apc # "admit" /\ owner # 1
      BY <1>1, <3>1
    <3>. QED  BY <3>2 DEF OwnerInv, NumberOne
  <2>3. 1 \in FreeFds
    BY <2>2, FdsAreNumbers DEF FreeFds
  <2>4. tfd' <= 1 /\ tfd' \in Nat /\ tfd' # 0
    BY <1>3, <2>3, FdsAreNumbers
  <2>. QED  BY <2>1, <2>4
<1>5. \A i \in DOMAIN pipe' : i \in Nat \ {0} /\ i + 1 \in DOMAIN pipe /\ pipe'[i] = pipe[i + 1]
  BY <1>1, <1>2
<1>6. \A fd \in Fds : file'[fd] = IF fd = tfd' THEN Head(pipe)[2] ELSE file[fd]
  BY <1>1 DEF OwnerInv, Typed, PoolTypes
<1>. QED  BY <1>1, <1>2, <1>3, <1>4, <1>5, <1>6

\* One trace at a time.
LEMMA TraceStep ==
  ASSUME OwnerInv, [Next]_vars
  PROVE  OneTrace'
<1>1. OneTrace /\ LinkTypes
  BY DEF OwnerInv, Typed
<1>. USE DEF OneTrace, Ordered, Admitting, Owned, Ending, Reported
<1>2. ASSUME UNCHANGED <<ready, pipe, notices>>, Admitting' => Admitting, Owned' => Owned,
             Ending' => Ending
      PROVE  OneTrace'
  BY <1>1, <1>2
<1>3. ASSUME NEW c \in Clients, Create(c)  PROVE OneTrace'
  <2>1. /\ ready /\ ~ready' /\ pipe' = Append(pipe, <<"C", c>>)
        /\ UNCHANGED <<notices, apc, cmd, owner, mpc>>
    BY <1>3 DEF Create, acptVars, poolVars, mainVars
  <2>2. \A i \in DOMAIN pipe' : pipe'[i][1] = "C" => i = Len(pipe) + 1
    <3>1. /\ \A i \in DOMAIN pipe' : i \in DOMAIN pipe \/ i = Len(pipe) + 1
          /\ \A i \in DOMAIN pipe : pipe'[i] = pipe[i]
      BY <1>1, <2>1, PipeAppended
    <3>2. \A i \in DOMAIN pipe : pipe[i][1] # "C"
      BY <1>1, <2>1
    <3>. QED  BY <3>1, <3>2
  <2>. QED  BY <1>1, <2>1, <2>2
<1>4. ASSUME NEW c \in Clients, Join(c)  PROVE OneTrace'
  <2>1. pipe' = Append(pipe, <<"J", c>>) /\ UNCHANGED <<ready, notices, apc, cmd, owner, mpc>>
    BY <1>4 DEF Join, acptVars, poolVars, mainVars
  <2>2. \A i \in DOMAIN pipe' :
           pipe'[i][1] = "C" => i \in DOMAIN pipe /\ pipe[i][1] = "C"
    <3>1. /\ \A i \in DOMAIN pipe' : i \in DOMAIN pipe \/ i = Len(pipe) + 1
          /\ \A i \in DOMAIN pipe : pipe'[i] = pipe[i]
          /\ pipe'[Len(pipe) + 1] = <<"J", c>>
      BY <1>1, <2>1, PipeAppended
    <3>. QED  BY <3>1
  <2>. QED  BY <1>1, <2>1, <2>2
<1>5. CASE ParentReads
  <2>1. /\ notices # <<>> /\ ready' = (ready \/ Head(notices) = "E") /\ notices' = Tail(notices)
        /\ UNCHANGED <<pipe, apc, cmd, owner, mpc>>
    BY <1>5 DEF ParentReads, acptVars, poolVars, mainVars
  <2>2. /\ 1 \in DOMAIN notices /\ Head(notices) = notices[1]
        /\ \A i \in DOMAIN notices' :
              i \in Nat \ {0} /\ i + 1 \in DOMAIN notices /\ notices'[i] = notices[i + 1]
    BY <1>1, <2>1, NoticesHead
  <2>3. Reported' => Reported
    BY <2>2
  <2>4. Head(notices) = "E" => ~Reported'
    <3>. SUFFICES ASSUME Head(notices) = "E", NEW i \in DOMAIN notices', notices'[i] = "E"
                  PROVE  FALSE
      OBVIOUS
    <3>1. i \in Nat /\ i + 1 # 1
      BY <2>2
    <3>2. i + 1 \in DOMAIN notices /\ notices[i + 1] = "E" /\ 1 \in DOMAIN notices /\ notices[1] = "E"
      BY <2>2
    <3>. QED  BY <1>1, <3>1, <3>2
  <2>5. Head(notices) = "E" => Reported
    BY <2>2
  <2>6. \A i, j \in DOMAIN notices' : notices'[i] = "E" /\ notices'[j] = "E" => i = j
    <3>. SUFFICES ASSUME NEW i \in DOMAIN notices', NEW j \in DOMAIN notices',
                         notices'[i] = "E", notices'[j] = "E"
                  PROVE  i = j
      OBVIOUS
    <3>1. i \in Nat /\ j \in Nat
      BY <2>2
    <3>2. /\ i + 1 \in DOMAIN notices /\ notices[i + 1] = "E"
          /\ j + 1 \in DOMAIN notices /\ notices[j + 1] = "E"
      BY <2>2
    <3>3. i + 1 = j + 1
      BY <1>1, <3>2
    <3>. QED  BY <3>1, <3>3
  <2>. HIDE DEF Reported
  <2>. QED  BY <1>1, <2>1, <2>3, <2>4, <2>5, <2>6
<1>6. CASE AcceptRecv
  <2>1. /\ apc = "recv" /\ cmd' = pipe[1][1] /\ 1 \in DOMAIN pipe
        /\ \A i \in DOMAIN pipe' : i \in Nat \ {0} /\ i + 1 \in DOMAIN pipe /\ pipe'[i] = pipe[i + 1]
        /\ UNCHANGED <<owner, mpc, notices, ready>>
    BY <1>6, Received
  <2>2. Ordered' => Ordered
    BY <2>1
  <2>3. cmd' = "C" => Ordered /\ ~Ordered'
    <3>. SUFFICES ASSUME pipe[1][1] = "C", NEW i \in DOMAIN pipe', pipe'[i][1] = "C"
                  PROVE  FALSE
      BY <2>1
    <3>1. i \in Nat /\ i + 1 # 1
      BY <2>1
    <3>2. i + 1 \in DOMAIN pipe /\ pipe[i + 1][1] = "C" /\ 1 \in DOMAIN pipe /\ pipe[1][1] = "C"
      BY <2>1
    <3>. QED  BY <1>1, <3>1, <3>2
  <2>4. \A i, j \in DOMAIN pipe' : pipe'[i][1] = "C" /\ pipe'[j][1] = "C" => i = j
    <3>. SUFFICES ASSUME NEW i \in DOMAIN pipe', NEW j \in DOMAIN pipe',
                         pipe'[i][1] = "C", pipe'[j][1] = "C"
                  PROVE  i = j
      OBVIOUS
    <3>1. i \in Nat /\ j \in Nat
      BY <2>1
    <3>2. /\ i + 1 \in DOMAIN pipe /\ pipe[i + 1][1] = "C"
          /\ j + 1 \in DOMAIN pipe /\ pipe[j + 1][1] = "C"
      BY <2>1
    <3>3. i + 1 = j + 1
      BY <1>1, <3>2
    <3>. QED  BY <3>1, <3>3
  <2>. HIDE DEF Ordered
  <2>. QED  BY <1>1, <2>1, <2>2, <2>3, <2>4
<1>7. CASE AcceptCreate
  <2>1. apc = "admit" /\ cmd = "C" /\ apc' = "push"
        /\ UNCHANGED <<ready, pipe, notices, mpc>>
    BY <1>7 DEF AcceptCreate, linkVars, mainVars
  <2>. QED  BY <1>1, <2>1
<1>8. CASE AcceptTooLate \/ AcceptJoin
  BY <1>2, <1>8 DEF AcceptTooLate, AcceptJoin, linkVars, mainVars
<1>9. CASE MainSelect \/ MainTimeout \/ MainNext \/ DropMember \/ CloseFd
  BY <1>2, <1>9 DEF MainSelect, MainTimeout, MainNext, DropMember, CloseFd, linkVars, acptVars,
                    poolVars
<1>10. CASE MainDies
  BY <1>2, <1>10 DEF MainDies, linkVars
<1>11. CASE ClearRoom
  <2>1. Owned
    <3>1. owner = cfd /\ cfd \in Fds
      BY <1>11 DEF ClearRoom, OwnerInv, OwnerInHand, Typed, MainTypes
    <3>. QED  BY <3>1, FdsAreNumbers
  <2>2. owner' = 0 /\ UNCHANGED <<ready, pipe, notices, apc, cmd>>
    BY <1>11 DEF ClearRoom, linkVars, acptVars
  <2>. QED  BY <1>1, <2>1, <2>2
<1>12. CASE NotifyParent
  <2>1. UNCHANGED <<ready, pipe, apc, cmd, owner>> /\ ~Ending'
    BY <1>12 DEF NotifyParent, poolVars, acptVars
  <2>2. CASE Ending /\ notices' = Append(notices, "E")
    <3>1. /\ \A i \in DOMAIN notices' : i \in DOMAIN notices \/ i = Len(notices) + 1
          /\ \A i \in DOMAIN notices : notices'[i] = notices[i]
      BY <1>1, <2>2, NoticesAppended
    <3>2. \A i \in DOMAIN notices' : notices'[i] = "E" => i = Len(notices) + 1
      BY <1>1, <2>2, <3>1
    <3>. QED  BY <1>1, <2>1, <2>2, <3>2
  <2>3. CASE notices' = Append(notices, "Q")
    <3>1. /\ \A i \in DOMAIN notices' : i \in DOMAIN notices \/ i = Len(notices) + 1
          /\ \A i \in DOMAIN notices : notices'[i] = notices[i]
          /\ notices'[Len(notices) + 1] = "Q"
      BY <1>1, <2>3, NoticesAppended
    <3>2. \A i \in DOMAIN notices' : notices'[i] = "E" => i \in DOMAIN notices /\ notices[i] = "E"
      BY <3>1
    <3>. QED  BY <1>1, <2>1, <3>2
  <2>. QED  BY <1>12, <2>2, <2>3 DEF NotifyParent
<1>13. CASE BetweenSections
  BY <1>2, <1>13 DEF BetweenSections
<1>. HIDE DEF OneTrace, Ordered, Admitting, Owned, Ending, Reported
<1>. QED  BY <1>3, <1>4, <1>5, <1>6, <1>7, <1>8, <1>9, <1>10, <1>11, <1>12, <1>13, RoomSteps

\* Until the first 'C' is admitted the acceptor has had nothing else to admit.
LEMMA FirstMeetingStep ==
  ASSUME OwnerInv, [Next]_vars
  PROVE  FirstMeeting'
<1>1. FirstMeeting /\ LinkTypes /\ PoolTypes /\ ClientTypes
  BY DEF OwnerInv, Typed
<1>. USE DEF FirstMeeting, Admitting
<1>2. ASSUME UNCHANGED <<status, ready, pipe, apc, cmd, meetings>>  PROVE FirstMeeting'
  BY <1>1, <1>2
<1>3. ASSUME NEW c \in Clients, NEW k \in {"C", "J"}, pipe' = Append(pipe, <<k, c>>)
      PROVE  /\ pipe # <<>> => pipe' # <<>> /\ pipe'[1] = pipe[1]
             /\ pipe = <<>> => pipe' # <<>> /\ pipe'[1] = <<k, c>>
  <2>1. /\ Len(pipe) \in Nat
        /\ DOMAIN pipe = 1..Len(pipe)
        /\ DOMAIN pipe' = 1..Len(pipe) + 1
        /\ \A i \in DOMAIN pipe : pipe'[i] = pipe[i]
        /\ pipe'[Len(pipe) + 1] = <<k, c>>
    BY <1>1, <1>3, PipeAppended
  <2>2. 1 \in DOMAIN pipe' /\ DOMAIN <<>> = {}
    BY <2>1
  <2>3. pipe' # <<>>
    BY <2>2
  <2>4. CASE pipe # <<>>
    <3>1. Len(pipe) # 0
      BY <1>1, <2>4, EmptySeq DEF LinkTypes
    <3>. QED  BY <2>1, <2>3, <2>4, <3>1
  <2>5. CASE pipe = <<>>
    <3>1. Len(pipe) + 1 = 1
      BY <2>5
    <3>. QED  BY <2>1, <2>3, <2>5, <3>1
  <2>. QED  BY <2>4, <2>5
<1>4. ASSUME NEW c \in Clients, Create(c)  PROVE FirstMeeting'
  <2>1. pipe' = Append(pipe, <<"C", c>>) /\ UNCHANGED <<status, apc, cmd, meetings>>
    BY <1>4 DEF Create, poolVars, acptVars
  <2>2. pipe' # <<>> /\ (pipe # <<>> => pipe'[1] = pipe[1]) /\ (pipe = <<>> => pipe'[1] = <<"C", c>>)
    BY <1>3, <2>1
  <2>. QED  BY <1>1, <2>1, <2>2
<1>5. ASSUME NEW c \in Clients, Join(c)  PROVE FirstMeeting'
  <2>1. /\ pipe' = Append(pipe, <<"J", c>>) /\ UNCHANGED <<status, ready, apc, cmd, meetings>>
        /\ meetings = 0 => ~ready
    BY <1>1, <1>5 DEF Join, poolVars, acptVars, ClientTypes
  <2>2. pipe # <<>> => pipe' # <<>> /\ pipe'[1] = pipe[1]
    BY <1>3, <2>1
  <2>. QED  BY <1>1, <2>1, <2>2
<1>6. CASE ParentReads
  <2>1. (ready => ready') /\ UNCHANGED <<status, pipe, apc, cmd, meetings>>
    BY <1>6 DEF ParentReads, poolVars, acptVars
  <2>. QED  BY <1>1, <2>1
<1>7. CASE AcceptRecv
  <2>1. /\ apc = "recv" /\ apc' = "admit" /\ pipe # <<>> /\ cmd' = pipe[1][1]
        /\ UNCHANGED <<status, meetings>>
    BY <1>7, Received
  <2>. QED  BY <1>1, <2>1
<1>8. CASE AcceptCreate
  <2>1. meetings' # 0
    BY <1>1, <1>8 DEF AcceptCreate, ClientTypes
  <2>. QED  BY <2>1
<1>9. CASE AcceptTooLate \/ AcceptJoin
  <2>1. apc = "admit" /\ cmd = "J" /\ meetings' = meetings
    BY <1>9 DEF AcceptTooLate, AcceptJoin
  <2>. QED  BY <1>1, <2>1
<1>10. CASE MainDies
  <2>1. (\E fd \in Fds : status[fd] = "ON") /\ meetings' = meetings
    BY <1>10 DEF MainDies, On
  <2>. QED  BY <1>1, <2>1
<1>11. CASE ClearRoom
  <2>1. status' = [fd \in Fds |-> "CLOSE"] /\ UNCHANGED <<ready, pipe, apc, cmd, meetings>>
    BY <1>11 DEF ClearRoom, linkVars, acptVars
  <2>. QED  BY <1>1, <2>1
<1>12. CASE DropMember
  <2>1. /\ status' = [status EXCEPT ![cfd] = "CLOSE"]
        /\ UNCHANGED <<ready, pipe, apc, cmd, meetings>>
    BY <1>12 DEF DropMember, linkVars, acptVars
  <2>2. \A fd \in Fds : status'[fd] = "ON" => status[fd] = "ON"
    BY <1>1, <2>1 DEF PoolTypes
  <2>. QED  BY <1>1, <2>1, <2>2
<1>13. CASE MainSelect \/ MainTimeout \/ MainNext \/ NotifyParent \/ CloseFd
  BY <1>2, <1>13 DEF MainSelect, MainTimeout, MainNext, NotifyParent, CloseFd, linkVars, acptVars,
                     poolVars
<1>14. CASE BetweenSections
  BY <1>1, <1>14 DEF BetweenSections
<1>. HIDE DEF FirstMeeting, Admitting
<1>. QED
  BY <1>4, <1>5, <1>6, <1>7, <1>8, <1>9, <1>10, <1>11, <1>12, <1>13, <1>14, RoomSteps

\* The owner and the lowest number.
LEMMA NumberOneStep ==
  ASSUME OwnerInv, [Next]_vars
  PROVE  NumberOne'
<1>1. /\ NumberOne /\ OneTrace /\ FirstMeeting /\ OwnerInHand
      /\ PoolTypes /\ MainTypes /\ AcceptorTypes /\ ClientTypes
  BY DEF OwnerInv, Typed
<1>2. 1 \in Fds /\ 0 \notin Fds
  BY FdsAreNumbers
<1>. USE DEF NumberOne, Admitting
<1>3. ASSUME UNCHANGED <<owner, status, file, roomstatus, meetings>>,
             apc' = "admit" <=> apc = "admit", apc' = "dead" <=> apc = "dead",
             UNCHANGED <<cmd, tfd>>
      PROVE  NumberOne'
  BY <1>1, <1>3
<1>4. ASSUME NEW c \in Clients, Create(c) \/ Join(c)  PROVE NumberOne'
  BY <1>3, <1>4 DEF Create, Join, poolVars, acptVars
<1>5. CASE ParentReads
  BY <1>3, <1>5 DEF ParentReads, poolVars, acptVars
<1>6. CASE AcceptRecv
  <2>1. /\ apc = "recv" /\ apc' = "admit"
        /\ tfd' \in Fds /\ file[tfd'] = NoClient
        /\ \A fd \in Fds : fd # tfd' => file'[fd] = file[fd]
        /\ file'[tfd'] \in Clients
        /\ cmd' = "C" => Ordered /\ tfd' = 1
        /\ UNCHANGED <<status, owner, roomstatus, meetings>>
    BY <1>6, Received
  <2>2. file'[tfd'] # NoClient
    BY <2>1, RoomAssumption DEF RoomAssumption
  <2>3. owner = 1 => tfd' # 1
    BY <1>1, <2>1
  <2>. QED  BY <1>1, <1>2, <2>1, <2>2, <2>3
<1>7. CASE AcceptCreate
  <2>1. Admitting /\ owner' = tfd /\ file' = file /\ status' = [status EXCEPT ![tfd] = "ON"]
        /\ apc' = "push"
    BY <1>7 DEF AcceptCreate, Enter
  <2>2. tfd = 1 /\ file[1] # NoClient
    BY <1>1, <2>1
  <2>3. status'[1] = "ON" /\ owner' = 1
    BY <1>1, <1>2, <2>1, <2>2 DEF PoolTypes
  <2>. QED  BY <2>1, <2>2, <2>3
<1>8. ASSUME NEW fds \in SUBSET Fds, CloseAll(fds)
      PROVE  file'[1] = IF 1 \in fds THEN NoClient ELSE file[1]
  BY <1>2, <1>8 DEF CloseAll
<1>9. CASE AcceptTooLate
  <2>1. /\ apc = "admit" /\ roomstatus = "CLOSE" /\ CloseAll({tfd}) /\ apc' = "recv"
        /\ UNCHANGED <<status, owner, roomstatus, meetings>>
    BY <1>9 DEF AcceptTooLate
  <2>2. {tfd} \in SUBSET Fds
    BY <1>1, <2>1 DEF AcceptorTypes
  <2>3. file'[1] = IF 1 = tfd THEN NoClient ELSE file[1]
    BY <1>8, <2>1, <2>2
  <2>. QED  BY <1>1, <2>1, <2>3
<1>10. CASE AcceptJoin
  <2>1. /\ apc = "admit" /\ cmd = "J" /\ roomstatus = "ON" /\ apc' = "compose"
        /\ status' = [status EXCEPT ![tfd] = "ON"]
        /\ UNCHANGED <<file, owner, roomstatus, meetings>>
    BY <1>10 DEF AcceptJoin, Enter
  <2>2. meetings # 0
    BY <1>1, <2>1 DEF FirstMeeting
  <2>3. owner = 1
    BY <1>1, <2>1, <2>2
  <2>4. status'[1] = "ON"
    BY <1>1, <1>2, <2>1, <2>3 DEF PoolTypes
  <2>. QED  BY <1>1, <2>1, <2>3, <2>4
<1>11. CASE MainDies
  <2>1. /\ apc' = "dead" /\ CloseAll(Fds) /\ status' = [fd \in Fds |-> "CLOSE"] /\ owner' = 0
    BY <1>11 DEF MainDies
  <2>2. file'[1] = NoClient
    BY <1>2, <1>8, <2>1
  <2>3. status'[1] # "ON"
    BY <1>2, <2>1
  <2>. QED  BY <2>1, <2>2, <2>3
<1>12. CASE ClearRoom
  <2>1. /\ roomstatus' = "CLOSE" /\ CloseAll({fd \in On : fd <= maxfd})
        /\ status' = [fd \in Fds |-> "CLOSE"] /\ owner' = 0
        /\ UNCHANGED <<apc, cmd, tfd, meetings>>
    BY <1>12 DEF ClearRoom, acptVars
  <2>2. owner = 1
    <3>1. owner = cfd /\ cfd \in Fds
      BY <1>1, <1>12 DEF ClearRoom, OwnerInHand, MainTypes
    <3>. QED  BY <1>1, <1>2, <3>1
  <2>3. 1 \in On
    BY <1>1, <1>2, <2>2 DEF On
  <2>4. 1 \in {fd \in On : fd <= maxfd}
    BY <2>3 DEF OwnerInv, MaxfdCoversMembers
  <2>5. file'[1] = NoClient
    BY <1>8, <2>1, <2>4 DEF On
  <2>6. status'[1] # "ON"
    BY <1>2, <2>1
  <2>7. ~Admitting
    <3>1. Owned
      BY <2>2 DEF Owned
    <3>. QED  BY <1>1, <3>1 DEF OneTrace
  <2>. QED  BY <2>1, <2>5, <2>6, <2>7
<1>13. CASE DropMember
  <2>1. /\ status' = [status EXCEPT ![cfd] = "CLOSE"] /\ cfd # 1
        /\ UNCHANGED <<file, owner, roomstatus, apc, cmd, tfd, meetings>>
    BY <1>1, <1>13 DEF DropMember, OwnerInHand, acptVars
  <2>2. status'[1] = status[1]
    BY <1>1, <1>2, <2>1 DEF PoolTypes
  <2>. QED  BY <1>1, <2>1, <2>2
<1>14. CASE CloseFd
  <2>1. /\ CloseAll({cfd}) /\ cfd # 1 /\ cfd \in Fds
        /\ UNCHANGED <<status, owner, roomstatus, apc, cmd, tfd, meetings>>
    BY <1>1, <1>14 DEF CloseFd, OwnerInHand, MainTypes, acptVars
  <2>2. file'[1] = file[1]
    BY <1>8, <2>1
  <2>. QED  BY <1>1, <2>1, <2>2
<1>15. CASE MainSelect \/ MainTimeout \/ MainNext \/ NotifyParent
  BY <1>3, <1>15 DEF MainSelect, MainTimeout, MainNext, NotifyParent, acptVars, poolVars
<1>16. CASE BetweenSections
  BY <1>3, <1>16 DEF BetweenSections
<1>. HIDE DEF NumberOne, Admitting
<1>. QED
  BY <1>4, <1>5, <1>6, <1>7, <1>9, <1>10, <1>11, <1>12, <1>13, <1>14, <1>15, <1>16, RoomSteps

\* The main thread and the lowest number.
LEMMA OwnerInHandStep ==
  ASSUME OwnerInv, [Next]_vars
  PROVE  OwnerInHand'
<1>1. /\ NumberOne /\ OneTrace /\ OwnerInHand
      /\ PoolTypes /\ MainTypes /\ AcceptorTypes
  BY DEF OwnerInv, Typed
<1>2. 1 \in Fds /\ 0 \notin Fds
  BY FdsAreNumbers
<1>. USE DEF OwnerInHand
<1>3. ASSUME UNCHANGED <<owner, mpc, rset, cfd>>  PROVE OwnerInHand'
  BY <1>1, <1>3
<1>4. ASSUME NEW c \in Clients, Create(c) \/ Join(c)  PROVE OwnerInHand'
  BY <1>3, <1>4 DEF Create, Join, poolVars, mainVars
<1>5. CASE ParentReads
  BY <1>3, <1>5 DEF ParentReads, poolVars, mainVars
<1>6. CASE AcceptRecv \/ AcceptTooLate \/ AcceptJoin
  BY <1>3, <1>6 DEF AcceptRecv, AcceptTooLate, AcceptJoin, mainVars
<1>7. CASE AcceptCreate
  <2>1. Admitting /\ owner' = tfd /\ UNCHANGED <<mpc, rset, cfd>>
    BY <1>7 DEF AcceptCreate, Admitting, mainVars
  <2>2. owner' = 1
    BY <1>1, <2>1 DEF NumberOne
  <2>3. mpc # "clear"
    <3>1. mpc = "clear" => owner \in Fds
      BY <1>1 DEF MainTypes
    <3>2. owner = 0
      BY <1>1, <2>1 DEF OneTrace, Owned
    <3>. QED  BY <1>2, <3>1, <3>2
  <2>. QED  BY <1>1, <2>1, <2>2, <2>3
<1>8. CASE MainSelect \/ MainTimeout
  <2>1. rset' \subseteq On /\ mpc' = "next" /\ owner' = owner
    BY <1>8 DEF MainSelect, MainTimeout, Ended, poolVars
  <2>2. 1 \in rset' => owner' = 1
    BY <1>1, <2>1 DEF NumberOne, On
  <2>. QED  BY <2>1, <2>2
<1>9. CASE MainDies
  <2>1. mpc = "select" /\ mpc' = "dead" /\ rset' = rset
    BY <1>9 DEF MainDies
  <2>. QED  BY <1>1, <2>1
<1>10. CASE MainNext
  <2>1. /\ mpc = "next" /\ owner' = owner
        /\ \/ mpc' = "select" /\ rset' = {}
           \/ mpc' \in {"read", "close"} /\ cfd' \notin rset' /\ rset' \subseteq rset
    BY <1>10 DEF MainNext
  <2>2. mpc' # "select" => cfd' \in rset
    <3> DEFINE todo == IF mode = "scan" THEN {fd \in rset : fd <= maxfd} ELSE rset
    <3>. SUFFICES ASSUME mpc' # "select"  PROVE cfd' \in rset
      OBVIOUS
    <3>1. todo # {} /\ cfd' = Min(todo)
      BY <1>10 DEF MainNext
    <3>2. todo \subseteq Fds /\ todo \subseteq rset
      BY <1>1 DEF MainTypes
    <3>. HIDE DEF todo
    <3>3. Min(todo) \in todo
      BY <3>1, <3>2, FdsAreNumbers, MinExists
    <3>. QED  BY <3>1, <3>2, <3>3
  <2>. QED  BY <1>1, <2>1, <2>2
<1>11. CASE ClearRoom
  <2>1. mpc = "clear" /\ mpc' = "notify E" /\ owner' = 0 /\ UNCHANGED <<rset, cfd>>
    BY <1>11 DEF ClearRoom
  <2>2. owner = cfd /\ cfd \in Fds /\ cfd \notin rset
    BY <1>1, <2>1 DEF MainTypes
  <2>3. cfd = 1
    BY <1>1, <1>2, <2>2 DEF NumberOne
  <2>. QED  BY <2>1, <2>2, <2>3
<1>12. CASE DropMember \/ CloseFd
  <2>1. /\ \/ mpc = "drop" /\ mpc' = "notify Q"
           \/ mpc = "close fd" /\ mpc' = "push exit"
        /\ UNCHANGED <<owner, rset, cfd>>
    BY <1>12 DEF DropMember, CloseFd
  <2>. QED  BY <1>1, <2>1
<1>13. CASE NotifyParent
  <2>1. /\ \/ mpc = "notify E" /\ mpc' = "next"
           \/ mpc = "notify Q" /\ mpc' = "close fd"
        /\ UNCHANGED <<owner, rset, cfd>>
    BY <1>13 DEF NotifyParent, poolVars
  <2>. QED  BY <1>1, <2>1
<1>14. CASE BetweenSections
  <2>1. /\ \/ mpc' = mpc
           \/ mpc \in {"read", "kick"} /\ mpc' \in {"kick", "next", "close"}
           \/ mpc = "close" /\ mpc' = IF owner = cfd THEN "clear" ELSE "drop"
           \/ mpc = "push exit" /\ mpc' = "next"
        /\ UNCHANGED <<owner, rset, cfd>>
    BY <1>14 DEF BetweenSections
  <2>. QED  BY <1>1, <2>1
<1>. HIDE DEF OwnerInHand
<1>. QED
  BY <1>4, <1>5, <1>6, <1>7, <1>8, <1>9, <1>10, <1>11, <1>12, <1>13, <1>14, RoomSteps

LEMMA OwnerInvInit == Init => OwnerInv
<1>. SUFFICES ASSUME Init  PROVE OwnerInv
  OBVIOUS
<1>1. Typed
  BY TypedInit
<1>2. MaxfdCoversMembers
  BY DEF Init, MaxfdCoversMembers, On
<1>3. OneTrace /\ FirstMeeting
  BY DEF Init, OneTrace, FirstMeeting, Ordered, Admitting, Owned, Ending, Reported
<1>4. NumberOne /\ OwnerInHand
  BY FdsAreNumbers DEF Init, NumberOne, OwnerInHand, Admitting
<1>. QED  BY <1>1, <1>2, <1>3, <1>4 DEF OwnerInv

LEMMA OwnerInvStep ==
  ASSUME OwnerInv, [Next]_vars
  PROVE  OwnerInv'
<1>1. Typed'
  BY PoolTypeStep, MainTypeStep, AcceptorTypeStep, QueueTypeStep, LinkTypeStep, ClientTypeStep,
     PlacedStep DEF OwnerInv, Typed
<1>2. MaxfdCoversMembers'
  BY MaxfdStep DEF OwnerInv
<1>. QED  BY <1>1, <1>2, TraceStep, FirstMeetingStep, NumberOneStep, OwnerInHandStep DEF OwnerInv

\* While the room has an owner, its connection is open and in the pool: guests,
\* silent members and numbers of the last meeting never make the main thread close it
\* without the room (room.cpp:418-455).
THEOREM OwnerStays == Spec => []OwnerIsMember
<1>1. OwnerInv => OwnerIsMember
  BY DEF OwnerInv, NumberOne, OwnerIsMember
<1>. QED  BY <1>1, OwnerInvInit, OwnerInvStep, PTL DEF Spec

-----------------------------------------------------------------------------
(* The members of a room's first meeting.  A later meeting finds the main thread   *)
(* with numbers of the last one in hand: RoomProcess_meeting runs one meeting too. *)

\* Only before its meeting and after it has the room no members.
OnlyMeeting ==
    /\ Ordered \/ Admitting => meetings = 0
    /\ meetings = 0 => mpc = "select"
    /\ roomstatus = "CLOSE" \/ owner = 0 => \A fd \in Fds : status[fd] # "ON"

\* While there is an owner the numbers the main thread looks at are members; the one it
\* has dropped is not given to anybody before it is closed.
MembersInHand ==
    owner = 1 =>
        /\ \A fd \in rset : status[fd] = "ON"
        /\ mpc \in {"read", "kick", "close", "drop"} => status[cfd] = "ON"
        /\ mpc \in {"notify Q", "close fd"} => status[cfd] # "ON" /\ file[cfd] # NoClient
        /\ apc = "admit" =>
              /\ status[tfd] # "ON" /\ file[tfd] # NoClient
              /\ mpc \in {"notify Q", "close fd"} => cfd # tfd

\* The members collected for their silence are silent still when they are closed.
SilentInHand ==
    /\ mpc \in {"read", "kick"} => mode = "scan"
    /\ owner = 1 /\ mode = "timeouts" => rset \subseteq quiet /\ (mpc = "close" => cfd \in quiet)

MemberInv == OwnerInv /\ OnlyMeeting /\ MembersAreOpen /\ MembersInHand /\ SilentInHand

\* Addresses, silence and the loop the main thread is in change where members come and go.
Unnoticed ==
    /\ BetweenSections
    /\ UNCHANGED <<fdToIp, mode>>
    /\ quiet \subseteq quiet'
    /\ mpc' \in {"notify Q", "close fd", "push exit"} => ip' = ip

LEMMA MemberSteps ==
  ASSUME [Next]_vars
  PROVE  \/ \E c \in Clients : Create(c) \/ Join(c)
         \/ ParentReads
         \/ AcceptRecv \/ AcceptCreate \/ AcceptTooLate \/ AcceptJoin
         \/ MainSelect \/ MainDies \/ MainTimeout \/ MainNext
         \/ ClearRoom \/ DropMember \/ NotifyParent \/ CloseFd
         \/ Unnoticed
<1>. USE DEF Unnoticed, BetweenSections
<1>1. ASSUME NEW c \in Clients, HangUp(c)  PROVE Unnoticed
  BY <1>1 DEF HangUp, poolVars, mainVars, acptVars, linkVars
<1>2. ASSUME NEW fd \in Fds, FallSilent(fd)  PROVE Unnoticed
  BY <1>2 DEF FallSilent, mainVars, acptVars, linkVars
<1>3. ASSUME AcceptCompose \/ AcceptPush \/ AcceptList  PROVE Unnoticed
  BY <1>3 DEF AcceptCompose, AcceptPush, AcceptList, poolVars, mainVars, linkVars
<1>4. ASSUME MainReadFails \/ MainKick \/ MainKickNotify  PROVE Unnoticed
  BY <1>4 DEF MainReadFails, MainKick, MainKickNotify, poolVars, acptVars, linkVars
<1>5. ASSUME MainHeartbeat \/ MainForward \/ MainKickRefused  PROVE Unnoticed
  BY <1>5 DEF MainHeartbeat, MainForward, MainKickRefused, Answer, poolVars, acptVars, linkVars
<1>6. ASSUME CloseTest \/ PushExit  PROVE Unnoticed
  BY <1>6 DEF CloseTest, PushExit, poolVars, acptVars, linkVars
<1>7. ASSUME NEW t \in SendThreads, Sender(t)  PROVE Unnoticed
  BY <1>7 DEF Sender, SendPop, SendDeliver, poolVars, mainVars, acptVars, linkVars
<1>8. ASSUME UNCHANGED vars  PROVE Unnoticed
  BY <1>8 DEF vars, poolVars, mainVars, acptVars, linkVars
<1>. HIDE DEF Unnoticed, BetweenSections
<1>. QED  BY <1>1, <1>2, <1>3, <1>4, <1>5, <1>6, <1>7, <1>8 DEF Next, Acceptor, Main, Closing

\* The one meeting.
LEMMA OnlyMeetingStep ==
  ASSUME MaxMeetings <= 1, MemberInv, [Next]_vars
  PROVE  OnlyMeeting'
<1>1. OwnerInv /\ OnlyMeeting /\ meetings \in Nat /\ MaxMeetings \in Nat
  BY RoomAssumption DEF MemberInv, OwnerInv, Typed, ClientTypes, RoomAssumption
<1>2. FirstMeeting /\ NumberOne /\ OneTrace /\ PoolTypes
  BY <1>1 DEF OwnerInv, Typed
<1>. USE DEF OnlyMeeting
<1>3. ASSUME UNCHANGED <<status, owner, roomstatus, meetings, mpc>>,
             Ordered' \/ Admitting' => Ordered \/ Admitting \/ meetings = 0
      PROVE  OnlyMeeting'
  BY <1>1, <1>3
<1>4. ASSUME NEW c \in Clients, Create(c)  PROVE OnlyMeeting'
  <2>1. meetings = 0 /\ UNCHANGED <<status, owner, roomstatus, meetings, mpc>>
    BY <1>1, <1>4 DEF Create, poolVars, mainVars
  <2>. QED  BY <1>3, <2>1
<1>5. ASSUME NEW c \in Clients, Join(c)  PROVE OnlyMeeting'
  <2>1. /\ pipe' = Append(pipe, <<"J", c>>)
        /\ UNCHANGED <<status, owner, roomstatus, meetings, mpc, apc, cmd>>
    BY <1>5 DEF Join, poolVars, mainVars, acptVars
  <2>2. Ordered' => Ordered
    <3>1. /\ \A i \in DOMAIN pipe' : i \in DOMAIN pipe \/ i = Len(pipe) + 1
          /\ \A i \in DOMAIN pipe : pipe'[i] = pipe[i]
          /\ pipe'[Len(pipe) + 1] = <<"J", c>>
      BY <1>1, <2>1, PipeAppended DEF OwnerInv, Typed
    <3>. QED  BY <3>1 DEF Ordered
  <2>. QED  BY <1>3, <2>1, <2>2 DEF Admitting
<1>6. CASE ParentReads
  BY <1>3, <1>6 DEF ParentReads, poolVars, mainVars, acptVars, Ordered, Admitting
<1>7. CASE AcceptRecv
  <2>1. /\ cmd' = "C" => Ordered
        /\ \A i \in DOMAIN pipe' : i + 1 \in DOMAIN pipe /\ pipe'[i] = pipe[i + 1]
        /\ UNCHANGED <<status, owner, roomstatus, mpc, meetings>>
    BY <1>1, <1>7, Received
  <2>2. (Ordered' => Ordered) /\ (Admitting' => Ordered)
    BY <2>1 DEF Ordered, Admitting
  <2>. QED  BY <1>3, <2>1, <2>2
<1>8. CASE AcceptCreate
  <2>1. /\ Admitting /\ apc' = "push" /\ pipe' = pipe /\ meetings' = meetings + 1
        /\ roomstatus' = "ON" /\ owner' = tfd
    BY <1>8 DEF AcceptCreate, Admitting, linkVars
  <2>2. ~Ordered /\ tfd = 1
    BY <1>2, <2>1 DEF OneTrace, NumberOne
  <2>3. ~Ordered' /\ ~Admitting' /\ meetings' # 0
    BY <1>1, <2>1, <2>2 DEF Ordered, Admitting
  <2>. QED  BY <2>1, <2>2, <2>3
<1>9. CASE AcceptTooLate
  <2>1. /\ ~Admitting' /\ UNCHANGED <<pipe, status, owner, roomstatus, meetings, mpc>>
    BY <1>9 DEF AcceptTooLate, Admitting, linkVars, mainVars
  <2>. QED  BY <1>3, <2>1 DEF Ordered
<1>10. CASE AcceptJoin
  <2>1. /\ apc = "admit" /\ cmd = "J" /\ roomstatus = "ON" /\ apc' = "compose"
        /\ UNCHANGED <<pipe, owner, roomstatus, meetings, mpc>>
    BY <1>10 DEF AcceptJoin, linkVars, mainVars
  <2>2. owner = 1 /\ meetings # 0
    BY <1>2, <2>1 DEF NumberOne, FirstMeeting, Admitting
  <2>. QED  BY <1>1, <2>1, <2>2 DEF Ordered, Admitting
<1>11. CASE MainSelect \/ MainTimeout
  <2>1. UNCHANGED <<pipe, apc, cmd, status, owner, roomstatus, meetings>>
    BY <1>11 DEF MainSelect, MainTimeout, poolVars, acptVars, linkVars
  <2>2. \E fd \in Fds : status[fd] = "ON"
    BY <1>11 DEF MainSelect, MainTimeout, On
  <2>3. meetings # 0
    BY <1>2, <2>2 DEF FirstMeeting
  <2>. QED  BY <1>1, <2>1, <2>3 DEF Ordered, Admitting
<1>12. CASE MainDies
  <2>1. \E fd \in Fds : status[fd] = "ON"
    BY <1>12 DEF MainDies, On
  <2>2. meetings # 0
    BY <1>2, <2>1 DEF FirstMeeting
  <2>3. UNCHANGED <<pipe, meetings>> /\ ~Admitting' /\ \A fd \in Fds : status'[fd] # "ON"
    BY <1>12 DEF MainDies, linkVars, Admitting
  <2>. QED  BY <1>1, <2>2, <2>3 DEF Ordered
<1>13. CASE MainNext \/ NotifyParent \/ CloseFd
  <2>1. UNCHANGED <<pipe, apc, cmd, status, owner, roomstatus, meetings>> /\ mpc # "select"
    BY <1>13 DEF MainNext, NotifyParent, CloseFd, poolVars, acptVars, linkVars
  <2>. QED  BY <1>1, <2>1 DEF Ordered, Admitting
<1>14. CASE ClearRoom
  <2>1. UNCHANGED <<pipe, apc, cmd, meetings>> /\ mpc # "select" /\ \A fd \in Fds : status'[fd] # "ON"
    BY <1>14 DEF ClearRoom, acptVars, linkVars
  <2>. QED  BY <1>1, <2>1 DEF Ordered, Admitting
<1>15. CASE DropMember
  <2>1. /\ UNCHANGED <<pipe, apc, cmd, owner, roomstatus, meetings>> /\ mpc # "select"
        /\ \A fd \in Fds : status'[fd] = "ON" => status[fd] = "ON"
    BY <1>2, <1>15 DEF DropMember, acptVars, linkVars, PoolTypes
  <2>. QED  BY <1>1, <2>1 DEF Ordered, Admitting
<1>16. CASE Unnoticed
  BY <1>1, <1>16 DEF Unnoticed, BetweenSections, Ordered, Admitting
<1>. HIDE DEF OnlyMeeting
<1>. QED  BY <1>4, <1>5, <1>6, <1>7, <1>8, <1>9, <1>10, <1>11, <1>12, <1>13, <1>14, <1>15, <1>16,
             MemberSteps

\* Without an owner there is nothing to show.
LEMMA NoOwnerNoMembers ==
  ASSUME OwnerInv, OnlyMeeting, owner # 1
  PROVE  MembersAreOpen /\ MembersInHand
  BY DEF OwnerInv, NumberOne, OnlyMeeting, MembersAreOpen, MembersInHand, On

\* Who comes: its number was free, so nobody in the pool had it and the main thread does not
\* hold it to close.
LEMMA MemberComes ==
  ASSUME MemberInv, OwnerInv', OnlyMeeting', AcceptRecv \/ AcceptCreate \/ AcceptJoin
  PROVE  MembersAreOpen' /\ MembersInHand'
<1>1. /\ NumberOne /\ PoolTypes /\ MainTypes /\ AcceptorTypes /\ OnlyMeeting /\ MembersAreOpen
      /\ MembersInHand /\ OwnerInHand /\ OneTrace
  BY DEF MemberInv, OwnerInv, Typed
<1>. USE DEF MembersAreOpen, On
<1>2. CASE AcceptRecv
  <2>1. /\ apc = "recv" /\ apc' = "admit" /\ tfd' \in Fds /\ file[tfd'] = NoClient
        /\ \A fd \in Fds : fd # tfd' => file'[fd] = file[fd]
        /\ file'[tfd'] # NoClient
        /\ UNCHANGED <<status, owner, rset, mpc, cfd, fdToIp>>
    BY <1>2, Received, RoomAssumption DEF MemberInv, RoomAssumption, AcceptRecv, mainVars
  <2>2. status[tfd'] # "ON"
    BY <1>1, <2>1
  <2>3. MembersAreOpen'
    BY <1>1, <2>1, <2>2
  <2>4. owner = 1 /\ mpc \in {"notify Q", "close fd"} => cfd \in Fds /\ cfd # tfd'
    BY <1>1, <2>1 DEF MembersInHand, MainTypes
  <2>5. MembersInHand'
    BY <1>1, <2>1, <2>2, <2>4 DEF MembersInHand
  <2>. QED  BY <2>3, <2>5
<1>3. CASE AcceptCreate
  <2>1. Admitting /\ owner' = tfd /\ apc' = "push" /\ Enter(tfd)
        /\ UNCHANGED <<file, rset, mpc, cfd, mode>>
    BY <1>3 DEF AcceptCreate, Admitting, mainVars
  <2>2. tfd = 1 /\ file[1] # NoClient /\ tfd \in Fds /\ meetings = 0
    BY <1>1, <2>1, FdsAreNumbers DEF NumberOne, OnlyMeeting
  <2>3. mpc = "select" /\ rset = {} /\ \A fd \in Fds : status[fd] # "ON"
    <3>1. mpc = "select" /\ meetings = 0
      BY <1>1, <2>2 DEF OnlyMeeting
    <3>2. FirstMeeting
      BY DEF MemberInv, OwnerInv
    <3>. QED  BY <1>1, <3>1, <3>2 DEF OwnerInHand, FirstMeeting
  <2>4. \A fd \in Fds : status'[fd] = "ON" => fd = tfd
    BY <1>1, <2>1, <2>3 DEF Enter, PoolTypes
  <2>5. fdToIp'[tfd] = file[tfd]
    BY <1>1, <2>1, <2>2 DEF Enter, PoolTypes
  <2>. QED  BY <2>1, <2>2, <2>3, <2>4, <2>5 DEF MembersInHand
<1>4. CASE AcceptJoin
  <2>1. /\ apc = "admit" /\ cmd = "J" /\ roomstatus = "ON" /\ Enter(tfd) /\ apc' = "compose"
        /\ UNCHANGED <<file, owner, rset, mpc, cfd, mode>> /\ tfd \in Fds
    BY <1>1, <1>4 DEF AcceptJoin, mainVars, AcceptorTypes
  <2>2. owner = 1
    <3>1. FirstMeeting
      BY DEF MemberInv, OwnerInv
    <3>. QED  BY <1>1, <2>1, <3>1 DEF NumberOne, FirstMeeting, Admitting
  <2>3. file[tfd] # NoClient /\ (mpc \in {"notify Q", "close fd"} => cfd # tfd)
    BY <1>1, <2>1, <2>2 DEF MembersInHand
  <2>4. /\ \A fd \in Fds : status'[fd] = IF fd = tfd THEN "ON" ELSE status[fd]
        /\ \A fd \in Fds : fdToIp'[fd] = IF fd = tfd THEN file[fd] ELSE fdToIp[fd]
    BY <1>1, <2>1 DEF Enter, PoolTypes
  <2>5. MembersAreOpen'
    BY <1>1, <2>1, <2>3, <2>4
  <2>6. mpc \notin {"select", "next", "dead"} => cfd \in Fds
    BY <1>1 DEF MainTypes
  <2>7. rset \subseteq Fds
    BY <1>1 DEF MainTypes
  <2>8. /\ \A fd \in rset : status'[fd] = "ON"
        /\ mpc \in {"read", "kick", "close", "drop"} => status'[cfd] = "ON"
        /\ mpc \in {"notify Q", "close fd"} => status'[cfd] # "ON" /\ file[cfd] # NoClient
    BY <1>1, <2>2, <2>3, <2>4, <2>6, <2>7 DEF MembersInHand
  <2>. QED  BY <2>1, <2>5, <2>8 DEF MembersInHand
<1>. QED  BY <1>2, <1>3, <1>4

\* Who goes.
LEMMA MemberGoes ==
  ASSUME MemberInv, OwnerInv', OnlyMeeting',
         AcceptTooLate \/ MainDies \/ ClearRoom \/ DropMember \/ CloseFd
  PROVE  MembersAreOpen' /\ MembersInHand'
<1>1. /\ NumberOne /\ PoolTypes /\ MainTypes /\ AcceptorTypes /\ OnlyMeeting /\ MembersAreOpen
      /\ MembersInHand /\ OwnerInHand /\ OneTrace
  BY DEF MemberInv, OwnerInv, Typed
<1>. USE DEF MembersAreOpen, On
<1>2. CASE AcceptTooLate
  <2>1. roomstatus' = "CLOSE" /\ apc' # "admit" /\ owner' = owner
    BY <1>2 DEF AcceptTooLate
  <2>2. \A fd \in Fds : status'[fd] # "ON"
    BY <2>1 DEF OnlyMeeting
  <2>3. owner' # 1
    BY <2>2, FdsAreNumbers DEF OwnerInv, NumberOne
  <2>. QED  BY <2>2, <2>3 DEF MembersInHand
<1>3. CASE MainDies \/ ClearRoom
  <2>1. owner' = 0 /\ \A fd \in Fds : status'[fd] # "ON"
    BY <1>3 DEF MainDies, ClearRoom
  <2>. QED  BY <2>1 DEF MembersInHand
<1>4. CASE DropMember
  <2>1. /\ mpc = "drop" /\ mpc' = "notify Q" /\ cfd \in Fds
        /\ status' = [status EXCEPT ![cfd] = "CLOSE"]
        /\ fdToIp' = [fdToIp EXCEPT ![cfd] = NoClient]
    BY <1>1, <1>4 DEF DropMember, MainTypes
  <2>2. /\ status'[cfd] # "ON"
        /\ \A fd \in Fds : fd # cfd => status'[fd] = status[fd] /\ fdToIp'[fd] = fdToIp[fd]
    BY <1>1, <2>1 DEF PoolTypes
  <2>3. file' = file /\ owner' = owner /\ rset' = rset /\ cfd' = cfd /\ apc' = apc /\ tfd' = tfd
    BY <1>4 DEF DropMember, acptVars
  <2>4. MembersAreOpen'
    <3>1. ASSUME NEW fd \in Fds, status'[fd] = "ON"
          PROVE  fd # cfd /\ status[fd] = "ON" /\ fdToIp'[fd] = fdToIp[fd] /\ file'[fd] = file[fd]
      BY <2>2, <2>3, <3>1
    <3>. QED  BY <1>1, <3>1
  <2>5. cfd \notin rset /\ rset \subseteq Fds
    BY <1>1, <2>1 DEF OwnerInHand, MainTypes
  <2>6. apc = "admit" => tfd \in Fds
    BY <1>1 DEF AcceptorTypes
  <2>7. ASSUME owner = 1  PROVE status[cfd] = "ON" /\ file[cfd] # NoClient
    BY <1>1, <2>1, <2>7 DEF MembersInHand
  <2>8. MembersInHand'
    <3>. SUFFICES ASSUME owner = 1  PROVE MembersInHand'
      BY <2>3 DEF MembersInHand
    <3>1. \A fd \in rset : status'[fd] = "ON"
      BY <1>1, <2>2, <2>5 DEF MembersInHand
    <3>2. apc = "admit" => tfd # cfd /\ status'[tfd] # "ON" /\ file[tfd] # NoClient
      BY <1>1, <2>2, <2>6, <2>7 DEF MembersInHand
    <3>3. mpc' = "notify Q" /\ status'[cfd] # "ON" /\ file[cfd] # NoClient
      BY <2>1, <2>2, <2>7
    <3>. QED  BY <2>3, <3>1, <3>2, <3>3 DEF MembersInHand
  <2>. QED  BY <2>4, <2>8
<1>5. CASE CloseFd
  <2>1. /\ mpc = "close fd" /\ mpc' = "push exit" /\ cfd \in Fds /\ CloseAll({cfd})
        /\ UNCHANGED <<status, fdToIp, owner, rset, cfd, apc, tfd>>
    BY <1>1, <1>5 DEF CloseFd, acptVars, MainTypes
  <2>2. \A fd \in Fds : fd # cfd => file'[fd] = file[fd]
    BY <1>1, <2>1 DEF CloseAll, PoolTypes
  <2>3. CASE owner = 1
    <3>1. status[cfd] # "ON" /\ (apc = "admit" => cfd # tfd /\ tfd \in Fds)
      BY <1>1, <2>1, <2>3 DEF MembersInHand, AcceptorTypes
    <3>. QED  BY <1>1, <2>1, <2>2, <2>3, <3>1 DEF MembersInHand
  <2>4. CASE owner # 1
    <3>1. owner' # 1
      BY <2>1, <2>4
    <3>2. \A fd \in Fds : status'[fd] # "ON"
      BY <3>1 DEF OwnerInv, NumberOne, OnlyMeeting
    <3>. QED  BY <3>1, <3>2 DEF MembersInHand
  <2>. QED  BY <2>3, <2>4
<1>. QED  BY <1>2, <1>3, <1>4, <1>5

\* The main thread's own steps.
LEMMA MemberKept ==
  ASSUME MemberInv, [Next]_vars, OwnerInv', OnlyMeeting'
  PROVE  MembersAreOpen' /\ MembersInHand'
<1>1. /\ NumberOne /\ PoolTypes /\ MainTypes /\ AcceptorTypes /\ OnlyMeeting /\ MembersAreOpen
      /\ MembersInHand /\ OwnerInHand /\ OneTrace
  BY DEF MemberInv, OwnerInv, Typed
<1>. USE DEF MembersAreOpen, On
<1>2. ASSUME UNCHANGED <<file, status, fdToIp, owner, rset, mpc, cfd, apc, tfd>>
      PROVE  MembersAreOpen' /\ MembersInHand'
  BY <1>1, <1>2 DEF MembersInHand
<1>3. ASSUME NEW c \in Clients, Create(c) \/ Join(c)  PROVE MembersAreOpen' /\ MembersInHand'
  BY <1>2, <1>3 DEF Create, Join, poolVars, mainVars, acptVars
<1>4. CASE ParentReads
  BY <1>2, <1>4 DEF ParentReads, poolVars, mainVars, acptVars
<1>5. CASE MainSelect \/ MainTimeout
  <2>1. /\ mpc' = "next" /\ UNCHANGED <<file, status, fdToIp, owner, cfd, apc, tfd>>
        /\ \A fd \in rset' : status[fd] = "ON"
    BY <1>5 DEF MainSelect, MainTimeout, poolVars, acptVars
  <2>. QED  BY <1>1, <2>1 DEF MembersInHand
<1>6. CASE MainNext
  <2>1. /\ UNCHANGED <<file, status, fdToIp, owner, apc, tfd>>
        /\ rset' \subseteq rset
        /\ mpc' = "select" \/ (cfd' \in rset /\ mpc' \in {"read", "close"})
    <3>1. ASSUME NEW S \in SUBSET rset, S # {}, cfd' = Min(S)  PROVE cfd' \in rset
      BY <1>1, <3>1, MinExists, FdsAreNumbers DEF MainTypes
    <3>. QED  BY <3>1, <1>6 DEF MainNext, acptVars
  <2>. QED  BY <1>1, <2>1 DEF MembersInHand
<1>7. CASE NotifyParent
  BY <1>1, <1>7 DEF NotifyParent, poolVars, acptVars, MembersInHand
<1>8. CASE Unnoticed
  <2>1. /\ UNCHANGED <<file, status, fdToIp, owner, rset, cfd, tfd>>
        /\ apc' = "admit" => apc = "admit"
        /\ mpc' = mpc \/ (mpc \in {"read", "kick", "close", "push exit"}
                          /\ mpc' \in {"kick", "next", "close", "clear", "drop"}
                          /\ (mpc' \in {"kick", "close", "drop"} => mpc # "push exit"))
    BY <1>8 DEF Unnoticed, BetweenSections
  <2>. QED  BY <1>1, <2>1 DEF MembersInHand
<1>. HIDE DEF MembersAreOpen, On
<1>. QED  BY <1>3, <1>4, <1>5, <1>6, <1>7, <1>8, MemberComes, MemberGoes, MemberSteps

\* Silence.
LEMMA SilentKept ==
  ASSUME MemberInv, [Next]_vars, OwnerInv'
  PROVE  SilentInHand'
<1>1. /\ NumberOne /\ PoolTypes /\ MainTypes /\ AcceptorTypes /\ SilentInHand /\ MembersInHand
      /\ OwnerInHand /\ OnlyMeeting
  BY DEF MemberInv, OwnerInv, Typed
<1>2. ASSUME quiet \subseteq quiet', UNCHANGED <<owner, rset, mpc, cfd, mode>>
      PROVE  SilentInHand'
  BY <1>1, <1>2 DEF SilentInHand
<1>3. ASSUME NEW c \in Clients, Create(c) \/ Join(c)  PROVE SilentInHand'
  BY <1>2, <1>3 DEF Create, Join, poolVars, mainVars
<1>4. CASE ParentReads \/ AcceptRecv \/ AcceptTooLate
  BY <1>2, <1>4 DEF ParentReads, AcceptRecv, AcceptTooLate, poolVars, mainVars
<1>5. CASE AcceptCreate
  <2>1. Admitting /\ UNCHANGED <<rset, mpc, cfd, mode>>
    BY <1>5 DEF AcceptCreate, Admitting, mainVars
  <2>2. mpc = "select" /\ rset = {}
    BY <1>1, <2>1 DEF OnlyMeeting, OwnerInHand
  <2>. QED  BY <2>1, <2>2 DEF SilentInHand
<1>6. CASE AcceptJoin
  <2>1. /\ apc = "admit" /\ quiet' = quiet \ {tfd} /\ UNCHANGED <<owner, rset, mpc, cfd, mode>>
    BY <1>6 DEF AcceptJoin, mainVars, Enter
  <2>2. owner = 1 => status[tfd] # "ON"
    BY <1>1, <2>1 DEF MembersInHand
  <2>3. owner = 1 => tfd \notin rset /\ (mpc = "close" => tfd # cfd)
    BY <1>1, <2>2 DEF MembersInHand
  <2>. QED  BY <1>1, <2>1, <2>3 DEF SilentInHand
<1>7. CASE MainSelect \/ MainTimeout
  <2>1. mpc' = "next" /\ (mode' = "timeouts" => rset' \subseteq quiet')
    BY <1>7 DEF MainSelect, MainTimeout, poolVars
  <2>. QED  BY <2>1 DEF SilentInHand
<1>8. CASE MainNext
  <2>1. /\ UNCHANGED <<owner, mode>>
        /\ rset' \subseteq rset
        /\ mpc' \in {"read", "kick"} => mode = "scan"
        /\ mode = "timeouts" => quiet' = quiet
        /\ mpc' = "close" => cfd' \in rset
    <3>1. ASSUME NEW S \in SUBSET rset, S # {}, cfd' = Min(S)  PROVE cfd' \in rset
      BY <1>1, <3>1, MinExists, FdsAreNumbers DEF MainTypes
    <3>. QED  BY <3>1, <1>8 DEF MainNext
  <2>. QED  BY <1>1, <2>1 DEF SilentInHand
<1>9. CASE MainDies \/ ClearRoom
  <2>1. owner' = 0 /\ mpc' \notin {"read", "kick"}
    BY <1>9 DEF MainDies, ClearRoom
  <2>. QED  BY <2>1 DEF SilentInHand
<1>10. CASE DropMember
  <2>1. /\ mpc = "drop" /\ mpc' = "notify Q" /\ quiet' = quiet \ {cfd} /\ cfd \notin rset
        /\ UNCHANGED <<owner, rset, cfd, mode>>
    BY <1>1, <1>10 DEF DropMember, OwnerInHand
  <2>. QED  BY <1>1, <2>1 DEF SilentInHand
<1>11. CASE NotifyParent \/ CloseFd
  BY <1>1, <1>11 DEF NotifyParent, CloseFd, poolVars, SilentInHand
<1>12. CASE Unnoticed
  <2>1. /\ UNCHANGED <<owner, rset, cfd, mode>> /\ quiet \subseteq quiet'
        /\ mpc' = mpc \/ (mpc \in {"read", "kick", "close", "push exit"}
                          /\ mpc' \in {"kick", "next", "close", "clear", "drop"}
                          /\ (mpc' \in {"kick", "close"} => mpc \in {"read", "kick"}))
    BY <1>12 DEF Unnoticed, BetweenSections
  <2>. QED  BY <1>1, <2>1 DEF SilentInHand
<1>. QED  BY <1>3, <1>4, <1>5, <1>6, <1>7, <1>8, <1>9, <1>10, <1>11, <1>12, MemberSteps

LEMMA MemberInvInit == Init => MemberInv
<1>. SUFFICES ASSUME Init  PROVE MemberInv
  OBVIOUS
<1>1. OnlyMeeting /\ MembersAreOpen
  BY DEF Init, OnlyMeeting, MembersAreOpen, On, Ordered, Admitting
<1>2. MembersInHand /\ SilentInHand
  BY DEF Init, MembersInHand, SilentInHand
<1>. QED  BY <1>1, <1>2, OwnerInvInit DEF MemberInv

LEMMA MemberInvStep ==
  ASSUME MaxMeetings <= 1, MemberInv, [Next]_vars
  PROVE  MemberInv'
<1>1. OwnerInv'
  BY OwnerInvStep DEF MemberInv
<1>2. OnlyMeeting'
  BY OnlyMeetingStep
<1>. QED  BY <1>1, <1>2, MemberKept, SilentKept DEF MemberInv

\* In a room's first meeting every member is a connection the process has open, under its own
\* client's address: the number the main thread closes with fdclose, outside the lock
\* (room.cpp:396-467), is not in the pool again by then, so select never sees a closed one.
THEOREM MembersStayOpen ==
  ASSUME MaxMeetings <= 1
  PROVE  Spec => []MembersAreOpen
<1>1. MemberInv => MembersAreOpen
  BY DEF MemberInv
<1>. QED  BY <1>1, MemberInvInit, MemberInvStep, PTL DEF Spec

\* In a room's first meeting the time-out takes out only members nothing has come from: none
\* of those it has collected is heard before its turn, nor its number given to another client
\* (room.cpp:119-137).
THEOREM OnlySilentAreClosed ==
  ASSUME MaxMeetings <= 1
  PROVE  Spec => []OnlySilentTimeOut
<1>1. MemberInv => OnlySilentTimeOut
  <2>. SUFFICES ASSUME MemberInv, mpc = "close", mode = "timeouts", status[cfd] = "ON"
                PROVE  cfd \in quiet
    BY DEF OnlySilentTimeOut
  <2>1. cfd \in Fds
    BY DEF MemberInv, OwnerInv, Typed, MainTypes
  <2>2. owner = 1
    BY <2>1 DEF MemberInv, OwnerInv, NumberOne, OnlyMeeting
  <2>. QED  BY <2>2 DEF MemberInv, SilentInHand
<1>. QED  BY <1>1, MemberInvInit, MemberInvStep, PTL DEF Spec


-----------------------------------------------------------------------------
(* Who shows whom, in a room's first meeting, when nobody comes back.               *)

\* What is on its way to the members.
Underway ==
    {sendqueue[i] : i \in DOMAIN sendqueue} \cup ({held[t] : t \in SendThreads} \ {NoMsg})

LEMMA Added ==
  ASSUME Typed, NEW m, Queue!Put(m), held' = held
  PROVE  Underway' = Underway \cup {m}
<1>1. sendqueue \in Seq(Message) /\ sendqueue' = Append(sendqueue, m)
  BY DEF Queue!Put, Typed, QueueTypes
<1>2. /\ Len(sendqueue) \in Nat
      /\ DOMAIN sendqueue = 1..Len(sendqueue)
      /\ DOMAIN sendqueue' = 1..Len(sendqueue) + 1
      /\ \A i \in 1..Len(sendqueue) : sendqueue'[i] = sendqueue[i]
      /\ sendqueue'[Len(sendqueue) + 1] = m
  BY <1>1
<1>3. 1..Len(sendqueue) + 1 = (1..Len(sendqueue)) \cup {Len(sendqueue) + 1}
  BY <1>2
<1>4. {sendqueue'[i] : i \in DOMAIN sendqueue'} = {sendqueue[i] : i \in DOMAIN sendqueue} \cup {m}
  BY <1>2, <1>3
<1>. QED  BY <1>4 DEF Underway

LEMMA Popped ==
  ASSUME Typed, NEW t \in SendThreads, SendPop(t)
  PROVE  Underway' = Underway
<1>1. /\ sendqueue \in Seq(Message) /\ sendqueue # <<>> /\ sendqueue' = Tail(sendqueue)
      /\ held[t] = NoMsg /\ held' = [held EXCEPT ![t] = Head(sendqueue)]
      /\ held \in [SendThreads -> Message \cup {NoMsg}]
  BY DEF SendPop, Queue!Take, Typed, QueueTypes
<1>2. /\ Len(sendqueue) \in Nat \ {0}
      /\ DOMAIN sendqueue = 1..Len(sendqueue)
      /\ DOMAIN sendqueue' = 1..Len(sendqueue) - 1
      /\ Head(sendqueue) = sendqueue[1] /\ Head(sendqueue) \in Message
      /\ \A i \in 1..Len(sendqueue) - 1 : sendqueue'[i] = sendqueue[i + 1]
  BY <1>1
<1>3. {sendqueue[i] : i \in DOMAIN sendqueue}
        = {sendqueue'[i] : i \in DOMAIN sendqueue'} \cup {Head(sendqueue)}
  <2>1. \A i \in DOMAIN sendqueue : i = 1 \/ (i - 1 \in DOMAIN sendqueue' /\ sendqueue'[i - 1] = sendqueue[i])
    BY <1>2
  <2>2. \A i \in DOMAIN sendqueue' : i + 1 \in DOMAIN sendqueue /\ sendqueue'[i] = sendqueue[i + 1]
    BY <1>2
  <2>3. 1 \in DOMAIN sendqueue /\ sendqueue[1] = Head(sendqueue)
    BY <1>2
  <2>4. ASSUME NEW i \in DOMAIN sendqueue
        PROVE  sendqueue[i] \in {sendqueue'[j] : j \in DOMAIN sendqueue'} \cup {Head(sendqueue)}
    <3>1. CASE i = 1
      BY <2>3, <3>1
    <3>2. CASE i - 1 \in DOMAIN sendqueue' /\ sendqueue'[i - 1] = sendqueue[i]
      BY <3>2
    <3>. QED  BY <2>1, <3>1, <3>2
  <2>5. ASSUME NEW j \in DOMAIN sendqueue'
        PROVE  sendqueue'[j] \in {sendqueue[i] : i \in DOMAIN sendqueue}
    BY <2>2
  <2>. QED  BY <2>3, <2>4, <2>5
<1>4. Head(sendqueue) # NoMsg
  BY <1>2, NoMsgAssumption
<1>5. {held'[u] : u \in SendThreads} \ {NoMsg}
        = ({held[u] : u \in SendThreads} \ {NoMsg}) \cup {Head(sendqueue)}
  <2>1. \A u \in SendThreads : held'[u] = IF u = t THEN Head(sendqueue) ELSE held[u]
    BY <1>1
  <2>. QED  BY <1>1, <1>4, <2>1
<1>. QED  BY <1>3, <1>5 DEF Underway

LEMMA Delivered ==
  ASSUME Typed, NEW t \in SendThreads, SendDeliver(t)
  PROVE  /\ held[t] \in Underway
         /\ Underway' \subseteq Underway
         /\ Underway \subseteq Underway' \cup {held[t]}
<1>1. /\ sendqueue' = sendqueue /\ held[t] # NoMsg /\ held' = [held EXCEPT ![t] = NoMsg]
      /\ held \in [SendThreads -> Message \cup {NoMsg}]
  BY DEF SendDeliver, Typed, QueueTypes
<1>2. \A u \in SendThreads : held'[u] = IF u = t THEN NoMsg ELSE held[u]
  BY <1>1
<1>3. {sendqueue'[i] : i \in DOMAIN sendqueue'} = {sendqueue[i] : i \in DOMAIN sendqueue}
  BY <1>1
<1>4. /\ held[t] \in {held[u] : u \in SendThreads} \ {NoMsg}
      /\ {held'[u] : u \in SendThreads} \ {NoMsg} \subseteq {held[u] : u \in SendThreads} \ {NoMsg}
      /\ {held[u] : u \in SendThreads} \ {NoMsg}
           \subseteq ({held'[u] : u \in SendThreads} \ {NoMsg}) \cup {held[t]}
  BY <1>1, <1>2
<1>. QED  BY <1>3, <1>4 DEF Underway

LEMMA Discarded ==
  ASSUME Typed, MainDies \/ ClearRoom
  PROVE  Underway' \subseteq Underway
<1>1. sendqueue' = <<>> /\ (held' = held \/ held' = [t \in SendThreads |-> NoMsg])
  BY DEF MainDies, ClearRoom
<1>2. {sendqueue'[i] : i \in DOMAIN sendqueue'} = {}
  BY <1>1
<1>3. {held'[t] : t \in SendThreads} \ {NoMsg} \subseteq {held[t] : t \in SendThreads} \ {NoMsg}
  BY <1>1
<1>. QED  BY <1>2, <1>3 DEF Underway

LEMMA UnderwayTyped ==
  ASSUME Typed
  PROVE  Underway \subseteq Message
<1>1. \A i \in DOMAIN sendqueue : sendqueue[i] \in Message
  BY LenProperties DEF Typed, QueueTypes
<1>2. \A t \in SendThreads : held[t] \in Message \cup {NoMsg}
  BY DEF Typed, QueueTypes
<1>. QED  BY <1>1, <1>2 DEF Underway

\* What the steps add to what is underway.  No answer to a request is a PARTNER_EXIT.
LEMMA UnderwaySteps ==
  ASSUME Typed, [Next]_vars
  PROVE  \/ AcceptPush /\ Underway' = Underway \cup {out}
         \/ PushExit /\ Underway' = Underway \cup {Msg("PARTNER_EXIT", 0, {ip})}
         \/ \E t \in SendThreads : SendDeliver(t)
         \/ (MainDies \/ ClearRoom) /\ Underway' \subseteq Underway
         \/ \E m : m.type # "PARTNER_EXIT" /\ Underway' = Underway \cup {m}
         \/ Underway' = Underway
<1> DEFINE Answered == \E m : m.type # "PARTNER_EXIT" /\ Underway' = Underway \cup {m}
           Still == Underway' = Underway
<1>1. ASSUME UNCHANGED <<sendqueue, held>>  PROVE Still
  BY <1>1 DEF Underway
<1>2. ASSUME NEW k \in {"TEXT_RECV", "HEARTBEAT_ACK", "KICK_OUT_RESPONSE", "KICK_OUT_NOTIFY"},
             NEW fd, NEW ips, Queue!Put(Msg(k, fd, ips)), held' = held
      PROVE  Answered
  <2>1. Underway' = Underway \cup {Msg(k, fd, ips)}
    BY <1>2, Added
  <2>2. Msg(k, fd, ips).type # "PARTNER_EXIT"
    BY <1>2 DEF Msg
  <2>. QED  BY <2>1, <2>2
<1>. HIDE DEF Answered, Still
<1>3. ASSUME AcceptPush  PROVE Underway' = Underway \cup {out}
  BY <1>3, Added DEF AcceptPush
<1>4. ASSUME PushExit  PROVE Underway' = Underway \cup {Msg("PARTNER_EXIT", 0, {ip})}
  BY <1>4, Added DEF PushExit
<1>5. ASSUME MainHeartbeat  PROVE Answered \/ Still
  BY <1>2, <1>5 DEF MainHeartbeat, Answer
<1>6. ASSUME MainForward  PROVE Answered \/ Still
  BY <1>2, <1>6 DEF MainForward, Answer
<1>7. ASSUME MainKickRefused  PROVE Answered \/ Still
  BY <1>2, <1>7 DEF MainKickRefused, Answer
<1>8. ASSUME MainKickNotify  PROVE Answered \/ Still
  <2>1. CASE ki <= maxfd /\ status[ki] = "ON"
    BY <1>2, <1>8, <2>1 DEF MainKickNotify
  <2>2. CASE ki <= maxfd /\ status[ki] # "ON"
    BY <1>1, <1>8, <2>2 DEF MainKickNotify
  <2>3. CASE ~ ki <= maxfd
    BY <1>2, <1>8, <2>3 DEF MainKickNotify
  <2>. QED  BY <2>1, <2>2, <2>3
<1>9. ASSUME NEW c \in Clients, Create(c) \/ Join(c) \/ HangUp(c)  PROVE Still
  BY <1>1, <1>9 DEF Create, Join, HangUp
<1>10. ASSUME NEW fd \in Fds, FallSilent(fd)  PROVE Still
  BY <1>1, <1>10 DEF FallSilent
<1>11. ASSUME ParentReads
       PROVE  Still
  BY <1>1, <1>11 DEF ParentReads
<1>12. ASSUME AcceptRecv \/ AcceptCreate \/ AcceptTooLate \/ AcceptJoin \/ AcceptCompose \/ AcceptList
       PROVE  Still
  BY <1>1, <1>12 DEF AcceptRecv, AcceptCreate, AcceptTooLate, AcceptJoin, AcceptCompose, AcceptList
<1>13. ASSUME MainSelect \/ MainTimeout \/ MainNext \/ MainReadFails \/ MainKick
       PROVE  Still
  BY <1>1, <1>13 DEF MainSelect, MainTimeout, MainNext, MainReadFails, MainKick
<1>14. ASSUME CloseTest \/ DropMember \/ NotifyParent \/ CloseFd
       PROVE  Still
  BY <1>1, <1>14 DEF CloseTest, DropMember, NotifyParent, CloseFd
<1>15. ASSUME UNCHANGED vars
       PROVE  Still
  BY <1>1, <1>15 DEF vars
<1>16. ASSUME NEW t \in SendThreads, SendPop(t)  PROVE Still
  BY <1>16, Popped DEF Still
<1>17. (MainDies \/ ClearRoom) => Underway' \subseteq Underway
  BY Discarded
<1>18. \/ AcceptPush \/ PushExit \/ MainDies \/ ClearRoom
       \/ \E t \in SendThreads : SendDeliver(t)
       \/ Answered \/ Still
  BY <1>5, <1>6, <1>7, <1>8, <1>9, <1>10, <1>11, <1>12, <1>13, <1>14, <1>15, <1>16
     DEF Next, Acceptor, Main, Closing, Sender
<1>. QED  BY <1>3, <1>4, <1>17, <1>18 DEF Answered, Still

\* A connection that is over stays so when nobody comes back.
LEMMA OverStays ==
  ASSUME ~Reconnects, Typed, [Next]_vars, NEW c \in Clients, conn[c] = "over"
  PROVE  conn'[c] = "over"
<1>1. conn \in [Clients -> {"out", "pipe", "in", "gone", "over"}]
  BY DEF Typed, ClientTypes
<1>2. ASSUME NEW d \in Clients, Create(d) \/ Join(d) \/ HangUp(d)  PROVE conn'[c] = "over"
  <2>1. conn[d] # "over" /\ \E s : conn' = [conn EXCEPT ![d] = s]
    BY <1>2 DEF Create, Join, HangUp, Connects
  <2>. QED  BY <1>1, <2>1
<1>3. CASE AcceptRecv
  <2>1. conn' = [conn EXCEPT ![Head(pipe)[2]] = IF @ = "pipe" THEN "in" ELSE @]
    BY <1>3 DEF AcceptRecv
  <2>. QED  BY <1>1, <2>1
<1>4. CASE AcceptCreate
  BY <1>4 DEF AcceptCreate
<1>5. CASE AcceptTooLate \/ MainDies \/ ClearRoom \/ CloseFd
  BY <1>5, Closes DEF CloseAll
<1>6. ASSUME NEW t \in SendThreads, SendDeliver(t)  PROVE conn'[c] = "over"
  BY <1>6 DEF SendDeliver
<1>. QED  BY <1>2, <1>3, <1>4, <1>5, <1>6, PlacesKept

\* The main thread has a member's exit in hand: its connection is still the one the member
\* had, or over.
ExitInHand ==
    /\ mpc = "push exit" /\ ip \in Clients => conn[ip] = "over"
    /\ mpc \in {"notify Q", "close fd"} /\ ip \in Clients => file[cfd] = ip \/ conn[ip] = "over"

\* Who has left is told of only when its connection is over: PARTNER_EXIT names nobody
\* that is in the pool.
ExitsAreFinal ==
    /\ \A m \in Underway :
          m.type = "PARTNER_EXIT" => \A c \in m.ips \cap Clients : conn[c] = "over"
    /\ ExitInHand
    /\ apc = "push" => out.type # "PARTNER_EXIT"

\* Only members have an address.
Addressed == mpc # "dead" => \A fd \in Fds : fdToIp[fd] # NoClient => status[fd] = "ON"

LEMMA AddressedStep ==
  ASSUME OwnerInv, Addressed, [Next]_vars
  PROVE  Addressed'
<1>1. PoolTypes /\ Addressed
  BY DEF OwnerInv, Typed
<1>. USE DEF Addressed
<1>2. ASSUME UNCHANGED <<fdToIp, status>>, mpc # "dead" \/ mpc' = "dead"  PROVE Addressed'
  BY <1>1, <1>2
<1>3. ASSUME NEW c \in Clients, Create(c) \/ Join(c)  PROVE Addressed'
  BY <1>2, <1>3 DEF Create, Join, poolVars, mainVars
<1>4. CASE ParentReads \/ AcceptRecv \/ AcceptTooLate
  BY <1>2, <1>4 DEF ParentReads, AcceptRecv, AcceptTooLate, poolVars, mainVars
<1>5. CASE AcceptCreate \/ AcceptJoin
  <2>1. Enter(tfd) /\ mpc' = mpc
    BY <1>5 DEF AcceptCreate, AcceptJoin, mainVars
  <2>2. \A fd \in Fds : fdToIp'[fd] # NoClient => fd = tfd \/ fdToIp[fd] # NoClient
    BY <1>1, <2>1 DEF Enter, PoolTypes
  <2>3. \A fd \in Fds : fd = tfd \/ status[fd] = "ON" => status'[fd] = "ON"
    BY <1>1, <2>1 DEF Enter, PoolTypes
  <2>. QED  BY <1>1, <2>1, <2>2, <2>3
<1>6. CASE MainSelect \/ MainTimeout \/ MainNext \/ NotifyParent \/ CloseFd
  BY <1>2, <1>6 DEF MainSelect, MainTimeout, MainNext, NotifyParent, CloseFd, poolVars
<1>7. CASE MainDies
  BY <1>7 DEF MainDies
<1>8. CASE ClearRoom
  BY <1>8 DEF ClearRoom
<1>9. CASE DropMember
  <2>1. /\ mpc = "drop"
        /\ fdToIp' = [fdToIp EXCEPT ![cfd] = NoClient]
        /\ status' = [status EXCEPT ![cfd] = "CLOSE"]
    BY <1>9 DEF DropMember
  <2>2. \A fd \in Fds : fdToIp'[fd] # NoClient => fd # cfd /\ fdToIp[fd] # NoClient
    BY <1>1, <2>1 DEF PoolTypes
  <2>3. \A fd \in Fds : fd # cfd => status'[fd] = status[fd]
    BY <1>1, <2>1 DEF PoolTypes
  <2>. QED  BY <1>1, <2>1, <2>2, <2>3
<1>10. CASE Unnoticed
  BY <1>1, <1>10 DEF Unnoticed, BetweenSections
<1>. HIDE DEF Addressed
<1>. QED  BY <1>3, <1>4, <1>5, <1>6, <1>7, <1>8, <1>9, <1>10, MemberSteps

\* What makes member f show client c.
Tells(m, f, c) ==
    /\ c \in m.ips
    /\ \/ m.type = "PARTNER_JOIN" /\ m.fd # f
       \/ m.type = "PARTNER_JOIN2" /\ m.fd = f

\* Member f shows member g, a message that tells it is underway, or the acceptor is still
\* to send one: about the one it admits, or to the one it admits.
Told(f, g) ==
    \/ file[g] \in known[file[f]]
    \/ \E m \in Underway : Tells(m, f, file[g])
    \/ apc = "compose" /\ (tfd = f \/ tfd = g)
    \/ apc = "push" /\ (Tells(out, f, file[g]) \/ (out.type = "PARTNER_JOIN" /\ tfd = f))
    \/ apc = "list" /\ tfd = f

EveryoneTold == \A f, g \in On : f # g /\ conn[file[f]] = "in" => Told(f, g)

KnownInv == MemberInv /\ ExitsAreFinal /\ Addressed /\ EveryoneTold

LEMMA ExitInHandStep ==
  ASSUME ~Reconnects, OwnerInv, MembersAreOpen, ExitInHand, Addressed, [Next]_vars
  PROVE  ExitInHand'
<1>1. /\ PoolTypes /\ MainTypes /\ ClientTypes /\ Typed
  BY DEF OwnerInv, Typed
<1>2. \A c \in Clients : conn[c] = "over" => conn'[c] = "over"
  BY <1>1, OverStays
<1>3. ASSUME UNCHANGED <<mpc, ip, cfd>>, file'[cfd] = file[cfd] \/ file[cfd] \notin Clients
                                         \/ conn'[file[cfd]] = "over"
      PROVE  ExitInHand'
  BY <1>2, <1>3 DEF ExitInHand
<1>4. ASSUME mpc' \notin {"notify Q", "close fd", "push exit"}  PROVE ExitInHand'
  BY <1>4 DEF ExitInHand
<1>5. ASSUME NEW c \in Clients, Create(c) \/ Join(c)  PROVE ExitInHand'
  BY <1>3, <1>5 DEF Create, Join, poolVars, mainVars
<1>6. CASE ParentReads \/ AcceptCreate \/ AcceptJoin
  BY <1>3, <1>6 DEF ParentReads, AcceptCreate, AcceptJoin, poolVars, mainVars
<1>7. CASE AcceptRecv
  <2>1. /\ tfd' \in Fds /\ file[tfd'] = NoClient /\ UNCHANGED <<mpc, ip, cfd>>
        /\ \A fd \in Fds : fd # tfd' => file'[fd] = file[fd]
    BY <1>7, Received DEF AcceptRecv, mainVars
  <2>2. NoClient \notin Clients
    BY RoomAssumption DEF RoomAssumption
  <2>3. cfd \in Fds => file'[cfd] = file[cfd] \/ file[cfd] \notin Clients
    BY <2>1, <2>2
  <2>. QED  BY <1>3, <1>4, <2>1, <2>3, <1>1 DEF MainTypes
<1>8. CASE AcceptTooLate
  <2>1. CloseAll({tfd}) /\ UNCHANGED <<mpc, ip, cfd>>
    BY <1>8 DEF AcceptTooLate, mainVars
  <2>2. cfd \in Fds /\ file[cfd] \in Clients => file'[cfd] = file[cfd] \/ conn'[file[cfd]] = "over"
    BY <2>1, RoomAssumption DEF CloseAll, ClosedClients, RoomAssumption
  <2>. QED  BY <1>3, <1>4, <2>1, <2>2, <1>1 DEF MainTypes
<1>9. CASE MainSelect \/ MainDies \/ MainTimeout \/ MainNext \/ ClearRoom
  BY <1>4, <1>9 DEF MainSelect, MainDies, MainTimeout, MainNext, ClearRoom
<1>10. CASE DropMember
  <2>1. mpc = "drop" /\ mpc' = "notify Q" /\ ip' = fdToIp[cfd] /\ cfd \in Fds
        /\ UNCHANGED <<file, cfd>>
    BY <1>1, <1>10 DEF DropMember, MainTypes
  <2>2. fdToIp[cfd] \in Clients => fdToIp[cfd] = file[cfd]
    BY <2>1, RoomAssumption DEF Addressed, MembersAreOpen, On, RoomAssumption
  <2>. QED  BY <2>1, <2>2 DEF ExitInHand
<1>11. CASE NotifyParent
  BY <1>11 DEF NotifyParent, poolVars, ExitInHand
<1>12. CASE CloseFd
  <2>1. mpc = "close fd" /\ mpc' = "push exit" /\ ip' = ip /\ CloseAll({cfd})
    BY <1>12 DEF CloseFd
  <2>2. ip \in Clients => conn'[ip] = "over"
    <3>1. ip \in Clients => file[cfd] = ip \/ conn[ip] = "over"
      BY <2>1 DEF ExitInHand
    <3>2. file[cfd] \in Clients => conn'[file[cfd]] = "over"
      BY <2>1, RoomAssumption DEF CloseAll, ClosedClients, RoomAssumption
    <3>. QED  BY <1>2, <3>1, <3>2
  <2>. QED  BY <2>1, <2>2 DEF ExitInHand
<1>13. CASE Unnoticed
  <2>1. /\ UNCHANGED <<file, cfd>>
        /\ mpc' \in {"notify Q", "close fd", "push exit"} => mpc' = mpc /\ ip' = ip
    BY <1>13 DEF Unnoticed, BetweenSections
  <2>. QED  BY <1>3, <1>4, <2>1
<1>. QED  BY <1>5, <1>6, <1>7, <1>8, <1>9, <1>10, <1>11, <1>12, <1>13, MemberSteps

\* The exits on their way and in the main thread's hand.
LEMMA ExitsStep ==
  ASSUME ~Reconnects, OwnerInv, MembersAreOpen, ExitsAreFinal, Addressed, [Next]_vars
  PROVE  ExitsAreFinal'
<1>1. /\ PoolTypes /\ MainTypes /\ AcceptorTypes /\ ClientTypes /\ Typed /\ OnePlace
  BY DEF OwnerInv, Typed, Placed
<1>2. \A c \in Clients : conn[c] = "over" => conn'[c] = "over"
  BY <1>1, OverStays
<1>3. (\A m \in Underway :
          m.type = "PARTNER_EXIT" => \A c \in m.ips \cap Clients : conn[c] = "over")'
  <2>1. \A m \in Underway :
           m.type = "PARTNER_EXIT" => \A c \in m.ips \cap Clients : conn'[c] = "over"
    BY <1>2 DEF ExitsAreFinal
  <2>2. CASE Underway' \subseteq Underway
    BY <2>1, <2>2
  <2>3. ASSUME NEW m, m.type # "PARTNER_EXIT", Underway' = Underway \cup {m}
        PROVE  \A n \in Underway' :
                  n.type = "PARTNER_EXIT" => \A c \in n.ips \cap Clients : conn'[c] = "over"
    BY <2>1, <2>3
  <2>4. AcceptPush => out.type # "PARTNER_EXIT"
    BY DEF AcceptPush, ExitsAreFinal
  <2>5. CASE PushExit /\ Underway' = Underway \cup {Msg("PARTNER_EXIT", 0, {ip})}
    <3>1. ip \in Clients => conn'[ip] = "over"
      BY <1>2, <2>5 DEF PushExit, ExitsAreFinal, ExitInHand
    <3>2. \A c \in Msg("PARTNER_EXIT", 0, {ip}).ips \cap Clients : conn'[c] = "over"
      BY <3>1 DEF Msg
    <3>. QED  BY <2>1, <2>5, <3>2
  <2>6. ASSUME NEW t \in SendThreads, SendDeliver(t)  PROVE Underway' \subseteq Underway
    BY <1>1, <2>6, Delivered
  <2>. QED  BY <1>1, <2>2, <2>3, <2>4, <2>5, <2>6, UnderwaySteps
<1>4. ExitInHand'
  BY ExitInHandStep DEF ExitsAreFinal
<1>5. (apc = "push" => out.type # "PARTNER_EXIT")'
  <2>1. ASSUME UNCHANGED <<apc, out>>  PROVE (apc = "push" => out.type # "PARTNER_EXIT")'
    BY <2>1 DEF ExitsAreFinal
  <2>2. CASE AcceptCreate \/ AcceptCompose \/ AcceptList
    <3>1. out'.type \in {"CREATE_MEETING_RESPONSE", "PARTNER_JOIN", "PARTNER_JOIN2"}
      BY <2>2 DEF AcceptCreate, AcceptCompose, AcceptList, Msg
    <3>. QED  BY <3>1
  <2>3. CASE AcceptRecv \/ AcceptTooLate \/ AcceptJoin \/ AcceptPush \/ MainDies
    <3>1. apc' # "push"
      BY <2>3 DEF AcceptRecv, AcceptTooLate, AcceptJoin, AcceptPush, MainDies
    <3>. QED  BY <3>1
  <2>4. \/ UNCHANGED <<apc, out>>
        \/ Acceptor \/ MainDies
    <3>. USE DEF acptVars
    <3>1. ASSUME NEW c \in Clients, Create(c) \/ Join(c) \/ HangUp(c)  PROVE UNCHANGED <<apc, out>>
      BY <3>1 DEF Create, Join, HangUp
    <3>2. ASSUME NEW fd \in Fds, FallSilent(fd)  PROVE UNCHANGED <<apc, out>>
      BY <3>2 DEF FallSilent
    <3>3. CASE ParentReads
      BY <3>3 DEF ParentReads
    <3>4. CASE MainSelect \/ MainTimeout \/ MainNext \/ MainReadFails \/ MainKick \/ MainKickNotify
      BY <3>4 DEF MainSelect, MainTimeout, MainNext, MainReadFails, MainKick, MainKickNotify
    <3>5. CASE MainHeartbeat \/ MainForward \/ MainKickRefused
      BY <3>5 DEF MainHeartbeat, MainForward, MainKickRefused, Answer
    <3>6. CASE Closing
      BY <3>6 DEF Closing, CloseTest, ClearRoom, DropMember, NotifyParent, CloseFd, PushExit
    <3>7. ASSUME NEW t \in SendThreads, Sender(t)  PROVE UNCHANGED <<apc, out>>
      BY <3>7 DEF Sender, SendPop, SendDeliver
    <3>8. CASE UNCHANGED vars
      BY <3>8 DEF vars
    <3>. QED  BY <3>1, <3>2, <3>3, <3>4, <3>5, <3>6, <3>7, <3>8 DEF Next, Main
  <2>. QED  BY <2>1, <2>2, <2>3, <2>4 DEF Acceptor
<1>. QED  BY <1>3, <1>4, <1>5 DEF ExitsAreFinal

\* A member that stays goes on showing, or being told of, whom it did.
StillTold ==
    /\ UNCHANGED <<apc, tfd, out>>
    /\ Underway \subseteq Underway'
    /\ \A fd \in On' : fd \in On /\ file'[fd] = file[fd]
    /\ \A c \in Clients : conn'[c] = "in" => conn[c] = "in" /\ known[c] \subseteq known'[c]

LEMMA ToldKept ==
  ASSUME Typed, MembersAreOpen, EveryoneTold, StillTold
  PROVE  EveryoneTold'
<1>. SUFFICES ASSUME NEW f \in On', NEW g \in On', f # g, conn'[file'[f]] = "in"
              PROVE  Told(f, g)'
  BY DEF EveryoneTold
<1>1. f \in On /\ g \in On /\ file'[f] = file[f] /\ file'[g] = file[g]
  BY DEF StillTold
<1>2. file[f] \in Clients
  BY <1>1 DEF Typed, PoolTypes, Addresses, MembersAreOpen, On
<1>3. conn[file[f]] = "in" /\ known[file[f]] \subseteq known'[file[f]]
  BY <1>1, <1>2 DEF StillTold
<1>4. Told(f, g)
  BY <1>1, <1>3 DEF EveryoneTold
<1>. QED  BY <1>1, <1>3, <1>4 DEF Told, StillTold, Tells

LEMMA StillToldSteps ==
  ASSUME Typed, [Next]_vars
  PROVE  \/ Acceptor \/ MainDies \/ ClearRoom \/ CloseFd
         \/ \E t \in SendThreads : SendDeliver(t)
         \/ StillTold
<1> DEFINE Rest == /\ UNCHANGED <<apc, tfd, out>>
                   /\ \A fd \in On' : fd \in On /\ file'[fd] = file[fd]
                   /\ \A c \in Clients : conn'[c] = "in" => conn[c] = "in" /\ known'[c] = known[c]
<1>1. PoolTypes /\ ClientTypes
  BY DEF Typed
<1>2. ASSUME UNCHANGED <<apc, tfd, out, file, status, conn, known>>  PROVE Rest
  BY <1>2 DEF On
<1>3. ASSUME NEW c \in Clients, Create(c) \/ Join(c) \/ HangUp(c)  PROVE Rest
  <2>1. UNCHANGED <<apc, tfd, out, file, status>>
    BY <1>3 DEF Create, Join, HangUp, poolVars, acptVars
  <2>2. /\ \E s \in {"pipe", "gone"} : conn' = [conn EXCEPT ![c] = s]
        /\ \A d \in Clients : d # c => known'[d] = known[d]
    BY <1>1, <1>3 DEF Create, Join, HangUp, ClientTypes
  <2>3. \A d \in Clients : conn'[d] = "in" => d # c /\ conn[d] = "in"
    BY <1>1, <2>2 DEF ClientTypes
  <2>. QED  BY <2>1, <2>2, <2>3 DEF On
<1>4. ASSUME DropMember  PROVE Rest
  <2>1. /\ UNCHANGED <<apc, tfd, out, file, conn, known>>
        /\ \A fd \in Fds : status'[fd] = "ON" => status[fd] = "ON"
    BY <1>1, <1>4 DEF DropMember, acptVars, PoolTypes
  <2>. QED  BY <2>1 DEF On
<1>. HIDE DEF Rest
<1>5. ASSUME NEW fd \in Fds, FallSilent(fd)  PROVE Rest
  BY <1>2, <1>5 DEF FallSilent, acptVars
<1>6. ASSUME ParentReads  PROVE Rest
  BY <1>2, <1>6 DEF ParentReads, poolVars, acptVars
<1>7. ASSUME MainSelect \/ MainTimeout \/ MainNext \/ MainReadFails \/ MainKick \/ MainKickNotify
      PROVE  Rest
  BY <1>2, <1>7 DEF MainSelect, MainTimeout, MainNext, MainReadFails, MainKick, MainKickNotify,
                    poolVars, acptVars
<1>8. ASSUME MainHeartbeat \/ MainForward \/ MainKickRefused  PROVE Rest
  BY <1>2, <1>8 DEF MainHeartbeat, MainForward, MainKickRefused, Answer, poolVars, acptVars
<1>9. ASSUME CloseTest \/ NotifyParent \/ PushExit  PROVE Rest
  BY <1>2, <1>9 DEF CloseTest, NotifyParent, PushExit, poolVars, acptVars
<1>10. ASSUME NEW t \in SendThreads, SendPop(t)  PROVE Rest
  BY <1>2, <1>10 DEF SendPop, poolVars, acptVars
<1>11. ASSUME UNCHANGED vars  PROVE Rest
  BY <1>2, <1>11 DEF vars, poolVars, acptVars
<1>12. \/ Acceptor \/ MainDies \/ ClearRoom \/ CloseFd
       \/ \E t \in SendThreads : SendDeliver(t)
       \/ Rest
  BY <1>3, <1>4, <1>5, <1>6, <1>7, <1>8, <1>9, <1>10, <1>11 DEF Next, Main, Closing, Sender
<1>13. \/ MainDies \/ ClearRoom
       \/ \E t \in SendThreads : SendDeliver(t)
       \/ Underway \subseteq Underway'
  BY UnderwaySteps
<1>. QED  BY <1>12, <1>13 DEF Rest, StillTold

\* The acceptor tells the new member of the others and the others of it.
LEMMA AcceptorTells ==
  ASSUME MemberInv, EveryoneTold, OwnerInv', OnlyMeeting', MembersAreOpen', Acceptor, [Next]_vars
  PROVE  EveryoneTold'
<1>1. /\ PoolTypes /\ AcceptorTypes /\ ClientTypes /\ Typed /\ MembersAreOpen /\ MaxfdCoversMembers
      /\ NumberOne /\ FirstMeeting
  BY DEF MemberInv, OwnerInv, Typed
<1>2. \A fd \in On : file[fd] \in Clients /\ fdToIp[fd] = file[fd] /\ fd <= maxfd /\ fd \in Fds
  BY <1>1 DEF PoolTypes, Addresses, MembersAreOpen, MaxfdCoversMembers, On
<1>3. ~(MainDies \/ ClearRoom) /\ (\A t \in SendThreads : ~SendDeliver(t)) => Underway \subseteq Underway'
  BY <1>1, UnderwaySteps
<1>4. (On' = {} \/ \E fd : On' = {fd}) => EveryoneTold'
  BY DEF EveryoneTold
<1>5. CASE AcceptRecv
  <2>1. /\ apc = "recv" /\ apc' = "admit" /\ tfd' \in Fds /\ file[tfd'] = NoClient
        /\ \A fd \in Fds : fd # tfd' => file'[fd] = file[fd]
        /\ status' = status
    BY <1>5, Received DEF MemberInv
  <2>2. /\ sendqueue' = sendqueue /\ held' = held /\ known' = known
        /\ conn' = [conn EXCEPT ![Head(pipe)[2]] = IF @ = "pipe" THEN "in" ELSE @]
        /\ Head(pipe)[2] \in Clients /\ 1 \in DOMAIN pipe /\ Head(pipe) = pipe[1]
    BY <1>1, <1>5, PipeHead DEF AcceptRecv, Typed
  <2>3. Underway' = Underway
    BY <2>2 DEF Underway
  <2>4. \A fd \in On' : fd \in On /\ fd # tfd' /\ file'[fd] = file[fd]
    BY <1>1, <2>1 DEF On, MembersAreOpen
  <2>5. \A fd \in On : file[fd] # Head(pipe)[2]
    BY <1>1, <2>2 DEF On, Typed, Placed
  <2>6. \A fd \in On : conn'[file[fd]] = conn[file[fd]]
    BY <1>1, <1>2, <2>2, <2>5 DEF ClientTypes
  <2>. SUFFICES ASSUME NEW f \in On', NEW g \in On', f # g, conn'[file'[f]] = "in"
                PROVE  Told(f, g)'
    BY DEF EveryoneTold
  <2>7. Told(f, g)
    BY <2>4, <2>6 DEF EveryoneTold
  <2>. QED  BY <2>1, <2>2, <2>3, <2>4, <2>7 DEF Told, Tells
<1>6. CASE AcceptCreate
  <2>1. Enter(tfd) /\ Admitting /\ tfd \in Fds
    BY <1>1, <1>6 DEF AcceptCreate, Admitting, AcceptorTypes
  <2>2. \A fd \in Fds : status[fd] # "ON"
    <3>1. meetings = 0
      BY <2>1 DEF MemberInv, OnlyMeeting
    <3>. QED  BY <1>1, <3>1 DEF FirstMeeting
  <2>3. On' = {tfd}
    BY <1>1, <2>1, <2>2 DEF Enter, On, PoolTypes
  <2>. QED  BY <1>4, <2>3
<1>7. CASE AcceptTooLate
  <2>1. roomstatus' = "CLOSE"
    BY <1>7 DEF AcceptTooLate
  <2>2. On' = {}
    BY <2>1 DEF OnlyMeeting, On
  <2>. QED  BY <1>4, <2>2
<1>8. CASE AcceptJoin
  <2>1. /\ apc = "admit" /\ apc' = "compose" /\ Enter(tfd) /\ tfd' = tfd /\ tfd \in Fds
        /\ UNCHANGED <<file, sendqueue, held, conn, known>>
    BY <1>1, <1>8 DEF AcceptJoin, acptVars, AcceptorTypes
  <2>2. Underway' = Underway
    BY <2>1 DEF Underway
  <2>3. \A fd \in On' : fd = tfd \/ fd \in On
    BY <1>1, <2>1 DEF Enter, On, PoolTypes
  <2>. SUFFICES ASSUME NEW f \in On', NEW g \in On', f # g, conn'[file'[f]] = "in"
                PROVE  Told(f, g)'
    BY DEF EveryoneTold
  <2>4. CASE f = tfd \/ g = tfd
    BY <2>1, <2>4 DEF Told
  <2>5. CASE f # tfd /\ g # tfd
    <3>1. Told(f, g)
      BY <2>1, <2>3, <2>5 DEF EveryoneTold
    <3>. QED  BY <2>1, <2>2, <3>1 DEF Told, Tells
  <2>. QED  BY <2>4, <2>5
<1>9. CASE AcceptCompose
  <2>1. /\ apc = "compose" /\ apc' = "push" /\ tfd' = tfd
        /\ out' = Msg("PARTNER_JOIN", tfd, {fdToIp[tfd]})
        /\ UNCHANGED <<file, status, sendqueue, held, conn, known>>
    BY <1>9 DEF AcceptCompose, poolVars
  <2>2. Underway' = Underway /\ On' = On
    BY <2>1 DEF Underway, On
  <2>3. out'.type = "PARTNER_JOIN" /\ out'.fd = tfd /\ out'.ips = {fdToIp[tfd]}
    BY <2>1 DEF Msg
  <2>. SUFFICES ASSUME NEW f \in On, NEW g \in On, f # g, conn[file[f]] = "in"
                PROVE  Told(f, g)'
    BY <2>1, <2>2 DEF EveryoneTold
  <2>4. Told(f, g)
    BY DEF EveryoneTold
  <2>5. CASE tfd = f
    BY <2>1, <2>3, <2>5 DEF Told
  <2>6. CASE tfd = g
    <3>1. Tells(out', f, file[g])
      BY <1>2, <2>3, <2>6 DEF Tells
    <3>. QED  BY <2>1, <3>1 DEF Told, Tells
  <2>7. CASE file[g] \in known[file[f]] \/ \E m \in Underway : Tells(m, f, file[g])
    BY <2>1, <2>2, <2>7 DEF Told, Tells
  <2>. QED  BY <2>1, <2>4, <2>5, <2>6, <2>7 DEF Told
<1>10. CASE AcceptPush
  <2>1. /\ apc = "push" /\ tfd' = tfd /\ Queue!Put(out) /\ held' = held
        /\ apc' = IF out.type = "PARTNER_JOIN" THEN "list" ELSE "recv"
        /\ UNCHANGED <<file, status, conn, known>>
    BY <1>10 DEF AcceptPush, poolVars
  <2>2. Underway' = Underway \cup {out} /\ On' = On
    BY <1>1, <2>1, Added DEF On
  <2>. SUFFICES ASSUME NEW f \in On, NEW g \in On, f # g, conn[file[f]] = "in"
                PROVE  Told(f, g)'
    BY <2>1, <2>2 DEF EveryoneTold
  <2>3. Told(f, g)
    BY DEF EveryoneTold
  <2>4. CASE out.type = "PARTNER_JOIN" /\ tfd = f
    BY <2>1, <2>4 DEF Told
  <2>5. CASE Tells(out, f, file[g]) \/ \E m \in Underway : Tells(m, f, file[g])
    <3>1. \E m \in Underway' : Tells(m, f, file[g])
      BY <2>2, <2>5
    <3>. QED  BY <2>1, <3>1 DEF Told, Tells
  <2>6. CASE file[g] \in known[file[f]]
    BY <2>1, <2>6 DEF Told
  <2>. QED  BY <2>1, <2>3, <2>4, <2>5, <2>6 DEF Told
<1>11. CASE AcceptList
  <2>1. /\ apc = "list" /\ apc' = "push" /\ tfd' = tfd
        /\ out' = Msg("PARTNER_JOIN2", tfd, {fdToIp[fd] : fd \in {g \in On : g <= maxfd /\ g # tfd}})
        /\ UNCHANGED <<file, status, sendqueue, held, conn, known>>
    BY <1>11 DEF AcceptList, poolVars
  <2>2. Underway' = Underway /\ On' = On
    BY <2>1 DEF Underway, On
  <2>3. /\ out'.type = "PARTNER_JOIN2" /\ out'.fd = tfd
        /\ out'.ips = {fdToIp[fd] : fd \in {g \in On : g <= maxfd /\ g # tfd}}
    BY <2>1 DEF Msg
  <2>. SUFFICES ASSUME NEW f \in On, NEW g \in On, f # g, conn[file[f]] = "in"
                PROVE  Told(f, g)'
    BY <2>1, <2>2 DEF EveryoneTold
  <2>4. Told(f, g)
    BY DEF EveryoneTold
  <2>5. CASE tfd = f
    <3>1. Tells(out', f, file[g])
      BY <1>2, <2>3, <2>5 DEF Tells
    <3>. QED  BY <2>1, <3>1 DEF Told, Tells
  <2>6. CASE file[g] \in known[file[f]] \/ \E m \in Underway : Tells(m, f, file[g])
    BY <2>1, <2>2, <2>6 DEF Told, Tells
  <2>. QED  BY <2>1, <2>4, <2>5, <2>6 DEF Told
<1>. QED  BY <1>5, <1>6, <1>7, <1>8, <1>9, <1>10, <1>11 DEF Acceptor

\* A sender writes a message to its receivers, and no exit takes anybody in the pool away.
LEMMA DeliveryTells ==
  ASSUME MemberInv, ExitsAreFinal, EveryoneTold, NEW t \in SendThreads, SendDeliver(t)
  PROVE  EveryoneTold'
<1>1. /\ PoolTypes /\ ClientTypes /\ Typed /\ MembersAreOpen /\ MaxfdCoversMembers
  BY DEF MemberInv, OwnerInv, Typed
<1>2. \A fd \in On : file[fd] \in Clients /\ fd <= maxfd /\ fd \in Fds
  BY <1>1 DEF PoolTypes, Addresses, MembersAreOpen, MaxfdCoversMembers, On
<1> DEFINE m == held[t]
<1>3. /\ m \in Underway /\ Underway \subseteq Underway' \cup {m} /\ m \in Message
  BY <1>1, Delivered, UnderwayTyped
<1>4. /\ \A c \in Clients :
            known'[c] = IF conn[c] = "in" /\ \E fd \in Receivers(m) : file[fd] = c
                        THEN Shown(c, m) ELSE known[c]
      /\ UNCHANGED <<file, status, conn, apc, tfd, out>>
  BY DEF SendDeliver, poolVars, acptVars
<1>. HIDE DEF m
<1>5. On' = On
  BY <1>4 DEF On
<1>. SUFFICES ASSUME NEW f \in On, NEW g \in On, f # g, conn[file[f]] = "in"
              PROVE  Told(f, g)'
  BY <1>4, <1>5 DEF EveryoneTold
<1>6. Told(f, g)
  BY DEF EveryoneTold
<1>7. CASE file[g] \in known[file[f]]
  <2>1. m.type = "PARTNER_EXIT" => file[g] \notin m.ips
    <3>1. file[g] \in Clients /\ conn[file[g]] # "over"
      BY <1>1, <1>2 DEF Typed, Placed, On
    <3>. QED  BY <1>3, <3>1 DEF ExitsAreFinal
  <2>2. file[g] \in Shown(file[f], m)
    BY <1>7, <2>1 DEF Shown
  <2>3. file[g] \in known'[file[f]]
    BY <1>2, <1>4, <1>7, <2>2
  <2>. QED  BY <1>4, <2>3 DEF Told
<1>8. CASE Tells(m, f, file[g])
  <2>1. f \in Receivers(m)
    BY <1>2, <1>8 DEF Tells, Receivers
  <2>2. file[g] \in Shown(file[f], m)
    BY <1>8 DEF Tells, Shown
  <2>3. file[g] \in known'[file[f]]
    BY <1>2, <1>4, <2>1, <2>2
  <2>. QED  BY <1>4, <2>3 DEF Told
<1>9. CASE \E n \in Underway' : Tells(n, f, file[g])
  BY <1>4, <1>9 DEF Told, Tells
<1>10. CASE apc \in {"compose", "push", "list"} /\ Told(f, g)
            /\ file[g] \notin known[file[f]] /\ ~ \E n \in Underway : Tells(n, f, file[g])
  BY <1>4, <1>10 DEF Told, Tells
<1>. QED  BY <1>3, <1>6, <1>7, <1>8, <1>9, <1>10 DEF Told

LEMMA TellStep ==
  ASSUME MemberInv, ExitsAreFinal, EveryoneTold, [Next]_vars, OwnerInv', OnlyMeeting',
         MembersAreOpen'
  PROVE  EveryoneTold'
<1>1. /\ PoolTypes /\ MainTypes /\ ClientTypes /\ Typed /\ MembersAreOpen
  BY DEF MemberInv, OwnerInv, Typed
<1>2. On' = {} => EveryoneTold'
  BY DEF EveryoneTold
<1>3. CASE MainDies \/ ClearRoom
  <2>1. On' = {}
    BY <1>3 DEF MainDies, ClearRoom, On
  <2>. QED  BY <1>2, <2>1
<1>4. CASE CloseFd
  <2>1. /\ mpc = "close fd" /\ cfd \in Fds /\ CloseAll({cfd})
        /\ UNCHANGED <<status, owner, sendqueue, held, apc, tfd, out>>
    BY <1>1, <1>4 DEF CloseFd, MainTypes, acptVars
  <2>2. Underway' = Underway /\ On' = On
    BY <2>1 DEF Underway, On
  <2>3. CASE owner = 1
    <3>1. cfd \notin On
      BY <2>1, <2>3 DEF MemberInv, MembersInHand, On
    <3>2. \A fd \in On : file'[fd] = file[fd]
      BY <2>1, <3>1 DEF CloseAll, On
    <3>3. \A c \in Clients : conn'[c] = "in" => conn[c] = "in" /\ known'[c] = known[c]
      BY <2>1 DEF CloseAll
    <3>4. StillTold
      BY <2>1, <2>2, <3>2, <3>3 DEF StillTold
    <3>. QED  BY <1>1, <3>4, ToldKept
  <2>4. CASE owner # 1
    <3>1. On = {}
      BY <2>4 DEF MemberInv, OwnerInv, NumberOne, OnlyMeeting, On
    <3>. QED  BY <1>2, <2>2, <3>1
  <2>. QED  BY <2>3, <2>4
<1>. QED  BY <1>1, <1>3, <1>4, StillToldSteps, ToldKept, AcceptorTells, DeliveryTells

LEMMA KnownInvStep ==
  ASSUME MaxMeetings <= 1, ~Reconnects, KnownInv, [Next]_vars
  PROVE  KnownInv'
<1>1. MemberInv'
  BY MemberInvStep DEF KnownInv
<1>2. OwnerInv' /\ OnlyMeeting' /\ MembersAreOpen'
  BY <1>1 DEF MemberInv
<1>3. Addressed' /\ ExitsAreFinal'
  BY AddressedStep, ExitsStep DEF KnownInv, MemberInv
<1>4. EveryoneTold'
  BY <1>2, TellStep DEF KnownInv
<1>. QED  BY <1>1, <1>3, <1>4 DEF KnownInv

\* When everything has settled in a room's first meeting every member shows every other one,
\* if no client comes back to a meeting it has left: whatever order the acceptor, the main
\* thread and the senders take, PARTNER_JOIN and PARTNER_JOIN2 together name every pair
\* (room.cpp:515-550), and a PARTNER_EXIT names nobody who is in the pool (room.cpp:447-455).
THEOREM MembersKnowEachOther ==
  ASSUME MaxMeetings <= 1, ~Reconnects
  PROVE  Spec => []KnowsEveryMember
<1>1. Init => KnownInv
  <2>. SUFFICES ASSUME Init  PROVE KnownInv
    OBVIOUS
  <2>1. Underway = {} /\ On = {}
    BY DEF Init, Underway, On
  <2>2. ExitsAreFinal
    BY <2>1 DEF Init, ExitsAreFinal, ExitInHand
  <2>3. Addressed
    BY DEF Init, Addressed
  <2>4. EveryoneTold
    BY <2>1 DEF EveryoneTold
  <2>. QED  BY <2>2, <2>3, <2>4, MemberInvInit DEF KnownInv
<1>2. KnownInv => KnowsEveryMember
  <2>. SUFFICES ASSUME KnownInv, Settled, NEW c \in Present, NEW d \in Present, c # d
                PROVE  d \in known[c]
    BY DEF KnowsEveryMember
  <2>1. PICK f \in On : c = file[f]
    BY DEF Present, Pool
  <2>2. PICK g \in On : d = file[g]
    BY DEF Present, Pool
  <2>3. Told(f, g)
    BY <2>1, <2>2 DEF KnownInv, EveryoneTold, Present
  <2>4. Underway = {}
    BY DEF Settled, Underway
  <2>. QED  BY <2>1, <2>2, <2>3, <2>4 DEF Told, Settled
<1>. QED  BY <1>1, <1>2, KnownInvStep, PTL DEF Spec

=============================================================================
