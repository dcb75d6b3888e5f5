-------------------------- MODULE SendQueueProofs --------------------------
(***************************************************************************)
(* Theorems about SendQueue, for any sets of producers and consumers, any  *)
(* messages and any capacity that QueueAssumption allows.                  *)
(*                                                                         *)
(* One condition variable serves two kinds of waiters and each             *)
(* pthread_cond_signal wakes only one of them, so a signal can be spent on *)
(* the wrong kind.  The argument that this never hurts counts: between an  *)
(* empty and a full queue MAXSIZE messages are pushed and as many signals  *)
(* are due; at most one per thread is not sent yet; the others have woken  *)
(* a thread each, and there are fewer threads than that.                   *)
(***************************************************************************)
EXTENDS SendQueue, FiniteSetTheorems, SequenceTheorems, TLAPS

\* The set of threads is finite, and its size is a number.
LEMMA ThreadsFinite ==
    /\ IsFiniteSet(Threads)
    /\ Cardinality(Threads) \in Nat
    /\ MAXSIZE \in Nat
    /\ MAXSIZE + 1 >= 2 * Cardinality(Threads)
  BY QueueAssumption, FS_Union, FS_CardinalityType DEF Threads

\* Two disjoint sets of threads are together no more than the threads.
LEMMA DisjointThreads ==
  ASSUME NEW W \in SUBSET Threads, NEW S \in SUBSET Threads, W \cap S = {}
  PROVE  /\ IsFiniteSet(W) /\ Cardinality(W) \in Nat
         /\ IsFiniteSet(S) /\ Cardinality(S) \in Nat
         /\ Cardinality(W) + Cardinality(S) <= Cardinality(Threads)
         /\ W # {} => Cardinality(W) >= 1
<1>1. /\ IsFiniteSet(W) /\ Cardinality(W) \in Nat
      /\ IsFiniteSet(S) /\ Cardinality(S) \in Nat
  BY ThreadsFinite, FS_Subset, FS_CardinalityType
<1>2. Cardinality(W \cup S) = Cardinality(W) + Cardinality(S)
  <2>1. Cardinality(W \cap S) = 0
    BY FS_EmptySet
  <2>2. Cardinality(W \cup S) = Cardinality(W) + Cardinality(S) - Cardinality(W \cap S)
    BY <1>1, FS_Union
  <2>. QED  BY <1>1, <2>1, <2>2
<1>3. Cardinality(W \cup S) <= Cardinality(Threads)
  BY ThreadsFinite, FS_Subset, W \cup S \in SUBSET Threads
<1>4. W # {} => Cardinality(W) >= 1
  BY <1>1, FS_EmptySet
<1>. QED
  BY <1>1, <1>2, <1>3, <1>4

\* The sleepers and the threads that still owe a signal are such sets.
LEMMA SleepersAndSignallers ==
  ASSUME TypeOK
  PROVE  /\ IsFiniteSet(waiting) /\ Cardinality(waiting) \in Nat
         /\ IsFiniteSet(Signalling) /\ Cardinality(Signalling) \in Nat
         /\ Cardinality(waiting) + Cardinality(Signalling) <= Cardinality(Threads)
         /\ waiting # {} => Cardinality(waiting) >= 1
<1>1. /\ waiting \in SUBSET Threads /\ Signalling \in SUBSET Threads
      /\ waiting \cap Signalling = {}
  BY DEF TypeOK, Signalling
<1>. QED
  BY <1>1, DisjointThreads

-----------------------------------------------------------------------------

\* The queue holds messages only and never more than MAXSIZE of them, and only
\* threads inside push_msg or pop_msg sleep: push_msg and pop_msg of msg.h keep
\* the types whatever the interleaving.
THEOREM TypeCorrect == Spec => []TypeOK
<1>1. Init => TypeOK
  BY QueueAssumption, EmptySeq DEF Init, TypeOK, Threads, PcOf
<1>2. TypeOK /\ [Next]_vars => TypeOK'
  <2> SUFFICES ASSUME TypeOK, [Next]_vars PROVE TypeOK'
    OBVIOUS
  <2> USE QueueAssumption DEF TypeOK, Threads, PcOf
  <2>1. ASSUME NEW p \in Producers, NEW m \in Msgs, CallPush(p, m) PROVE TypeOK'
    BY <2>1 DEF CallPush
  <2>2. ASSUME NEW p \in Producers, PushWait(p) PROVE TypeOK'
    BY <2>2 DEF PushWait
  <2>3. ASSUME NEW p \in Producers, PushAppend(p) PROVE TypeOK'
    <3>1. /\ queue' \in Seq(Msgs)
          /\ Len(queue') = Len(queue) + 1
      BY <2>3, AppendProperties DEF PushAppend
    <3>2. Len(queue') <= MAXSIZE
      BY <2>3, <3>1, LenProperties DEF PushAppend
    <3>. QED  BY <2>3, <3>1, <3>2 DEF PushAppend
  <2>4. ASSUME NEW p \in Producers, Clear(p) PROVE TypeOK'
    BY <2>4, EmptySeq DEF Clear
  <2>5. ASSUME NEW c \in Consumers, PopWait(c) PROVE TypeOK'
    BY <2>5 DEF PopWait
  <2>6. ASSUME NEW c \in Consumers, PopTake(c) PROVE TypeOK'
    <3>1. /\ Head(queue) \in Msgs
          /\ queue' \in Seq(Msgs)
          /\ Len(queue') = Len(queue) - 1
      BY <2>6, HeadTailProperties DEF PopTake
    <3>2. Len(queue') <= MAXSIZE
      BY <3>1, LenProperties
    <3>. QED  BY <2>6, <3>1, <3>2 DEF PopTake
  <2>7. ASSUME NEW c \in Consumers, SendDone(c) PROVE TypeOK'
    BY <2>7 DEF SendDone
  <2>8. ASSUME NEW t \in Threads, Signal(t) PROVE TypeOK'
    <3>1. waiting' \subseteq waiting
      BY <2>8 DEF Signal
    <3>. QED  BY <2>8, <3>1 DEF Signal, AfterSignal
  <2>9. ASSUME NEW t \in Threads, SpuriousWakeup(t) PROVE TypeOK'
    BY <2>9 DEF SpuriousWakeup
  <2>10. CASE UNCHANGED vars
    BY <2>10 DEF vars
  <2>. QED
    BY <2>1, <2>2, <2>3, <2>4, <2>5, <2>6, <2>7, <2>8, <2>9, <2>10
       DEF Next, Push, Pop
<1>. QED
  BY <1>1, <1>2, PTL DEF Spec

-----------------------------------------------------------------------------

\* A count implies that a full queue has no sleeping send thread: the sleepers
\* and the signals still owed cannot fill the distance.
LEMMA CountKeepsSendersAwake ==
  ASSUME TypeOK, SleepingSendersCount
  PROVE  FullQueueKeepsSendersAwake
<1>. SUFFICES ASSUME Len(queue) = MAXSIZE, waiting \cap Consumers # {} PROVE FALSE
  BY DEF FullQueueKeepsSendersAwake
<1>1. MAXSIZE + Cardinality(waiting) <= Cardinality(Signalling) + Cardinality(Threads)
  BY DEF SleepingSendersCount
<1>2. waiting # {}
  OBVIOUS
<1>. QED
  BY <1>1, <1>2, ThreadsFinite, SleepersAndSignallers

\* What a step does to the two cardinalities: a thread that appends or takes
\* owes one signal more, a signal wakes one sleeper if there is one.
LEMMA WakeOne ==
  ASSUME TypeOK, NEW t \in Threads, Signal(t), waiting # {}
  PROVE  /\ waiting' \subseteq waiting
         /\ Cardinality(waiting') = Cardinality(waiting) - 1
         /\ Cardinality(Signalling') = Cardinality(Signalling) - 1
         /\ queue' = queue
<1>1. PICK u \in waiting : waiting' = waiting \ {u}
  BY DEF Signal
<1>2. Signalling' = Signalling \ {t} /\ t \in Signalling
  BY DEF Signal, Signalling, TypeOK, AfterSignal
<1>. QED
  BY <1>1, <1>2, SleepersAndSignallers, FS_RemoveElement DEF Signal

LEMMA OweOne ==
  ASSUME TypeOK, NEW t \in Threads, pc[t] # "signal",
         pc' = [pc EXCEPT ![t] = "signal"]
  PROVE  Cardinality(Signalling') = Cardinality(Signalling) + 1
<1>1. Signalling' = Signalling \cup {t} /\ t \notin Signalling
  BY DEF Signalling, TypeOK
<1>. QED
  BY <1>1, SleepersAndSignallers, FS_AddElement

LEMMA AppendLength ==
  ASSUME TypeOK, NEW p \in Producers, PushAppend(p)
  PROVE  Len(queue') = Len(queue) + 1 /\ Len(queue) \in Nat
  BY LenProperties, AppendProperties DEF TypeOK, PushAppend, Threads

LEMMA TakeLength ==
  ASSUME TypeOK, NEW c \in Consumers, PopTake(c)
  PROVE  Len(queue') = Len(queue) - 1 /\ Len(queue) \in Nat
  BY LenProperties, HeadTailProperties DEF TypeOK, PopTake

\* The count is inductive, clear() included.
LEMMA SendersCountStep ==
  ASSUME TypeOK, TypeOK', SleepingSendersCount, [Next]_vars
  PROVE  SleepingSendersCount'
<1>. DEFINE W == Cardinality(waiting)
            S == Cardinality(Signalling)
            T == Cardinality(Threads)
<1>. SUFFICES ASSUME waiting' \cap Consumers # {}
              PROVE  Len(queue') + W' <= S' + T
  BY DEF SleepingSendersCount, Threads
<1>0. /\ W \in Nat /\ S \in Nat /\ T \in Nat /\ Len(queue) \in Nat
      /\ W' \in Nat /\ S' \in Nat /\ Len(queue') \in Nat
      /\ W + S <= T /\ W' + S' <= T
  <2>1. W \in Nat /\ S \in Nat /\ W + S <= T
    BY SleepersAndSignallers
  <2>2. W' \in Nat /\ S' \in Nat /\ W' + S' <= T
    <3>1. /\ waiting' \in SUBSET Threads /\ Signalling' \in SUBSET Threads
          /\ waiting' \cap Signalling' = {}
      BY DEF TypeOK, Signalling, Threads
    <3>. QED  BY <3>1, DisjointThreads
  <2>. QED  BY <2>1, <2>2, ThreadsFinite, LenProperties DEF TypeOK
<1>1. ASSUME NEW p \in Producers, NEW m \in Msgs, CallPush(p, m)
      PROVE  Len(queue') + W' <= S' + T
  <2>1. Signalling' = Signalling
    BY <1>1 DEF CallPush, Signalling, TypeOK, Threads
  <2>. QED  BY <1>1, <2>1 DEF CallPush, SleepingSendersCount
<1>2. ASSUME NEW p \in Producers, PushWait(p)
      PROVE  Len(queue') + W' <= S' + T
  <2>1. Len(queue) = MAXSIZE
    BY <1>2, <1>0, QueueAssumption DEF PushWait, TypeOK
  <2>2. waiting \cap Consumers # {}
    BY <1>2, QueueAssumption DEF PushWait
  <2>. QED
    BY <2>1, <2>2, CountKeepsSendersAwake DEF FullQueueKeepsSendersAwake
<1>3. ASSUME NEW p \in Producers, PushAppend(p)
      PROVE  Len(queue') + W' <= S' + T
  <2>1. S' = S + 1
    BY <1>3, OweOne DEF PushAppend, Threads
  <2>2. Len(queue') = Len(queue) + 1 /\ waiting' = waiting
    BY <1>3, AppendLength DEF PushAppend
  <2>. QED  BY <1>0, <2>1, <2>2 DEF SleepingSendersCount
<1>4. ASSUME NEW p \in Producers, Clear(p)
      PROVE  Len(queue') + W' <= S' + T
  <2>1. Len(queue') = 0 /\ waiting' = waiting /\ Signalling' = Signalling
    BY <1>4, EmptySeq DEF Clear, Signalling
  <2>. QED  BY <1>0, <2>1 DEF SleepingSendersCount
<1>5. ASSUME NEW c \in Consumers, PopWait(c)
      PROVE  Len(queue') + W' <= S' + T
  <2>1. Len(queue') = 0
    BY <1>5, EmptySeq DEF PopWait
  <2>. QED  BY <1>0, <2>1
<1>6. ASSUME NEW c \in Consumers, PopTake(c)
      PROVE  Len(queue') + W' <= S' + T
  <2>1. S' = S + 1
    BY <1>6, OweOne DEF PopTake, Threads
  <2>2. Len(queue') = Len(queue) - 1 /\ waiting' = waiting
    BY <1>6, TakeLength DEF PopTake
  <2>. QED  BY <1>0, <2>1, <2>2 DEF SleepingSendersCount
<1>7. ASSUME NEW c \in Consumers, SendDone(c)
      PROVE  Len(queue') + W' <= S' + T
  <2>1. Signalling' = Signalling
    BY <1>7 DEF SendDone, Signalling, TypeOK, Threads
  <2>. QED  BY <1>7, <2>1 DEF SendDone, SleepingSendersCount
<1>8. ASSUME NEW t \in Threads, Signal(t)
      PROVE  Len(queue') + W' <= S' + T
  <2>1. waiting # {} /\ waiting \cap Consumers # {}
    BY <1>8 DEF Signal
  <2>2. W' = W - 1 /\ S' = S - 1 /\ queue' = queue
    BY <1>8, <2>1, WakeOne
  <2>3. Len(queue) + W <= S + T
    BY <2>1 DEF SleepingSendersCount
  <2>. QED  BY <1>0, <2>2, <2>3
<1>9. ASSUME NEW t \in Threads, SpuriousWakeup(t)
      PROVE  Len(queue') + W' <= S' + T
  <2>1. W' = W - 1
    BY <1>9, SleepersAndSignallers, FS_RemoveElement DEF SpuriousWakeup
  <2>2. queue' = queue /\ Signalling' = Signalling /\ waiting \cap Consumers # {}
    BY <1>9 DEF SpuriousWakeup, Signalling
  <2>. QED  BY <1>0, <2>1, <2>2 DEF SleepingSendersCount
<1>10. CASE UNCHANGED vars
  BY <1>10 DEF vars, SleepingSendersCount, Signalling
<1>. HIDE DEF W, S, T
<1>. QED
  BY <1>1, <1>2, <1>3, <1>4, <1>5, <1>6, <1>7, <1>8, <1>9, <1>10
     DEF Next, Push, Pop

\* A full queue never finds a send thread asleep (push_msg's single signal per
\* message is enough), whatever the interleaving of pushes, pops and clear().
THEOREM SendersAwake == Spec => [](SleepingSendersCount /\ FullQueueKeepsSendersAwake)
<1>1. Init => SleepingSendersCount
  BY DEF Init, SleepingSendersCount
<1>2. TypeOK /\ TypeOK' /\ SleepingSendersCount /\ [Next]_vars => SleepingSendersCount'
  BY SendersCountStep
<1>3. TypeOK /\ SleepingSendersCount => FullQueueKeepsSendersAwake
  BY CountKeepsSendersAwake
<1>. QED
  BY <1>1, <1>2, <1>3, TypeCorrect, PTL DEF Spec

-----------------------------------------------------------------------------

\* A thread asleep is asleep in push_msg or pop_msg, so once woken it is awake.
LEMMA StrandedStep ==
  ASSUME TypeOK, FullQueueKeepsSendersAwake, NoStrandedMessage, [Next]_vars
  PROVE  NoStrandedMessage'
<1>. SUFFICES ASSUME queue' # <<>>
              PROVE  \E t \in Threads : Awake(t)'
  BY DEF NoStrandedMessage, Threads
<1>. USE QueueAssumption DEF Threads, Awake
<1>1. ASSUME NEW p \in Producers, NEW m \in Msgs, CallPush(p, m)
      PROVE  \E t \in Threads : Awake(t)'
  BY <1>1 DEF CallPush, NoStrandedMessage, TypeOK
<1>2. ASSUME NEW p \in Producers, PushWait(p)
      PROVE  \E t \in Threads : Awake(t)'
  <2>1. Len(queue) = MAXSIZE
    BY <1>2, LenProperties DEF PushWait, TypeOK
  <2>2. PICK c \in Consumers : TRUE
    OBVIOUS
  <2>3. c \notin waiting' /\ pc'[c] # "idle"
    BY <1>2, <2>1 DEF FullQueueKeepsSendersAwake, PushWait, TypeOK, PcOf
  <2>. QED  BY <2>3
<1>3. ASSUME NEW p \in Producers, PushAppend(p)
      PROVE  \E t \in Threads : Awake(t)'
  BY <1>3 DEF PushAppend, TypeOK
<1>4. ASSUME NEW p \in Producers, Clear(p)
      PROVE  \E t \in Threads : Awake(t)'
  BY <1>4 DEF Clear
<1>5. ASSUME NEW c \in Consumers, PopWait(c)
      PROVE  \E t \in Threads : Awake(t)'
  BY <1>5 DEF PopWait
<1>6. ASSUME NEW c \in Consumers, PopTake(c)
      PROVE  \E t \in Threads : Awake(t)'
  BY <1>6 DEF PopTake, TypeOK
<1>7. ASSUME NEW c \in Consumers, SendDone(c)
      PROVE  \E t \in Threads : Awake(t)'
  <2>1. c \notin waiting
    BY <1>7 DEF SendDone, TypeOK
  <2>. QED  BY <1>7, <2>1 DEF SendDone, TypeOK
<1>8. ASSUME NEW t \in Threads, Signal(t)
      PROVE  \E u \in Threads : Awake(u)'
  <2>1. CASE waiting = {}
    <3>1. PICK c \in Consumers : TRUE
      OBVIOUS
    <3>2. c \notin waiting' /\ pc'[c] # "idle"
      BY <1>8, <2>1 DEF Signal, AfterSignal, TypeOK, PcOf
    <3>. QED  BY <3>2
  <2>2. CASE waiting # {}
    <3>1. PICK u \in waiting : waiting' = waiting \ {u}
      BY <1>8, <2>2 DEF Signal
    <3>2. u \in Threads /\ u # t /\ pc[u] # "idle"
      BY <1>8 DEF Signal, TypeOK
    <3>3. pc'[u] # "idle"
      BY <1>8, <3>2 DEF Signal, TypeOK
    <3>. QED  BY <3>1, <3>2, <3>3
  <2>. QED  BY <2>1, <2>2
<1>9. ASSUME NEW t \in Threads, SpuriousWakeup(t)
      PROVE  \E u \in Threads : Awake(u)'
  BY <1>9 DEF SpuriousWakeup, TypeOK
<1>10. CASE UNCHANGED vars
  BY <1>10 DEF vars, NoStrandedMessage
<1>. QED
  BY <1>1, <1>2, <1>3, <1>4, <1>5, <1>6, <1>7, <1>8, <1>9, <1>10
     DEF Next, Push, Pop

\* While a message is queued some thread is awake to take it or to pass the
\* wakeup on: no interleaving of push_msg, pop_msg and clear() strands one.
THEOREM MessagesNotStranded == Spec => []NoStrandedMessage
<1>1. Init => NoStrandedMessage
  BY DEF Init, NoStrandedMessage
<1>2. TypeOK /\ FullQueueKeepsSendersAwake /\ NoStrandedMessage /\ [Next]_vars
        => NoStrandedMessage'
  BY StrandedStep
<1>. QED
  BY <1>1, <1>2, TypeCorrect, SendersAwake, PTL DEF Spec

-----------------------------------------------------------------------------
(* Within one meeting: nobody calls clear() *)

\* The count of a sleeping producer implies that there is something to pop.
LEMMA CountLeavesMessages ==
  ASSUME TypeOK, SleepingProducersCount
  PROVE  NoStrandedProducer
<1>. SUFFICES ASSUME waiting \cap Producers # {}, queue = <<>>
              PROVE  FALSE
  BY DEF NoStrandedProducer
<1>1. /\ MAXSIZE + Cardinality(waiting)
           <= Len(queue) + Cardinality(Signalling) + Cardinality(Threads)
      /\ waiting # {} /\ Len(queue) = 0
  BY DEF SleepingProducersCount
<1>. QED  BY <1>1, ThreadsFinite, SleepersAndSignallers

\* What holds throughout one meeting.
OneMeetingInv == SleepingProducersCount /\ NoMixedWaiters

LEMMA OneMeetingStep ==
  ASSUME Clearers = {}, TypeOK, TypeOK', SleepingSendersCount, OneMeetingInv, [Next]_vars
  PROVE  OneMeetingInv'
<1>. DEFINE W == Cardinality(waiting)
            S == Cardinality(Signalling)
            T == Cardinality(Threads)
            Goal == /\ waiting' \cap Producers # {} =>
                           MAXSIZE + W' <= Len(queue') + S' + T
                    /\ waiting' \cap Producers = {} \/ waiting' \cap Consumers = {}
<1>. SUFFICES Goal
  BY DEF OneMeetingInv, SleepingProducersCount, NoMixedWaiters, Threads
<1>0. /\ W \in Nat /\ S \in Nat /\ T \in Nat /\ Len(queue) \in Nat
      /\ W' \in Nat /\ S' \in Nat /\ Len(queue') \in Nat /\ MAXSIZE \in Nat
      /\ W + S <= T /\ W' + S' <= T
  <2>1. W \in Nat /\ S \in Nat /\ W + S <= T
    BY SleepersAndSignallers
  <2>2. W' \in Nat /\ S' \in Nat /\ W' + S' <= T
    <3>1. /\ waiting' \in SUBSET Threads /\ Signalling' \in SUBSET Threads
          /\ waiting' \cap Signalling' = {}
      BY DEF TypeOK, Signalling, Threads
    <3>. QED  BY <3>1, DisjointThreads
  <2>. QED  BY <2>1, <2>2, ThreadsFinite, LenProperties DEF TypeOK
<1>1. ASSUME NEW p \in Producers, NEW m \in Msgs, CallPush(p, m)  PROVE Goal
  <2>1. Signalling' = Signalling
    BY <1>1 DEF CallPush, Signalling, TypeOK, Threads
  <2>. QED
    BY <1>1, <2>1 DEF CallPush, OneMeetingInv, SleepingProducersCount, NoMixedWaiters
<1>2. ASSUME NEW p \in Producers, PushWait(p)  PROVE Goal
  <2>1. Len(queue) = MAXSIZE /\ queue' = queue
    BY <1>2, <1>0 DEF PushWait, TypeOK
  <2>2. waiting' \cap Consumers = {}
    BY <1>2, <2>1, CountKeepsSendersAwake, QueueAssumption
       DEF FullQueueKeepsSendersAwake, PushWait
  <2>. QED  BY <1>0, <2>1, <2>2
<1>3. ASSUME NEW p \in Producers, PushAppend(p)  PROVE Goal
  <2>1. S' = S + 1
    BY <1>3, OweOne DEF PushAppend, Threads
  <2>2. Len(queue') = Len(queue) + 1 /\ waiting' = waiting
    BY <1>3, AppendLength DEF PushAppend
  <2>. QED
    BY <1>0, <2>1, <2>2 DEF OneMeetingInv, SleepingProducersCount, NoMixedWaiters
<1>4. ASSUME NEW p \in Producers, Clear(p)  PROVE Goal
  BY <1>4 DEF Clear
<1>5. ASSUME NEW c \in Consumers, PopWait(c)  PROVE Goal
  <2>1. waiting \cap Producers = {}
    BY <1>5, CountLeavesMessages DEF PopWait, NoStrandedProducer, OneMeetingInv
  <2>2. waiting' \cap Producers = {}
    BY <1>5, <2>1, QueueAssumption DEF PopWait
  <2>. QED  BY <2>2
<1>6. ASSUME NEW c \in Consumers, PopTake(c)  PROVE Goal
  <2>1. S' = S + 1
    BY <1>6, OweOne DEF PopTake, Threads
  <2>2. Len(queue') = Len(queue) - 1 /\ waiting' = waiting
    BY <1>6, TakeLength DEF PopTake
  <2>. QED
    BY <1>0, <2>1, <2>2 DEF OneMeetingInv, SleepingProducersCount, NoMixedWaiters
<1>7. ASSUME NEW c \in Consumers, SendDone(c)  PROVE Goal
  <2>1. Signalling' = Signalling
    BY <1>7 DEF SendDone, Signalling, TypeOK, Threads
  <2>. QED
    BY <1>7, <2>1 DEF SendDone, OneMeetingInv, SleepingProducersCount, NoMixedWaiters
<1>8. ASSUME NEW t \in Threads, Signal(t)  PROVE Goal
  <2>1. CASE waiting = {}
    BY <1>8, <2>1 DEF Signal
  <2>2. CASE waiting # {}
    <3>1. /\ waiting' \subseteq waiting
          /\ W' = W - 1 /\ S' = S - 1 /\ queue' = queue
      BY <1>8, <2>2, WakeOne
    <3>2. waiting' \cap Producers # {} => waiting \cap Producers # {}
      BY <3>1
    <3>3. waiting' \cap Producers = {} \/ waiting' \cap Consumers = {}
      BY <3>1 DEF OneMeetingInv, NoMixedWaiters
    <3>4. ASSUME waiting' \cap Producers # {}
          PROVE  MAXSIZE + W' <= Len(queue') + S' + T
      <4>1. MAXSIZE + W <= Len(queue) + S + T
        BY <3>2, <3>4 DEF OneMeetingInv, SleepingProducersCount
      <4>2. Len(queue') = Len(queue) /\ W' = W - 1 /\ S' = S - 1
        BY <3>1
      <4>. HIDE DEF W, S, T
      <4>. QED  BY <1>0, <4>1, <4>2
    <3>. QED  BY <3>3, <3>4
  <2>. QED  BY <2>1, <2>2
<1>9. ASSUME NEW t \in Threads, SpuriousWakeup(t)  PROVE Goal
  <2>1. W' = W - 1
    BY <1>9, SleepersAndSignallers, FS_RemoveElement DEF SpuriousWakeup
  <2>2. queue' = queue /\ Signalling' = Signalling /\ waiting' \subseteq waiting
    BY <1>9 DEF SpuriousWakeup, Signalling
  <2>. QED
    BY <1>0, <2>1, <2>2 DEF OneMeetingInv, SleepingProducersCount, NoMixedWaiters
<1>10. CASE UNCHANGED vars
  BY <1>10 DEF vars, OneMeetingInv, SleepingProducersCount, NoMixedWaiters, Signalling
<1>. HIDE DEF Goal
<1>. QED
  BY <1>1, <1>2, <1>3, <1>4, <1>5, <1>6, <1>7, <1>8, <1>9, <1>10
     DEF Next, Push, Pop

\* Until clear() is called, producers and send threads never sleep at the same
\* time, and a producer sleeps only while there is something to pop: one signal
\* per push_msg and pop_msg on one condition variable loses no wakeup.
THEOREM ProducersWoken ==
  ASSUME Clearers = {}
  PROVE  Spec => [](SleepingProducersCount /\ NoMixedWaiters /\ NoStrandedProducer)
<1>1. Init => OneMeetingInv
  BY DEF Init, OneMeetingInv, SleepingProducersCount, NoMixedWaiters
<1>2. TypeOK /\ TypeOK' /\ SleepingSendersCount /\ OneMeetingInv /\ [Next]_vars
        => OneMeetingInv'
  BY OneMeetingStep
<1>3. TypeOK /\ OneMeetingInv => SleepingProducersCount /\ NoMixedWaiters /\ NoStrandedProducer
  BY CountLeavesMessages DEF OneMeetingInv
<1>. QED
  BY <1>1, <1>2, <1>3, TypeCorrect, SendersAwake, PTL DEF Spec

\* In particular a producer that sleeps on a full queue will be signalled: there
\* is a message left whose pop_msg signals (msg.h:67-78).
THEOREM ProducersNotStranded ==
  ASSUME Clearers = {}
  PROVE  Spec => []NoStrandedProducer
BY ProducersWoken, PTL

-----------------------------------------------------------------------------
(* The abstract specification *)

\* The safety part of the refinement: the queue starts as an empty bounded
\* FIFO, and every step of push_msg, pop_msg and clear() is a step of it.
THEOREM SendQueueIsFifo == Spec => Fifo!Init /\ [][Fifo!Next]_queue
<1>1. Init => Fifo!Init
  BY DEF Init, Fifo!Init
<1>2. TypeOK /\ [Next]_vars => [Fifo!Next]_queue
  <2> SUFFICES ASSUME TypeOK, [Next]_vars, queue' # queue  PROVE Fifo!Next
    OBVIOUS
  <2>1. ASSUME NEW p \in Producers, PushAppend(p)  PROVE Fifo!Next
    <3>1. Fifo!Put(msg[p]) /\ msg[p] \in Msgs
      BY <2>1 DEF PushAppend, Fifo!Put, TypeOK, Threads
    <3>. QED  BY <3>1 DEF Fifo!Next
  <2>2. ASSUME NEW c \in Consumers, PopTake(c)  PROVE Fifo!Next
    BY <2>2 DEF PopTake, Fifo!Next, Fifo!Take
  <2>3. ASSUME NEW p \in Producers, Clear(p)  PROVE Fifo!Next
    BY <2>3 DEF Clear, Fifo!Next, Fifo!Discard
  <2>. QED
    BY <2>1, <2>2, <2>3
       DEF Next, vars, Push, Pop, CallPush, PushWait, PopWait, SendDone, Signal,
           SpuriousWakeup
<1>. QED
  BY <1>1, <1>2, TypeCorrect, PTL DEF Spec

=============================================================================
