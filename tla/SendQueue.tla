----------------------------- MODULE SendQueue -----------------------------
(***************************************************************************)
(* The send queue of a room process: SEND_QUEUE of server/msg.h, a bounded *)
(* std::queue guarded by one mutex and ONE condition variable, on which    *)
(* both the threads that push into a full queue and the threads that pop   *)
(* from an empty one wait.                                                 *)
(*                                                                         *)
(* Every access to the queue happens between Pthread_mutex_lock and either *)
(* Pthread_mutex_unlock or Pthread_cond_wait, so each critical section is  *)
(* one action.  pthread_cond_signal comes AFTER the unlock (lines 64, 77), *)
(* so it is an action of its own, and any thread may run in between.       *)
(*                                                                         *)
(* The callers are those of server/room.cpp: Producers are the room's main *)
(* (select) thread and its accept_fd thread, Consumers the SENDTHREADSIZE  *)
(* threads running send_func, Clearers the threads that reach clear_room   *)
(* (the main thread, through fdclose).                                     *)
(***************************************************************************)
EXTENDS Naturals, Sequences, FiniteSets

CONSTANTS
    Producers,   \* threads that call push_msg
    Consumers,   \* threads that call pop_msg
    Clearers,    \* the producers that also call clear
    Msgs,        \* the messages
    MAXSIZE      \* capacity of the queue (msg.h:8)

Threads == Producers \cup Consumers

\* A room process has two producers, five consumers and room for 10000
\* messages; what the theorems need of those numbers is the last conjunct.
ASSUME QueueAssumption ==
    /\ IsFiniteSet(Producers)
    /\ IsFiniteSet(Consumers)
    /\ Consumers # {}
    /\ Producers \cap Consumers = {}
    /\ Clearers \subseteq Producers
    /\ MAXSIZE \in Nat
    /\ MAXSIZE + 1 >= 2 * Cardinality(Producers \cup Consumers)

VARIABLES
    queue,     \* send_queue
    waiting,   \* the threads blocked in Pthread_cond_wait on cond
    pc,        \* where each thread is, see PcOf
    msg        \* the message a thread is pushing, or has popped and is sending

vars == <<queue, waiting, pc, msg>>

(***************************************************************************)
(* A producer is "idle" outside the queue, in "push" from the call until   *)
(* it has appended, then in "signal".  A consumer loops through "pop",     *)
(* "signal" and "busy" (the body of send_func after pop_msg).  A thread in *)
(* "push" or "pop" that is not in waiting is about to (re)test its loop    *)
(* condition with the mutex held.                                          *)
(***************************************************************************)
PcOf(t) == IF t \in Producers THEN {"idle", "push", "signal"}
                              ELSE {"pop", "signal", "busy"}

Init ==
    /\ queue = <<>>
    /\ waiting = {}
    /\ pc = [t \in Threads |-> IF t \in Producers THEN "idle" ELSE "pop"]
    /\ msg \in [Threads -> Msgs]

-----------------------------------------------------------------------------
(* push_msg *)

CallPush(p, m) ==
    /\ pc[p] = "idle"
    /\ pc' = [pc EXCEPT ![p] = "push"]
    /\ msg' = [msg EXCEPT ![p] = m]
    /\ UNCHANGED <<queue, waiting>>

PushWait(p) ==
    /\ pc[p] = "push" /\ p \notin waiting
    /\ Len(queue) >= MAXSIZE
    /\ waiting' = waiting \cup {p}
    /\ UNCHANGED <<queue, pc, msg>>

\* Faulty variants of PushAppend: the capacity test off by one, no signal at
\* all, and a signal only when the queue was empty.
PushAppendOverfull(p) ==
    /\ pc[p] = "push" /\ p \notin waiting
    /\ Len(queue) <= MAXSIZE
    /\ queue' = Append(queue, msg[p])
    /\ pc' = [pc EXCEPT ![p] = "signal"]
    /\ UNCHANGED <<waiting, msg>>

PushAppendSilent(p) ==
    /\ pc[p] = "push" /\ p \notin waiting
    /\ Len(queue) < MAXSIZE
    /\ queue' = Append(queue, msg[p])
    /\ pc' = [pc EXCEPT ![p] = "idle"]
    /\ UNCHANGED <<waiting, msg>>

PushAppendSignalIfEmpty(p) ==
    /\ pc[p] = "push" /\ p \notin waiting
    /\ Len(queue) < MAXSIZE
    /\ queue' = Append(queue, msg[p])
    /\ pc' = [pc EXCEPT ![p] = IF queue = <<>> THEN "signal" ELSE "idle"]
    /\ UNCHANGED <<waiting, msg>>

PushAppend(p) ==
    /\ pc[p] = "push" /\ p \notin waiting
    /\ Len(queue) < MAXSIZE
    /\ queue' = Append(queue, msg[p])
    /\ pc' = [pc EXCEPT ![p] = "signal"]
    /\ UNCHANGED <<waiting, msg>>

-----------------------------------------------------------------------------
(* pop_msg *)

PopWait(c) ==
    /\ pc[c] = "pop" /\ c \notin waiting
    /\ queue = <<>>
    /\ waiting' = waiting \cup {c}
    /\ UNCHANGED <<queue, pc, msg>>

\* Faulty variants of PopTake: no signal, and the newest message first.
PopTakeSilent(c) ==
    /\ pc[c] = "pop" /\ c \notin waiting
    /\ queue # <<>>
    /\ msg' = [msg EXCEPT ![c] = Head(queue)]
    /\ queue' = Tail(queue)
    /\ pc' = [pc EXCEPT ![c] = "busy"]
    /\ UNCHANGED waiting

PopTakeNewest(c) ==
    /\ pc[c] = "pop" /\ c \notin waiting
    /\ queue # <<>>
    /\ msg' = [msg EXCEPT ![c] = queue[Len(queue)]]
    /\ queue' = SubSeq(queue, 1, Len(queue) - 1)
    /\ pc' = [pc EXCEPT ![c] = "signal"]
    /\ UNCHANGED waiting

PopTake(c) ==
    /\ pc[c] = "pop" /\ c \notin waiting
    /\ queue # <<>>
    /\ msg' = [msg EXCEPT ![c] = Head(queue)]
    /\ queue' = Tail(queue)
    /\ pc' = [pc EXCEPT ![c] = "signal"]
    /\ UNCHANGED waiting

\* send_func has written the message to its receivers and loops.
SendDone(c) ==
    /\ pc[c] = "busy"
    /\ pc' = [pc EXCEPT ![c] = "pop"]
    /\ UNCHANGED <<queue, waiting, msg>>

-----------------------------------------------------------------------------
(* The condition variable *)

\* Where a thread goes once it has signalled.
AfterSignal(t) == IF t \in Producers THEN "idle" ELSE "busy"

\* pthread_cond_signal wakes one waiter, producer or consumer alike, and is
\* lost when nobody waits.
Signal(t) ==
    /\ pc[t] = "signal"
    /\ pc' = [pc EXCEPT ![t] = AfterSignal(t)]
    /\ IF waiting = {} THEN UNCHANGED waiting
                       ELSE \E u \in waiting : waiting' = waiting \ {u}
    /\ UNCHANGED <<queue, msg>>

\* POSIX lets pthread_cond_wait return without a signal.
SpuriousWakeup(t) ==
    /\ t \in waiting
    /\ waiting' = waiting \ {t}
    /\ UNCHANGED <<queue, pc, msg>>

\* clear() empties the queue and signals nobody.
Clear(p) ==
    /\ p \in Clearers
    /\ pc[p] = "idle"
    /\ queue # <<>>
    /\ queue' = <<>>
    /\ UNCHANGED <<waiting, pc, msg>>

-----------------------------------------------------------------------------

Push(p) == PushWait(p) \/ PushAppend(p)
Pop(c)  == PopWait(c) \/ PopTake(c)

Next ==
    \/ \E p \in Producers : \/ \E m \in Msgs : CallPush(p, m)
                            \/ Push(p)
                            \/ Clear(p)
    \/ \E c \in Consumers : Pop(c) \/ SendDone(c)
    \/ \E t \in Threads : Signal(t) \/ SpuriousWakeup(t)

\* The scheduler runs every runnable thread, and a writen of send_func returns
\* (it fails once the peer is gone).  Nothing makes a caller push or clear, and
\* no spurious wakeup has to come.
Fairness ==
    /\ \A p \in Producers : WF_vars(Push(p))
    /\ \A c \in Consumers : WF_vars(Pop(c)) /\ WF_vars(SendDone(c))
    /\ \A t \in Threads : WF_vars(Signal(t))

Spec == Init /\ [][Next]_vars
FairSpec == Spec /\ Fairness

-----------------------------------------------------------------------------
(* Properties *)

TypeOK ==
    /\ queue \in Seq(Msgs)
    /\ Len(queue) <= MAXSIZE
    /\ waiting \subseteq Threads
    /\ pc \in [Threads -> {"idle", "push", "pop", "signal", "busy"}]
    /\ \A t \in Threads : pc[t] \in PcOf(t)
    /\ \A t \in waiting : pc[t] \in {"push", "pop"}
    /\ msg \in [Threads -> Msgs]

Signalling == {t \in Threads : pc[t] = "signal"}

\* A thread that will touch the queue or signal without being woken first.
Awake(t) == t \notin waiting /\ pc[t] # "idle"

\* The count behind the next properties.  While a send thread sleeps, the
\* signals sent or about to be sent since the queue was last empty have woken
\* at least one sleeper per message, up to the number of threads.
SleepingSendersCount ==
    waiting \cap Consumers # {} =>
        Len(queue) + Cardinality(waiting)
            <= Cardinality(Signalling) + Cardinality(Threads)

\* Its mirror image for a sleeping producer; clear() breaks it.
SleepingProducersCount ==
    waiting \cap Producers # {} =>
        MAXSIZE + Cardinality(waiting)
            <= Len(queue) + Cardinality(Signalling) + Cardinality(Threads)

\* A full queue never finds a send thread asleep: the signals of push_msg all
\* reached the send threads while the queue filled, although any of them could
\* have gone to a producer waiting on the same condition variable.
FullQueueKeepsSendersAwake ==
    Len(queue) = MAXSIZE => waiting \cap Consumers = {}

\* No message is stranded in the queue: while it holds one, some thread is
\* awake that will take it or pass a signal on (push_msg, pop_msg).
NoStrandedMessage ==
    queue # <<>> => \E t \in Threads : Awake(t)

\* A producer that sleeps on a full queue sleeps only while there is something
\* to pop, so a send thread's signal is still to come.  It holds as long as
\* nobody calls clear(); clear() leaves the producer asleep on an empty queue.
NoStrandedProducer ==
    waiting \cap Producers # {} => queue # <<>>

\* The two kinds of waiters never share the condition variable, which is what
\* makes one pthread_cond_signal enough; again only while nobody calls clear().
NoMixedWaiters ==
    waiting \cap Producers = {} \/ waiting \cap Consumers = {}

\* The queue implements the bounded FIFO, fairness included: messages leave in
\* the order of their push, none is lost or duplicated except by clear(), and
\* a non-empty queue is eventually taken from.
Fifo == INSTANCE BoundedFifo WITH buffer <- queue, Capacity <- MAXSIZE
ImplementsFifo == Fifo!Spec

=============================================================================
