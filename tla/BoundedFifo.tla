---------------------------- MODULE BoundedFifo ----------------------------
(***************************************************************************)
(* What the send queue of a room process promises its callers: a bounded   *)
(* first-in first-out buffer that may be emptied at once, and in which a   *)
(* message never waits for ever.  No thread, mutex or condition variable   *)
(* appears here; SendQueue (server/msg.h) is shown to implement it.        *)
(***************************************************************************)
EXTENDS Naturals, Sequences

CONSTANTS
    Msgs,      \* the messages that travel through the queue
    Capacity   \* the largest number of messages it holds

VARIABLE buffer

Init == buffer = <<>>

Put(m) ==
    /\ Len(buffer) < Capacity
    /\ buffer' = Append(buffer, m)

Take ==
    /\ buffer # <<>>
    /\ buffer' = Tail(buffer)

Discard ==
    /\ buffer # <<>>
    /\ buffer' = <<>>

Next ==
    \/ \E m \in Msgs : Put(m)
    \/ Take
    \/ Discard

\* A non-empty buffer is eventually taken from (or discarded).
Spec == Init /\ [][Next]_buffer /\ WF_buffer(Take \/ Discard)

=============================================================================
