--------------------------- MODULE RoomLifecycle ----------------------------
(***************************************************************************)
(* What the pool of room processes promises the server's clients, with no  *)
(* worker, lock, socketpair or notice in sight: a room that is ready is    *)
(* reserved for one client, holds that client's meeting, is over when the  *)
(* host leaves, and becomes ready for another meeting.  Only a room that   *)
(* is ready is reserved, and guests are only let into a meeting.  RoomPool *)
(* is shown to implement it.                                               *)
(***************************************************************************)
CONSTANTS
    Clients,   \* the connections that meet
    Rooms,     \* the rooms
    Nobody     \* not a client

VARIABLES
    phase,     \* per room: "ready", "reserved", "meeting" or "over"
    host,      \* per room: the client whose meeting it is, or Nobody
    members    \* per room: the clients in it, its host included

vars == <<phase, host, members>>

Init ==
    /\ phase = [r \in Rooms |-> "ready"]
    /\ host = [r \in Rooms |-> Nobody]
    /\ members = [r \in Rooms |-> {}]

Reserve(r) ==
    /\ phase[r] = "ready"
    /\ phase' = [phase EXCEPT ![r] = "reserved"]
    /\ UNCHANGED <<host, members>>

Open(r) ==
    /\ phase[r] = "reserved"
    /\ phase' = [phase EXCEPT ![r] = "meeting"]
    /\ \E c \in Clients :
         /\ \A s \in Rooms : c \notin members[s]
         /\ host' = [host EXCEPT ![r] = c]
         /\ members' = [members EXCEPT ![r] = {c}]

Admit(r) ==
    /\ phase[r] = "meeting"
    /\ \E c \in Clients :
         /\ \A s \in Rooms : c \notin members[s]
         /\ members' = [members EXCEPT ![r] = @ \cup {c}]
    /\ UNCHANGED <<phase, host>>

Leave(r) ==
    /\ phase[r] = "meeting"
    /\ \E c \in members[r] \ {host[r]} :
         members' = [members EXCEPT ![r] = @ \ {c}]
    /\ UNCHANGED <<phase, host>>

End(r) ==
    /\ phase[r] = "meeting"
    /\ phase' = [phase EXCEPT ![r] = "over"]
    /\ host' = [host EXCEPT ![r] = Nobody]
    /\ members' = [members EXCEPT ![r] = {}]

Recycle(r) ==
    /\ phase[r] = "over"
    /\ phase' = [phase EXCEPT ![r] = "ready"]
    /\ UNCHANGED <<host, members>>

Next == \E r \in Rooms : Reserve(r) \/ Open(r) \/ Admit(r) \/ Leave(r) \/ End(r) \/ Recycle(r)

\* What may happen.
SafeSpec == Init /\ [][Next]_vars

\* And what must: a reservation is honoured, a room that is over is recycled.
Spec ==
    /\ SafeSpec
    /\ \A r \in Rooms : WF_vars(Open(r)) /\ WF_vars(Recycle(r))

=============================================================================
