--------------------------- MODULE MCRoomProcess ----------------------------
(***************************************************************************)
(* RoomProcess for TLC.                                                    *)
(***************************************************************************)
EXTENDS RoomProcess, TLC

CONSTANTS c1, c2, c3, t1, t2

TwoClients   == {c1, c2}
ThreeClients == {c1, c2, c3}
OneSender    == {t1}
TwoSenders   == {t1, t2}

NoRequests   == {}
EveryRequest == RequestKinds

Symmetry == Permutations(Clients) \cup Permutations(SendThreads)

=============================================================================
