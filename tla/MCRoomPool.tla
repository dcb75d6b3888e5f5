----------------------------- MODULE MCRoomPool -----------------------------
(***************************************************************************)
(* RoomPool for TLC.                                                       *)
(***************************************************************************)
EXTENDS RoomPool, TLC

CONSTANTS c1, c2, c3

TwoConns   == {c1, c2}
ThreeConns == {c1, c2, c3}

NoFaults   == {}
WriteFails == {"write_fd"}
EveryFault == FaultKinds

ConnSymmetry == Permutations(Conns)

=============================================================================
