---------------------------- MODULE MCSendQueue ----------------------------
(***************************************************************************)
(* SendQueue for TLC.                                                      *)
(***************************************************************************)
EXTENDS SendQueue, TLC

CONSTANTS main, acceptor, s1, s2, s3, m1, m2

RoomProducers == {main, acceptor}
RoomConsumers == {s1, s2, s3}
OneConsumer   == {s1}
TwoConsumers == {s1, s2}
MainClears    == {main}
NobodyClears  == {}
OneMsg        == {m1}
TwoMsgs       == {m1, m2}

SenderSymmetry == Permutations(RoomConsumers)

=============================================================================
