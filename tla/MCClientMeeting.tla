--------------------------- MODULE MCClientMeeting ---------------------------
(***************************************************************************)
(* ClientMeeting for TLC: one peer and one meeting.                        *)
(***************************************************************************)
EXTENDS ClientMeeting

CONSTANTS p1, me

OnePeer    == {p1}
OneMeeting == {1}
BothRoles  == {"factory", "expert"}
Expert     == {"expert"}

=============================================================================
