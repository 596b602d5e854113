---------------------------- MODULE MCRoomSession ----------------------------
(* Instances of RoomSession for TLC.                                       *)
EXTENDS RoomSession

CONSTANTS r1, r2

MCRooms == {r1, r2}
Symmetric == {[r \in {r1, r2} |-> r], [r \in {r1, r2} |-> IF r = r1 THEN r2 ELSE r1]}
=============================================================================
