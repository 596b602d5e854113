------------------------------ MODULE RoomVisit ------------------------------
(***************************************************************************)
(* What entering and leaving rooms promises the user of the dialog, without  *)
(* threads, connections or tasks: he is in one room at a time; a token is     *)
(* redeemed only while he is in, and in that room; the list is told of news   *)
(* only while he is in; and what a visit began is over when it is left.       *)
(***************************************************************************)
EXTENDS Naturals

CONSTANTS Rooms, NoRoom

VARIABLES
  visit,      \* number of the visit, 0 before the first
  room,       \* its room
  in,         \* it is not over
  redeemed,   \* pairs <<visit, room>> a token was redeemed for
  unread      \* the list was told of news it has not fetched

vars == <<visit, room, in, redeemed, unread>>

Init == visit = 0 /\ room = NoRoom /\ in = FALSE /\ redeemed = {} /\ unread = FALSE

Enter(r) ==
  /\ ~ in /\ in' = TRUE
  /\ visit' = visit + 1 /\ room' = r
  /\ UNCHANGED <<redeemed, unread>>

Redeem ==
  /\ in
  /\ redeemed' = redeemed \cup {<<visit, room>>}
  /\ UNCHANGED <<visit, room, in, unread>>

Report ==
  /\ in
  /\ unread' = TRUE
  /\ UNCHANGED <<visit, room, in, redeemed>>

Fetch ==
  /\ unread /\ unread' = FALSE
  /\ UNCHANGED <<visit, room, in, redeemed>>

Leave ==
  /\ in /\ in' = FALSE
  /\ UNCHANGED <<visit, room, redeemed, unread>>

Next == Redeem \/ Report \/ Fetch \/ Leave \/ \E r \in Rooms : Enter(r)

Spec == Init /\ [][Next]_vars
=============================================================================
