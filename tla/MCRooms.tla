------------------------------- MODULE MCRooms -------------------------------
(* Rooms for TLC: two users (a creator and another user are all a join,   *)
(* an invite, a foreign redaction or a retried send needs), one txn_id.   *)
EXTENDS Rooms

CONSTANTS r1, r2, x1

MCUsers == {1, 2}
OneRoom == {r1}
TwoRooms == {r1, r2}
MCTxnIds == {x1}
OneSlot == {1}
TwoSlots == {1, 2}
=============================================================================
