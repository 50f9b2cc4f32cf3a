------------------------------ MODULE MCFriends ------------------------------
(* Instantiates Friends for TLC: two users: crossing requests, a block and   *)
(* a stale cache all need only two.                                         *)
EXTENDS Friends

MCUsers == {1, 2}
OneSlot == {1}
TwoSlots == {1, 2}
=============================================================================
