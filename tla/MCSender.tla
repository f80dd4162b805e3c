------------------------------ MODULE MCSender -----------------------------
(* Sender with timestamps that begin right before a wrap-around.           *)
EXTENDS Sender

JustThree == {3}
JustOne == {1}
=============================================================================
