----------------------------- MODULE MCRecovery ----------------------------
(* Recovery for a stream whose bitrate is two for every draw, as measured  *)
(* after a second without packets and otherwise.                           *)
EXTENDS Recovery

IdleOrAll == {0, Least * (Grain + 1)}
=============================================================================
