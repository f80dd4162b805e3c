-------------------------- MODULE MCPathFeedback ---------------------------
(* PathFeedback with two fractions, words of four values and a smoothing   *)
(* factor that shows in small numbers.                                     *)
EXTENDS PathFeedback

CleanOrHalf == {0, 128}
AcrossWrap == {0, 3, 4, 6}
JustOne == {1}
=============================================================================
