---------------------------- MODULE MCReporting ----------------------------
(* Reporting with streams that begin right before a wrap-around or at the  *)
(* number that starts in the second cycle.                                 *)
EXTENDS Reporting

LowOrHigh == {0, 6}
OnlyZero == {0}
=============================================================================
