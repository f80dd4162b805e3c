--------------------------- MODULE MCStatsStream ---------------------------
(* StatsStream with every width scaled down: a cycle of 8 numbers instead  *)
(* of 65536 and words of a few cycles.                                     *)
EXTENDS StatsStream

OneCycleWord == 16    \* extended numbers wrap after two cycles
ManyCyclesWord == 256 \* extended numbers do not wrap within the bounds
UndefinedIsZero == {0}
UndefinedIsAny == {0, 255}
=============================================================================
