--------------------------- MODULE MCDistribution --------------------------
(* Distribution with paths that show nothing or a whole lot, for a stream  *)
(* that is idle, or lower or higher than what a path carries.              *)
EXTENDS Distribution

NothingOrFour == {0, 4}
IdleOrSome == {0, 1, 6}
=============================================================================
