----------------------------- MODULE PathTrust -----------------------------
(***************************************************************************)
(* What a subflow promises about the trust a sender puts in its path: the  *)
(* specification that PathFeedback implements.  It knows neither packets   *)
(* nor reports nor rates.  Level 0 is full trust.  A loss takes one level  *)
(* away at once, down to CIMAX; a level comes back only after a pause, the *)
(* longer the less trust there is, and each change starts the pause anew.  *)
(***************************************************************************)
EXTENDS Naturals

CONSTANTS CIMAX, TO

VARIABLES
  level,  \* levels of trust that are missing
  since   \* time since the last change

vars == <<level, since>>

Init == level = 0 /\ since = 0

Pass == since' = since + 1 /\ UNCHANGED level

Lose == level' = (IF level < CIMAX THEN level + 1 ELSE level) /\ since' = 0

Recover ==
  /\ level > 0
  /\ since > level * TO
  /\ level' = level - 1
  /\ since' = 0

Next == Pass \/ Lose \/ Recover

Spec == Init /\ [][Next]_vars
=============================================================================
