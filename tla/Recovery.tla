------------------------------ MODULE Recovery -----------------------------
(***************************************************************************)
(* The feedback loop closed: shares decide how many packets a path gets,   *)
(* packets decide what is measured of it, and what is measured decides the *)
(* shares.  Does a path that stops losing packets come back?               *)
(*                                                                         *)
(* A path carries the stream's bitrate in proportion to the draws that     *)
(* select it, and less while it loses packets.  Reports come from the      *)
(* receiver that Reporting describes, over paths that keep order: they are *)
(* compound (all paths in one), and a loss shows only when a later packet  *)
(* has arrived, hence together with a rate above zero.  A report may also  *)
(* come while all packets since the last one are on their way or lost;     *)
(* then the path shows no loss and no rate.                                *)
(*                                                                         *)
(* Time is kept relative to now, as far back as matters: only the time a   *)
(* path's indicator was set is read, and that only until its pause is over.*)
(* Reports are at least a unit apart.                                      *)
(***************************************************************************)
EXTENDS Shares, FiniteSets

CONSTANTS
  N,      \* number of subflows
  Least,  \* the bitrate of a path that one draw selects
  SBs     \* bitrates of the stream, as poll measures them

(* A path that carries anything is measured with a bitrate above zero.     *)
ASSUME RecoveryAssumption ==
  /\ N \in Nat \ {0}
  /\ Least \in Nat /\ Initial(Least) > 0
  /\ SBs \subseteq Nat /\ SBs # {}

Paths == 1..N
LongAgo == -(CIMAX * TO + 1)

DrawsOf(shares) ==
  LET met == {<<k, Select(shares, k)>> : k \in Draws}
  IN  [i \in Paths |-> Cardinality({m \in met : m[2] = i})]

VARIABLES
  sfs,         \* m_subflows
  percentage,  \* the share of each
  draws,       \* how many draws select each, by these shares
  elapsed,     \* time has passed since the last report
  bad          \* the network: paths that may still lose packets

vars == <<sfs, percentage, draws, elapsed, bad>>

Init ==
  /\ sfs = [i \in Paths |-> [NewSubflow(0) EXCEPT !.congestion_time = LongAgo]]
  /\ percentage = [i \in Paths |-> Half]
  /\ draws = DrawsOf(percentage)
  /\ elapsed = FALSE
  /\ bad = Paths

-----------------------------------------------------------------------------
(* send_data when subflow i is drawn; one packet since the last report is  *)
(* as good as many. *)
SendData(i) ==
  /\ draws[i] > 0
  /\ sfs' = [sfs EXCEPT ![i].packet_count_tt = 1]
  /\ UNCHANGED <<percentage, draws, elapsed, bad>>

(* A unit of time; at least one passes between two reports.                *)
Elapse ==
  LET aging == {i \in Paths : /\ sfs[i].congestion_indicator > 0
                             /\ ~Decays(sfs[i], 0)}
  IN  /\ ~elapsed \/ aging # {}
      /\ elapsed' = TRUE
      /\ sfs' = [i \in Paths |-> IF i \in aging
                                THEN [sfs[i] EXCEPT !.congestion_time = @ - 1]
                                ELSE sfs[i]]
      /\ UNCHANGED <<percentage, draws, bad>>

(* What a report can show of a path: that all has arrived, or nothing yet, *)
(* or that next to nothing was lost, or next to everything; nothing that   *)
(* matters if no packets were sent on it since the one before.             *)
Carried(i) == draws[i] * Least
Shown(i) ==
  IF ~Measures(sfs[i]) THEN [loss : {FALSE}, b : {0}]
  ELSE [loss : {FALSE}, b : {0, Carried(i)}]
         \cup (IF i \in bad THEN [loss : {TRUE}, b : {Least, Carried(i)}] ELSE {})

(* What nobody reads of a path that is fully trusted, until a loss sets it *)
(* anew, is not kept. *)
Forgotten(sf) ==
  IF sf.congestion_indicator = 0
  THEN [sf EXCEPT !.CB = 0, !.congestion_time = LongAgo] ELSE sf

(* A faulty variant: only what was clean before is followed up.            *)
HeardIfClean(sf, shown) ==
  LET s == IF shown.loss THEN LossReport(sf, shown.b, 0)
           ELSE IF sf.congestion_indicator = 0 THEN CleanReport(sf, shown.b, 0)
           ELSE sf
      m == IF Measures(sf) THEN [s EXCEPT !.ready = TRUE] ELSE sf
  IN  Forgotten([m EXCEPT !.packet_count_tt = 0, !.reported = TRUE])

(* process_rr_packet. *)
Heard(sf, shown) ==
  LET s == IF shown.loss THEN LossReport(sf, shown.b, 0)
                         ELSE CleanReport(sf, shown.b, 0)
      m == IF Measures(sf) THEN [s EXCEPT !.ready = TRUE] ELSE sf
  IN  Forgotten([m EXCEPT !.packet_count_tt = 0, !.reported = TRUE])

(* One poll of the sender that finds a compound report, for any bitrate of *)
(* the stream.                                                             *)
Poll(shown, SB) ==
  /\ elapsed
  /\ \A i \in Paths : shown[i] \in Shown(i)
  /\ sfs' = [i \in Paths |-> Heard(sfs[i], shown[i])]
  /\ percentage' = Recalculated(sfs', percentage, SB)
  /\ draws' = DrawsOf(percentage')
  /\ elapsed' = FALSE
  /\ UNCHANGED bad

(* A path stops losing packets for good.  (One that stops for a while only *)
(* is one that may lose packets and does not.)                             *)
Heal(i) ==
  /\ i \in bad /\ bad' = bad \ {i}
  /\ UNCHANGED <<sfs, percentage, draws, elapsed>>

Next ==
  \/ \E i \in Paths : SendData(i) \/ Heal(i)
  \/ Elapse
  \/ \E shown \in [Paths -> UNION {Shown(i) : i \in Paths}], SB \in SBs :
       Poll(shown, SB)

(* Time passes and reports keep coming; the application keeps sending, and *)
(* a subflow that can be drawn over and over is drawn, as draws are random.*)
(* (That a Poll happens is stated by the one thing only a Poll does.)      *)
ReportHeard == elapsed /\ elapsed' = FALSE

Fairness ==
  /\ WF_vars(Elapse)
  /\ WF_elapsed(ReportHeard)
  /\ \A i \in Paths : SF_vars(SendData(i))

Spec == Init /\ [][Next]_vars /\ Fairness

-----------------------------------------------------------------------------
(* A path that stops losing packets is fully trusted in the end, whatever  *)
(* the others do, if it is sent packets over and over.  The front path is, *)
(* whatever happened to it: a draw of zero meets it.  Another path may     *)
(* have lost so often that its share falls between two draws; then it is   *)
(* never measured again, and that it has recovered goes unnoticed.         *)
Probed(i) == i = 1 \/ []<>(draws[i] > 0)
TrustReturns ==
  \A i \in Paths :
    (<>[](i \notin bad) /\ Probed(i)) => <>[](sfs[i].congestion_indicator = 0)

(* When all paths stop losing packets, the packets are in the end divided  *)
(* by the tested rates alone, if any path has shown one and no path that   *)
(* is not fully trusted is left without packets for good.                  *)
Watched(i) == i = 1 \/ []<>(draws[i] > 0 \/ sfs[i].congestion_indicator = 0)
SharesSettle ==
  (<>[](bad = {}) /\ (\A i \in Paths : Watched(i)) /\ <>(\E i \in Paths : sfs[i].TB > 0))
    => <>[](percentage = ByTestedRate(sfs))
=============================================================================
