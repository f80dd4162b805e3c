---------------------------- MODULE Distribution ---------------------------
(***************************************************************************)
(* A connected sender at work on N subflows.  send_data draws a subflow    *)
(* for every packet; receiver reports, of any loss and any bitrate, come   *)
(* in for any subflow; when one has come in, poll computes the shares anew *)
(* with whatever bitrate it last measured of the stream.                   *)
(*                                                                         *)
(* Of a subflow only what the shares depend on is kept up: the rates, the  *)
(* congestion indicator, whether it is ready, whether a report came before *)
(* and (as 0 or 1) whether packets were sent since.  How long the          *)
(* indicator has waited is any time, chosen as the report comes in.        *)
(***************************************************************************)
EXTENDS Shares

CONSTANTS
  N,         \* number of subflows
  Bitrates,  \* instantaneous bitrates of a path
  SBs        \* bitrates of the stream, zero after a second without packets

ASSUME DistributionAssumption ==
  /\ N \in Nat \ {0}
  /\ Bitrates \subseteq Nat
  /\ SBs \subseteq Nat /\ 0 \in SBs

Paths == 1..N

VARIABLES
  sfs,         \* m_subflows
  percentage,  \* the share of each
  recalc       \* m_recalc_distribution

vars == <<sfs, percentage, recalc>>

Init ==
  /\ sfs = [i \in Paths |-> NewSubflow(0)]
  /\ percentage = [i \in Paths |-> Half]
  /\ recalc = FALSE

(* send_data, with any draw; never in the middle of poll.                  *)
SendData(k) ==
  /\ ~recalc
  /\ sfs' = [sfs EXCEPT ![Select(percentage, k)].packet_count_tt = 1]
  /\ UNCHANGED <<percentage, recalc>>

(* process_rr_packet for a report of loss or none, at which the path shows *)
(* bitrate b and the indicator has waited long enough or not.              *)
Reported(sf, loss, b, aged) ==
  LET now == IF aged THEN CIMAX * TO + 1 ELSE 0
      s == IF loss THEN LossReport(sf, b, now) ELSE CleanReport(sf, b, now)
      m == IF Measures(sf) THEN [s EXCEPT !.ready = TRUE] ELSE sf
  IN  [m EXCEPT !.packet_count_tt = 0, !.reported = TRUE,
                !.congestion_time = 0]

(* on_rtcp_rr_packet for a report about subflow i: session::poll calls it  *)
(* any number of times before the rest of poll.                            *)
OnRR(i, loss, b, aged) ==
  /\ sfs' = [sfs EXCEPT ![i] = Reported(@, loss, b, aged)]
  /\ recalc' = TRUE
  /\ UNCHANGED percentage

(* The rest of poll, for the bitrate SB that the stream had in the last    *)
(* second: the shares, if a report has come in.                            *)
Poll(SB) ==
  /\ recalc
  /\ percentage' = Recalculated(sfs, percentage, SB)
  /\ recalc' = FALSE
  /\ UNCHANGED sfs

Next ==
  \/ \E k \in Draws : SendData(k)
  \/ \E i \in Paths, loss \in BOOLEAN, b \in Bitrates, aged \in BOOLEAN :
       OnRR(i, loss, b, aged)
  \/ \E SB \in SBs : Poll(SB)

Spec == Init /\ [][Next]_vars

-----------------------------------------------------------------------------
(* The shares answer to every report that poll has seen. *)
UpToDate == ~recalc /\ AllReady(sfs)

Total == TotalOf(percentage)
Clean == CleanOnes(sfs)

(* A share is a number: not negative, not infinite and at most one, or NaN *)
(* for want of any measured rate.                                          *)
TypeOK ==
  /\ \A i \in Paths : sfs[i] \in SubflowType
  /\ \A i \in Paths :
       \/ percentage[i] = NaN
       \/ ~Less(percentage[i], Zero) /\ ~Less(One, percentage[i])
  /\ recalc \in BOOLEAN

(* The packets are divided completely, so that none falls to the front     *)
(* subflow only because nobody else wants it, as soon as one path without  *)
(* loss has a tested rate; and never more than completely unless clean     *)
(* paths without a tested rate have kept old shares.                       *)
SharesAddUp ==
  UpToDate =>
    /\ (\E i \in Clean : sfs[i].TB > 0) => Total = One
    /\ Clean = {} => ~Less(One, Total)

(* Loss never pays: a path that is lossy or congested gets at most the     *)
(* share its tested rate is worth among the tested rates of all, and a     *)
(* path that is neither, and that has a tested rate, at least that.        *)
LossNeverPays ==
  UpToDate =>
    \A i \in Paths :
      LET worth == Ratio(sfs[i].TB, TBSum(sfs, Paths))
      IN  /\ i \notin Clean => ~Less(worth, percentage[i])
          /\ i \in Clean /\ sfs[i].TB > 0 => ~Less(percentage[i], worth)

(* The draws follow the shares, as long as these add up.  A subflow whose  *)
(* share is zero is left alone: every draw but the last one meets one that *)
(* has a share.  (The last one, exactly one, exceeds no sum of shares and  *)
(* always falls to the front subflow, though its share may be zero.)  And  *)
(* whoever has a share of at least a step of the draw is met by one.  (A   *)
(* smaller share may fall between two draws.)                              *)
DrawsFollowShares ==
  Total = One =>
    LET drawn == {Select(percentage, k) : k \in 0..(Grain - 1)}
    IN  \A i \in Paths :
          /\ percentage[i] = Zero => i \notin drawn
          /\ ~Less(percentage[i], <<1, Grain>>) => i \in drawn

(* Until every path has been measured every path can be drawn, or it never *)
(* would be, and no shares would ever be computed.  (So with at most three *)
(* subflows: the third is drawn when the draw is exactly one, and a fourth *)
(* one never.)                                                             *)
AllDrawnUntilReady == ~AllReady(sfs) => Selectable(percentage) = Paths

(* Loss costs a path packets but never all of its share: once every path   *)
(* is measured, one that has ever shown a rate has a share above zero.  If *)
(* it is the front path some draw meets it, so it stays in use.  Any other *)
(* path does as long as its share is at least a step of the draw and the   *)
(* shares are no more than the whole.  (A smaller share may fall between   *)
(* two draws, and then nothing more is sent or measured on the path.)      *)
RatedPathsKeepShares ==
  UpToDate =>
    \A i \in Paths :
      sfs[i].TB > 0 =>
        /\ Less(Zero, percentage[i])
        /\ \/ i = 1
           \/ Total # NaN /\ ~Less(One, Total) /\ ~Less(percentage[i], <<1, Grain>>)
           => i \in Selectable(percentage)

(* As long as no path is congested, the shares follow the tested rates:    *)
(* the stepwise approach is for some paths congested and others not.       *)
StepwiseOnlyUnderCongestion ==
  UpToDate /\ CongestedOnes(sfs) = {} /\ TBSum(sfs, Paths) > 0
    => percentage = ByTestedRate(sfs)
=============================================================================
