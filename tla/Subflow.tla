------------------------------ MODULE Subflow ------------------------------
(***************************************************************************)
(* subflow: what a sender keeps about one path.  It numbers and counts the *)
(* packets sent on the path and turns the receiver reports that come back  *)
(* for it into two bitrates (tested, congested) and a congestion           *)
(* indicator, from which the sender later computes the path's share.       *)
(*                                                                         *)
(* As with SourceStats, a subflow is a record and its methods operators.   *)
(* Bitrates are whole numbers of 1/256ths of a payload octet per unit of   *)
(* time, rounded down where the code keeps doubles; an interval between    *)
(* two reports is at least one unit.  The instantaneous bitrate is a local *)
(* here: the code stores it only to print it.                              *)
(***************************************************************************)
EXTENDS Words

CONSTANTS
  CIMAX,               \* the congestion indicator of a congested path
  TO,                  \* time constant of the indicator's decay
  AlphaNum, AlphaDen   \* alpha = AlphaNum / AlphaDen

ASSUME SubflowAssumption ==
  /\ CIMAX \in Nat \ {0} /\ TO \in Nat
  /\ AlphaNum \in Nat /\ AlphaDen \in Nat \ {0} /\ AlphaNum <= AlphaDen

SubflowType ==
  [sequence_number      : Seq16,
   packet_count         : Word,  octet_count    : Word,
   packet_count_tt      : Word,  octet_count_tt : Word,
   reported             : BOOLEAN,  \* m_last_receiver_report is set, to
   last_ext             : Word,     \* a report with this highest number
   last_time            : Nat,      \* received at this time
   TB                   : Nat,  TB_initialized : BOOLEAN,
   CB                   : Nat,  CB_initialized : BOOLEAN,
   congestion_indicator : 0..CIMAX,
   congestion_time      : Nat,
   ready                : BOOLEAN]

(* The constructor; the first number is rand() % 0xFFFF. *)
NewSubflow(seq) ==
  [sequence_number      |-> seq,
   packet_count         |-> 0,  octet_count    |-> 0,
   packet_count_tt      |-> 0,  octet_count_tt |-> 0,
   reported |-> FALSE, last_ext |-> 0, last_time |-> 0,
   TB |-> 0, TB_initialized |-> FALSE,
   CB |-> 0, CB_initialized |-> FALSE,
   congestion_indicator |-> 0,
   congestion_time      |-> 0,
   ready                |-> FALSE]

-----------------------------------------------------------------------------
(* sendto for an RTP packet.  The number is used up even when the socket   *)
(* does not take the whole packet; the counters only count what it took.   *)
SendTo(sf, payload, accepted) ==
  IF accepted
  THEN [sf EXCEPT !.sequence_number = (@ + 1) % SeqMod,
                  !.packet_count    = Plus32(@, 1),
                  !.octet_count     = Plus32(@, payload),
                  !.packet_count_tt = Plus32(@, 1),
                  !.octet_count_tt  = Plus32(@, payload)]
  ELSE [sf EXCEPT !.sequence_number = (@ + 1) % SeqMod]

-----------------------------------------------------------------------------
(* process_rr_packet for a report rr that says which fraction was lost and *)
(* which number is the highest, processed in the instant it is received.   *)

IsCongested(sf) == sf.congestion_indicator = CIMAX
IsLossy(sf) == sf.congestion_indicator > 0 /\ ~IsCongested(sf)

(* Only a report with another one before it, and with packets sent in      *)
(* between, says anything about the path.                                  *)
Measures(sf) == sf.reported /\ sf.packet_count_tt > 0

(* Bits that got through since the last report: the numbers it advanced    *)
(* by, the share of them that arrived, the average payload, over the time. *)
InstantRate(sf, rr, now) ==
  (Minus32(rr.exthighseqnr, sf.last_ext) * (256 - rr.fractionlost)
     * sf.octet_count_tt)
  \div (sf.packet_count_tt * (now - sf.last_time))

Initial(b) == (AlphaNum * b) \div AlphaDen

(* A faulty variant: the two weights do not add up to one. *)
SmoothOverweight(old, b) == (AlphaNum * old + AlphaDen * b) \div AlphaDen

Smooth(old, b) == (AlphaNum * old + (AlphaDen - AlphaNum) * b) \div AlphaDen

Raised(initialized, old, b) ==
  IF ~initialized THEN Initial(b)
  ELSE IF old < b THEN Smooth(old, b) ELSE old

(* A faulty variant: the pause is the same at every level.                 *)
DecaysFlat(sf, now) ==
  sf.congestion_indicator > 0 /\ sf.congestion_time + TO < now
Decays(sf, now) ==
  /\ sf.congestion_indicator > 0
  /\ sf.congestion_time + sf.congestion_indicator * TO < now

(* A faulty variant: the congested rate is not followed while it decays.   *)
CleanReportNoCB(sf, b, now) ==
  [sf EXCEPT
     !.TB = Raised(sf.TB_initialized, @, b), !.TB_initialized = TRUE,
     !.congestion_indicator = IF Decays(sf, now) THEN @ - 1 ELSE @,
     !.congestion_time = IF Decays(sf, now) THEN now ELSE @]

CleanReport(sf, b, now) ==
  [sf EXCEPT
     !.TB = Raised(sf.TB_initialized, @, b),
     !.TB_initialized = TRUE,
     !.congestion_indicator = IF Decays(sf, now) THEN @ - 1 ELSE @,
     !.congestion_time = IF Decays(sf, now) THEN now ELSE @,
     !.CB = IF sf.congestion_indicator > 0
            THEN Raised(sf.CB_initialized, @, b) ELSE @,
     !.CB_initialized = @ \/ sf.congestion_indicator > 0]

(* A faulty variant: a loss raises the indicator without a limit.          *)
LossReportUncapped(sf, b, now) ==
  [sf EXCEPT
     !.TB = Initial(b), !.TB_initialized = TRUE,
     !.CB = Initial(b), !.CB_initialized = TRUE,
     !.congestion_indicator = @ + 1,
     !.congestion_time = now]

LossReport(sf, b, now) ==
  [sf EXCEPT
     !.TB = Initial(b), !.TB_initialized = TRUE,
     !.CB = Initial(b), !.CB_initialized = TRUE,
     !.congestion_indicator = IF @ < CIMAX THEN @ + 1 ELSE @,
     !.congestion_time = now]

Measured(sf, rr, now) ==
  LET b == InstantRate(sf, rr, now)
      s == IF rr.fractionlost = 0 THEN CleanReport(sf, b, now)
                                  ELSE LossReport(sf, b, now)
  IN  [s EXCEPT !.ready = TRUE]

(* A faulty variant: only a report that measures something, or the first,  *)
(* is remembered, so that the next one measures across two intervals.      *)
ProcessRRMeasuredOnly(sf, rr, now) ==
  LET s == IF Measures(sf) THEN Measured(sf, rr, now) ELSE sf
      r == IF Measures(sf) \/ ~sf.reported THEN rr.exthighseqnr ELSE sf.last_ext
  IN  [s EXCEPT !.packet_count_tt = 0, !.octet_count_tt = 0,
                !.reported = TRUE, !.last_ext = r, !.last_time = now]

ProcessRR(sf, rr, now) ==
  LET s == IF Measures(sf) THEN Measured(sf, rr, now) ELSE sf
  IN  [s EXCEPT !.packet_count_tt = 0, !.octet_count_tt = 0,
                !.reported = TRUE,
                !.last_ext = rr.exthighseqnr, !.last_time = now]
=============================================================================
