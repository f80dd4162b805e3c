---------------------------- MODULE PathFeedback ---------------------------
(***************************************************************************)
(* The life of one subflow at the sender: packets go out, time passes, and *)
(* receiver reports come in.  Reports carry any loss and any highest       *)
(* number, as they do when the network loses, repeats or reorders them, so *)
(* the properties rest on nothing the peer or the network does.  A report  *)
(* has the highest number in a word; the network knows it unwrapped.  The  *)
(* history variables say what the network did, so that what the sender     *)
(* makes of the words can be compared with it.                             *)
(***************************************************************************)
EXTENDS Subflow

CONSTANTS
  Fractions,   \* the lost fractions, in 1/256ths, that reports carry
  Highest,     \* the unwrapped highest numbers of reports; 0 is that of a
               \* receiver that nothing has reached yet
  Payloads,    \* the payload sizes of the packets sent
  MaxClock,    \* bound: time
  MaxUnreported  \* bound: packets sent between two reports

ASSUME PathAssumption ==
  /\ Fractions \subseteq 0..255
  /\ Highest \subseteq Nat
  /\ Payloads \subseteq Nat
  /\ MaxClock \in Nat /\ MaxUnreported \in Nat

VARIABLES
  sf,        \* the subflow
  clock,     \* rtp_time::now()
  last,      \* history: the unwrapped number of the last report, 0 if none
  lastTime,  \* history: when that report was received
  seen,      \* history: the highest number in any report so far
  lossTime,  \* history: when a loss was last measured
  lossCI,    \* history: the congestion indicator right after that
  misled,    \* history: a misleading report has been measured since then
  peak       \* history: the highest rate that reports have told since then

numbers == <<last, lastTime, seen>>
losses  == <<lossTime, lossCI, misled, peak>>
history == <<numbers, losses>>
vars == <<sf, clock, history>>

Init ==
  /\ sf = NewSubflow(0)
  /\ clock = 0
  /\ last = 0 /\ lastTime = 0 /\ seen = 0
  /\ lossTime = 0 /\ lossCI = 0 /\ misled = FALSE /\ peak = 0

Tick ==
  /\ clock < MaxClock
  /\ clock' = clock + 1
  /\ UNCHANGED <<sf, history>>

Send(payload, accepted) ==
  /\ sf.packet_count_tt < MaxUnreported
  /\ sf' = SendTo(sf, payload, accepted)
  /\ UNCHANGED <<clock, history>>

(* A report with the number high says nothing about the path if it, or the *)
(* report before it, was overtaken by another one, or if that one came     *)
(* before the path's first number, which is a random one.                  *)
Misleading(high) == last = 0 \/ last # seen \/ high < seen

(* What any other report tells of the path: the numbers gone by since the  *)
(* last report, less the fraction lost, at the average payload sent.       *)
Told(rr, high) ==
  ((high - last) * (256 - rr.fractionlost) * sf.octet_count_tt)
  \div (sf.packet_count_tt * (clock - lastTime))

(* No two reports are received in the same unit of time, and the numbers   *)
(* do not go all the way round between two of them.                        *)
Receive(rr, high) ==
  /\ rr.exthighseqnr = high % WordMod
  /\ high < seen + WordMod
  /\ sf.reported => sf.last_time < clock
  /\ sf' = ProcessRR(sf, rr, clock)
  /\ last' = high /\ lastTime' = clock
  /\ seen' = IF high > seen THEN high ELSE seen
  /\ UNCHANGED clock
  /\ IF ~Measures(sf) THEN UNCHANGED losses
     ELSE IF rr.fractionlost > 0
     THEN /\ lossTime' = clock /\ lossCI' = sf'.congestion_indicator
          /\ misled' = Misleading(high)
          /\ peak' = IF Misleading(high) THEN 0 ELSE Told(rr, high)
     ELSE /\ UNCHANGED <<lossTime, lossCI>>
          /\ misled' = (misled \/ Misleading(high))
          /\ peak' = IF Misleading(high) \/ Told(rr, high) <= peak
                     THEN peak ELSE Told(rr, high)

Reports == [fractionlost : Fractions, exthighseqnr : Word]

Next ==
  \/ Tick
  \/ \E payload \in Payloads, accepted \in BOOLEAN : Send(payload, accepted)
  \/ \E rr \in Reports, high \in Highest : Receive(rr, high)

Spec == Init /\ [][Next]_vars

-----------------------------------------------------------------------------
(* Every field has its declared type, and the indicator stays within       *)
(* 0..CIMAX.                                                               *)
TypeOK ==
  /\ sf \in SubflowType
  /\ clock \in Nat /\ last \in Nat /\ lastTime \in Nat /\ seen \in Nat
  /\ lossTime \in Nat /\ lossCI \in 0..CIMAX
  /\ misled \in BOOLEAN /\ peak \in Nat

(* recalc_subflow_percentage reads the tested bitrate of every path that   *)
(* is ready, and the congested bitrate of every path whose indicator is    *)
(* not zero: neither is read before a measurement has set it.  (So the     *)
(* branch of process_rr_packet that initialises the congested bitrate on a *)
(* clean report is never taken.)                                           *)
RatesSetBeforeUse ==
  /\ sf.ready => sf.TB_initialized
  /\ sf.congestion_indicator > 0 => sf.ready /\ sf.CB_initialized

(* While a path is lossy or congested its two bitrates are one and the     *)
(* same number: a loss sets both, and every clean report after it treats   *)
(* both alike until the indicator is back at zero.                         *)
OneRateUnderLoss == sf.congestion_indicator > 0 => sf.TB = sf.CB

(* Reports that come in the order in which they were sent never credit the *)
(* path with more than the best of them has told: its tested and, while it *)
(* counts, its congested bitrate stay within it, although the numbers      *)
(* wrap, reports get lost or are repeated, and a report may find nothing   *)
(* to measure.  Whatever a misleading report has made of the bitrates is   *)
(* gone with the next loss that is not misleading itself.                  *)
RatesWithinPeak ==
  ~misled => /\ sf.TB <= peak
             /\ sf.congestion_indicator > 0 => sf.CB <= peak

(* The way down is slow.  To come from level lossCI to its present level   *)
(* the indicator has waited TO per level at each level it left, so that a  *)
(* congested path is trusted again only CIMAX * (CIMAX + 1) / 2 * TO after *)
(* its last loss, however many clean reports come in.                      *)
DecayTakesItsTime ==
  /\ sf.congestion_indicator <= lossCI
  /\ 2 * (sf.congestion_time - lossTime) >=
       TO * (lossCI * (lossCI + 1)
             - sf.congestion_indicator * (sf.congestion_indicator + 1))

(* The subflow implements PathTrust: whatever is sent and reported, trust  *)
(* is lost one level at a time, with a measured loss, and regained one     *)
(* level at a time, each after the whole pause since the change before it. *)
Trust == INSTANCE PathTrust WITH level <- sf.congestion_indicator,
                                 since <- clock - sf.congestion_time
ImplementsTrust == Trust!Spec
=============================================================================
