---------------------------- MODULE StatsStream ----------------------------
(***************************************************************************)
(* One stream of numbered packets between the subflow that numbers them    *)
(* and the source_stats that counts them.  The network in between loses,   *)
(* duplicates and reorders packets, and the receiver fills a report at     *)
(* moments of its own.                                                     *)
(*                                                                         *)
(* Packet n is the n-th number the sender drew, counted without wrap; on   *)
(* the wire it carries only n % SeqMod.  The history variables remember    *)
(* the unwrapped numbers, which neither side of the code ever sees, so     *)
(* that the properties can compare what the receiver computed from 16 bits *)
(* with what really happened.                                              *)
(***************************************************************************)
EXTENDS SourceStats, FiniteSets

CONSTANTS
  AcrossWrap,    \* may the network deliver a packet of an earlier cycle?
  MaxSends,      \* bound: packet numbers are below MaxSends
  MaxInFlight,   \* bound: packets in the network
  MaxReceived    \* bound: packets the receiver processes

ASSUME BoundsAssumption ==
  /\ AcrossWrap \in BOOLEAN
  /\ MaxSends \in Nat /\ MaxInFlight \in Nat /\ MaxReceived \in Nat

VARIABLES
  next,     \* the number the next packet gets, unwrapped
  net,      \* packets in flight
  st,       \* the receiver's source_stats
  report,   \* the last report block filled
  given,    \* history: the last packet processed and its extended number
  first,    \* history: the first packet received
  high,     \* history: the highest packet received
  mark,     \* history: high when the last report was filled
  arrived   \* history: the packets received since then

history == <<given, first, high, mark, arrived>>
vars == <<next, net, st, report, history>>

NoReport == [fractionlost |-> 0, packetslost |-> 0, exthighseqnr |-> 0]

(* A subflow draws its first number as rand() % 0xFFFF. *)
FirstNumbers == 0..(SeqMod - 2)

Init ==
  /\ next \in FirstNumbers
  /\ net = {}
  /\ st = NewStats
  /\ report = NoReport
  /\ given = [packet |-> 0, ext |-> 0]
  /\ first = 0 /\ high = 0 /\ mark = 0
  /\ arrived = {}

(* Sending uses up a number whether or not the socket takes the packet. *)
Send(accepted) ==
  /\ next < MaxSends
  /\ Cardinality(net) < MaxInFlight
  /\ next' = next + 1
  /\ net' = IF accepted THEN net \cup {next} ELSE net
  /\ UNCHANGED <<st, report, history>>

Lose(n) ==
  /\ n \in net
  /\ net' = net \ {n}
  /\ UNCHANGED <<next, st, report, history>>

(* How far a delivered packet may lie from the highest one received so     *)
(* far: less than half a cycle ahead; half a cycle behind, and then of the *)
(* same cycle unless AcrossWrap.  An interval spans less than a word.      *)
Near(n) ==
  /\ n >= high => 2 * (n - high) < SeqMod
  /\ n < high  => /\ 2 * (high - n) <= SeqMod
                  /\ AcrossWrap \/ n - (n % SeqMod) = high - (high % SeqMod)
  /\ n - mark < WordMod

(* The receiver processes packet n; the network may keep a copy. *)
Deliver(n, keep) ==
  /\ n \in net
  /\ st.received_data => Near(n)
  /\ st.packets_received < MaxReceived
  /\ net' = IF keep THEN net ELSE net \ {n}
  /\ st' = ProcessPacket(st, n % SeqMod)
  /\ given' = [packet |-> n, ext |-> AssignedSeq(st, n % SeqMod)]
  /\ first' = IF st.received_data THEN first ELSE n
  /\ high' = IF st.received_data /\ high > n THEN high ELSE n
  /\ mark' = IF st.received_data THEN mark ELSE n - 1
  /\ arrived' = arrived \cup {n}
  /\ UNCHANGED <<next, report>>

FillReport ==
  /\ report' \in ReceiverReports(st)
  /\ st' = StartNewInterval(st)
  /\ mark' = high
  /\ arrived' = {}
  /\ UNCHANGED <<next, net, given, first, high>>

Next ==
  \/ \E accepted \in BOOLEAN : Send(accepted)
  \/ \E n \in net : Lose(n)
  \/ \E n \in net, keep \in BOOLEAN : Deliver(n, keep)
  \/ FillReport

Spec == Init /\ [][Next]_vars

-----------------------------------------------------------------------------
(* Every variable keeps the shape its declaration in the code gives it. *)
TypeOK ==
  /\ next \in Nat /\ net \in SUBSET Nat
  /\ st \in StatsType
  /\ report \in [fractionlost : 0..255, packetslost : 0..(LostMod - 1),
                 exthighseqnr : Word]
  /\ given \in [packet : Nat, ext : Word]
  /\ first \in Nat /\ high \in Nat /\ mark \in Int
  /\ arrived \in SUBSET Nat /\ IsFiniteSet(arrived)

(* The number of 32 bits that packet n has when first got its own: number  *)
(* 0 starts in the second cycle, every other one in the first.             *)
Origin == IF first % SeqMod = 0 THEN first - SeqMod ELSE first - (first % SeqMod)

(* What the receiver's 16 and 32-bit fields mean, in unwrapped numbers     *)
(* counted from Origin: the inductive invariant behind the properties.     *)
Tracking ==
  st.received_data =>
    /\ st.exthighseqnr = (high - Origin) % WordMod
    /\ st.num_cycles = (high - (high % SeqMod) - Origin) % WordMod
    /\ st.baseseqnr = (first - 1 - Origin) % WordMod
    /\ st.saved_ext_seqnr = (mark - Origin) % WordMod
    /\ given.ext = (given.packet - Origin) % WordMod
    /\ mark <= high /\ high - mark < WordMod

(* Before the first packet no cycle is counted, and in every interval at   *)
(* least the different packets that arrived are.                           *)
Counting ==
  /\ ~st.received_data => st.num_cycles = 0
  /\ Cardinality(arrived) <= st.num_new_packets

(* Extended numbers lie as far apart as the packets they were given to:    *)
(* the base, the highest number and the number of the packet processed     *)
(* last, all computed by process_packet from 16-bit numbers, are at their  *)
(* true distance from the first packet, whatever was lost, duplicated or   *)
(* overtaken in between, as long as nothing late crosses a wrap-around.    *)
DistancesPreserved ==
  st.received_data =>
    /\ ExpectedTotal(st) = (high - first + 1) % WordMod
    /\ Minus32(given.ext, st.baseseqnr) = (given.packet - first + 1) % WordMod

(* A report counts as expected exactly the numbers sent between the        *)
(* highest one of the last report and the highest one now.                 *)
IntervalIsExact ==
  st.received_data => ExpectedInInterval(st) = high - mark

(* Whenever numbers are missing in an interval at least one packet has     *)
(* arrived in it, so that frac * 256.0 is below 256 and its conversion to  *)
(* uint8_t is defined.  This holds however the network reorders.           *)
FractionBelowOne ==
  ExpectedInInterval(st) > 0 => st.num_new_packets > 0

(* A report that claims a loss is right: some number it spans has not      *)
(* arrived since the report before it.  (An interval in which the highest  *)
(* number did not move is left out: there the code divides zero by zero.)  *)
NoPhantomLoss ==
  [][ FillReport /\ st.received_data /\ mark < high /\ report'.fractionlost > 0
        => \E n \in (mark + 1)..high : n \notin arrived ]_vars

(* When late packets do cross a wrap-around, process_packet takes them for *)
(* packets a cycle ahead.  The highest number then runs ahead of the       *)
(* stream, yet it never falls behind it: losses may be over-reported, but  *)
(* the sequence space already seen is never reported as not yet seen.      *)
(* (Read where the extended numbers themselves have not wrapped.)          *)
NeverBehind ==
  st.received_data => ExpectedTotal(st) >= high - first + 1
=============================================================================
