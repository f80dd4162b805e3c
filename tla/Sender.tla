------------------------------- MODULE Sender ------------------------------
(***************************************************************************)
(* sender: the totals, timestamps and timers of a sender.  connect makes a *)
(* subflow for every valid path; send_data numbers, stamps and sends a     *)
(* packet on one of them; poll sends a report when one is due and measures *)
(* the stream's bitrate.  Which subflow carries a packet, and the shares   *)
(* that decide it, are in Distribution; here it is any subflow, and the    *)
(* socket takes the packet or not.                                         *)
(*                                                                         *)
(* Time is counted in ticks, zero being what rtp_time::is_zero tests for.  *)
(* It does not advance within one call.                                    *)
(***************************************************************************)
EXTENDS Subflow, Sequences, Functions

CONSTANTS
  Second,        \* ticks in a second
  ReportEvery,   \* seconds between sender reports: 5 in the code
  TsUnit,        \* m_timestamp_unit: ticks in a unit of the timestamps
  FirstStamps,   \* first timestamps: any, for a stream that has lasted long
  Payloads,      \* payload sizes of the packets sent
  HeaderSize,    \* octets of a packet besides its payload
  ReportSize,    \* octets of a sender report
  MaxPaths,      \* bound: subflows
  MaxSends,      \* bound: packets handed to send_data
  MaxClock       \* bound: time

ASSUME SenderAssumption ==
  /\ Second \in Nat \ {0} /\ ReportEvery \in Nat \ {0}
  /\ TsUnit \in Nat \ {0} /\ FirstStamps \subseteq Word
  /\ Payloads \subseteq Nat /\ HeaderSize \in Nat /\ ReportSize \in Nat
  /\ MaxPaths \in Nat /\ MaxSends \in Nat /\ MaxClock \in Nat

VARIABLES
  sfs,       \* m_subflows
  snd,       \* the other members of the sender
  clock,     \* rtp_time::now()
  calls,     \* history: packets handed to send_data
  taken,     \* history: has a socket taken any packet?
  origin,    \* history: when the last random timestamp was drawn, and which
  steps      \* history: timestamps computed from it since

history == <<calls, taken, origin, steps>>
vars == <<sfs, snd, clock, history>>

SenderType ==
  [sequence_number  : Seq16,
   timestamp        : Word,
   packet_count     : Word,  octet_count : Word,
   last_packet_time : Nat,   last_sender_report_time : Nat,
   sb_size          : Word,  sb_time     : Nat,
   stream_bitrate   : Word \X (Nat \ {0})]   \* octets, over so many ticks

(* The constructor, and the call of now() in it.  First numbers are random *)
(* in the code; which they are makes no difference here.                   *)
Init ==
  /\ sfs = <<>>
  /\ snd = [sequence_number |-> 0, timestamp |-> 0,
            packet_count |-> 0, octet_count |-> 0,
            last_packet_time |-> 0, last_sender_report_time |-> 0,
            sb_size |-> 0, sb_time |-> 0,
            stream_bitrate |-> <<1, Second>>]
  /\ clock = 1
  /\ calls = 0 /\ taken = FALSE
  /\ origin = [time |-> 0, stamp |-> 0] /\ steps = 0

Tick ==
  /\ clock < MaxClock
  /\ clock' = clock + 1
  /\ UNCHANGED <<sfs, snd, history>>

(* connect, which finds that many valid paths.  Subflows of an earlier     *)
(* connect stay.                                                           *)
Connect(paths) ==
  /\ Len(sfs) + paths <= MaxPaths
  /\ sfs' = sfs \o [i \in 1..paths |-> NewSubflow(0)]
  /\ UNCHANGED <<snd, clock, history>>
-----------------------------------------------------------------------------
(* Time in units of the timestamps, rounded: (uint32_t) (x + 0.5). *)
Units(ticks) == (2 * ticks + TsUnit) \div (2 * TsUnit)

(* Faulty variants: the timestamp outgrows its 32 bits, the time of the    *)
(* last packet is not moved on.                                            *)
StampedUnbounded(s, stamp) ==
  IF s.packet_count = 0
  THEN [s EXCEPT !.last_packet_time = clock, !.timestamp = stamp]
  ELSE [s EXCEPT !.last_packet_time = clock,
                 !.timestamp = @ + Units(clock - s.last_packet_time)]
StampedFromFirst(s, stamp) ==
  IF s.packet_count = 0
  THEN [s EXCEPT !.last_packet_time = clock, !.timestamp = stamp]
  ELSE [s EXCEPT !.timestamp = Plus32(@, Units(clock - s.last_packet_time))]

(* get_next_timestamp: a random one while no packet has been counted, then *)
(* the last one and the time that has passed.  After a pause of 2^32 units *)
(* or more (six days at 8000 to a second) the conversion to uint32_t is    *)
(* undefined; as built for x86-64 it drops the upper bits, as here, while  *)
(* a build that saturates would give 2^32 - 1 units.                       *)
Stamped(s, stamp) ==
  IF s.packet_count = 0
  THEN [s EXCEPT !.last_packet_time = clock, !.timestamp = stamp]
  ELSE [s EXCEPT !.last_packet_time = clock,
                 !.timestamp = Plus32(@, Units(clock - s.last_packet_time))]

StampHistory(stamp) ==
  IF snd.packet_count = 0
  THEN origin' = [time |-> clock, stamp |-> stamp] /\ steps' = 0
  ELSE UNCHANGED origin /\ steps' = steps + 1

(* update_stream_bitrate *)
Streamed(s, size) ==
  [s EXCEPT !.sb_size = Plus32(@, size),
            !.sb_time = IF @ = 0 THEN clock ELSE @]

(* A faulty variant: the stream counts packets that no socket took. *)
CountedAlways(s, payload, accepted) ==
  [s EXCEPT !.last_sender_report_time =
              IF s.packet_count = 0 THEN clock ELSE @,
            !.packet_count = Plus32(@, 1),
            !.octet_count = Plus32(@, payload)]

(* What send_data counts when the socket has taken the packet, the first   *)
(* of which starts the timer of the reports.                               *)
Accounted(s, payload, accepted) ==
  IF ~accepted THEN s
  ELSE Streamed([s EXCEPT !.last_sender_report_time =
                            IF s.packet_count = 0 THEN clock ELSE @,
                          !.packet_count = Plus32(@, 1),
                          !.octet_count = Plus32(@, payload)],
                payload + HeaderSize)

(* send_data when subflow i is selected. *)
SendData(i, payload, accepted, stamp) ==
  /\ calls < MaxSends
  /\ sfs' = [sfs EXCEPT ![i] = SendTo(@, payload, accepted)]
  /\ LET s == [Stamped(snd, stamp) EXCEPT !.sequence_number = (@ + 1) % SeqMod]
     IN  snd' = Accounted(s, payload, accepted)
  /\ StampHistory(stamp)
  /\ calls' = calls + 1
  /\ taken' = (taken \/ accepted)
  /\ UNCHANGED clock
-----------------------------------------------------------------------------
Seconds(ticks) == ticks \div Second

(* A faulty variant: a report is due only after more than its time. *)
ReportDueLate(s) ==
  /\ s.last_sender_report_time # 0
  /\ Seconds(clock) - Seconds(s.last_sender_report_time) > ReportEvery

(* Whole seconds are compared: the time since may be a second less. *)
ReportDue(s) ==
  /\ s.last_sender_report_time # 0
  /\ Seconds(clock) - Seconds(s.last_sender_report_time) >= ReportEvery

(* send_sender_report, whose octets count as streamed whether or not the   *)
(* socket has taken them.                                                  *)
Reported(s, stamp) ==
  LET t == Stamped(s, stamp)
  IN  [Streamed(t, ReportSize) EXCEPT
         !.last_sender_report_time = t.last_packet_time]

(* The stream's bitrate, averaged once at least a second is over. *)
Averaged(s) ==
  IF s.sb_time = 0 THEN [s EXCEPT !.sb_time = clock]
  ELSE IF s.sb_time + Second > clock THEN s
  ELSE [s EXCEPT !.stream_bitrate = <<s.sb_size, clock - s.sb_time>>,
                 !.sb_size = 0, !.sb_time = clock]

(* poll: session::poll and the shares are elsewhere. *)
Poll(stamp) ==
  /\ IF ReportDue(snd)
     THEN snd' = Averaged(Reported(snd, stamp)) /\ StampHistory(stamp)
     ELSE snd' = Averaged(snd) /\ UNCHANGED <<origin, steps>>
  /\ UNCHANGED <<sfs, clock, calls, taken>>

Next ==
  \/ Tick
  \/ \E paths \in 0..MaxPaths : Connect(paths)
  \/ \E i \in DOMAIN sfs, payload \in Payloads, accepted \in BOOLEAN,
        stamp \in FirstStamps : SendData(i, payload, accepted, stamp)
  \/ \E stamp \in FirstStamps : Poll(stamp)

Spec == Init /\ [][Next]_vars
-----------------------------------------------------------------------------
(* Every member keeps its type, and no time lies in the future. *)
TypeOK ==
  /\ sfs \in Seq(SubflowType)
  /\ snd \in SenderType
  /\ clock \in Nat \ {0} /\ taken \in BOOLEAN /\ steps \in Nat
  /\ origin \in [time : Nat, stamp : Word]
  /\ snd.last_packet_time <= clock /\ snd.last_sender_report_time <= clock
  /\ snd.sb_time <= clock

(* What a sender report says of the stream is what its blocks say of the   *)
(* subflows, together: packets and octets are counted for both when a      *)
(* socket has taken them, and a number is used up in both either way, also *)
(* when the counters wrap and after another connect.                       *)
TotalsAgree ==
  LET All(Part(_)) == SumFunction([i \in DOMAIN sfs |-> Part(sfs[i])])
  IN  /\ snd.packet_count = All(LAMBDA sf : sf.packet_count) % WordMod
      /\ snd.octet_count = All(LAMBDA sf : sf.octet_count) % WordMod
      /\ snd.sequence_number = All(LAMBDA sf : sf.sequence_number) % SeqMod

(* Timestamps follow the clock: since a random one was drawn they have     *)
(* advanced, some laps of the 32 bits included, by the time in between to  *)
(* within half a unit for each one computed since.  The rounding errors    *)
(* are never made up for, so that packets less than half a unit apart do   *)
(* not advance the timestamp.                                              *)
StampsFollowClock ==
  \E laps \in 0..clock :
    LET units == laps * WordMod + Minus32(snd.timestamp, origin.stamp)
        advance == 2 * TsUnit * units
        elapsed == 2 * (snd.last_packet_time - origin.time)
    IN  /\ advance - elapsed <= steps * TsUnit
        /\ elapsed - advance <= steps * TsUnit

(* Reports start with the first packet that a socket has taken, and do not *)
(* stop when the counter wraps to zero again.                              *)
ReportsStartWithPackets == snd.last_sender_report_time > 0 <=> taken

(* Reports keep their time: at the end of a poll the last one, or the      *)
(* packet that the timer started with, is less than ReportEvery seconds    *)
(* old, and it was more than one second less than that old if it has been  *)
(* replaced.                                                               *)
ReportsKeepTime ==
  [][ /\ \E stamp \in FirstStamps : Poll(stamp)
      /\ snd.last_sender_report_time > 0
      => /\ clock - snd'.last_sender_report_time < ReportEvery * Second
         /\ snd'.last_sender_report_time # snd.last_sender_report_time =>
              clock - snd.last_sender_report_time > (ReportEvery - 1) * Second
    ]_vars
=============================================================================
