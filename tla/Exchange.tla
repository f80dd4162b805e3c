------------------------------ MODULE Exchange -----------------------------
(***************************************************************************)
(* The datagrams of a sender and a receiver from the words that one writes *)
(* to the handlers that the other calls: packets, the sender reports about *)
(* the stream and its N subflows, and the receiver reports that answer     *)
(* them.  Reports are lost, delayed, duplicated and reordered at will: one *)
(* once sent stays, and may be delivered at any time, many times or never. *)
(* Other implementations are on the net too, whose packets have contents   *)
(* that this library does not write but does read or pass over.  There is  *)
(* one packet under way at a time, and which interfaces and addresses are  *)
(* used makes no difference: order and addresses are in Reporting.         *)
(*                                                                         *)
(* The two hosts' clocks run at one rate and differ by Skew.               *)
(***************************************************************************)
EXTENDS Source, Packets, RtpTime, FiniteSets, Functions

CONSTANTS
  N,            \* number of subflows
  Start, Skew,  \* the sender's clock at first; the receiver's less that
  Payloads,     \* sizes of payloads
  Foreign,      \* packets others send, as [pkt, rtp, payload, subflow]:
                \* whether they are RTP packets, with payloads of which size,
                \* on which subflow and with which number there
  MaxSends,     \* bound: packets
  MaxReports,   \* bound: sender reports
  MaxAnswers,   \* bound: receiver reports
  MaxTime       \* bound: ticks

ASSUME ExchangeAssumption ==
  /\ N \in Nat \ {0} /\ Start \in Nat /\ Skew \in Nat
  /\ Payloads \subseteq Nat
  /\ {MaxSends, MaxReports, MaxAnswers, MaxTime} \subseteq Nat
  /\ MaxTime < Half * Ticks   \* what dlsr can express: 18 hours in the code

Paths == 1..N
m_ssrc == 1001
receiver_ssrc == 1002

VARIABLES
  clock,      \* the sender's rtp_time::now()
  sf,         \* packets and octets sent on each subflow
  packets,    \* the packet under way, with what was put into it
  srs,        \* sender reports: the words, what was put into them and when
  src,        \* the receiver's source
  last_sr,    \* its m_last_sender_report: stamp and time of receipt
  rrs,        \* receiver reports, likewise, and the time spent on the net
              \* by the sender report they answer
  trip        \* history: the last round trip, as measured and as it was

sender == <<sf, srs>>
receiver == <<src, last_sr, rrs>>
vars == <<clock, sender, packets, receiver, trip>>

NoSR == [ntp |-> GetNtpTime(0), recv_time |-> 0, sent |-> 0]

Init ==
  /\ clock = Start
  /\ sf = [p \in Paths |-> [packets |-> 0, octets |-> 0]]
  /\ packets \in {{}} \cup {{packet} : packet \in Foreign}
  /\ srs = {} /\ rrs = {}
  /\ src = NewSource /\ last_sr = NoSR
  /\ trip = [measured |-> 0, real |-> 0]

Tick ==
  /\ clock < Start + MaxTime
  /\ clock' = clock + 1
  /\ UNCHANGED <<sender, packets, receiver, trip>>

Total(part) ==
  FoldFunction(LAMBDA a, b : a + b, 0, [p \in Paths |-> sf[p][part]])

-----------------------------------------------------------------------------
(* send_data on path p.  Numbers are counted from zero. *)
SendData(p, payload) ==
  /\ Total("packets") < MaxSends /\ packets = {}
  /\ LET sfseq == sf[p].packets % SeqMod
     IN  packets' = {[pkt |-> DataPacket(Total("packets") % SeqMod, p, sfseq, payload),
                      rtp |-> TRUE, payload |-> payload,
                      subflow |-> [id |-> p, sfseq |-> sfseq]]}
  /\ sf' = [sf EXCEPT ![p] = [packets |-> @.packets + 1, octets |-> @.octets + payload]]
  /\ UNCHANGED <<clock, srs, receiver, trip>>

(* on_rtp_packet of the receiver, where session::process_rtp_packet lets a *)
(* packet through to it.  Other senders are other sources.                 *)
OnRTP(packet) ==
  LET pkt == packet.pkt
      on == SubflowRead(pkt)
  IN
  /\ packets' = packets \ {packet}
  /\ src' = IF Accepted(pkt) /\ packet \notin Foreign
            THEN ProcessRTP(src, [seq |-> pkt.seq, id |-> on.id, sfseq |-> on.sfseq], RTP(1), 1)
            ELSE src
  /\ UNCHANGED <<clock, sender, last_sr, rrs, trip>>

-----------------------------------------------------------------------------
(* A packet of another type inside a compound, and a block of another type *)
(* inside an MPRTP packet.                                                 *)
Description == << <<SDES, 1, 2>>, Value(m_ssrc), Value(SR) >>
Advertisement == << <<1, 2, 0>>, Value(RR) >>

(* The compound of a report about the stream and of blocks about subflows; *)
(* plain as this library makes it, or with things in between.              *)
Compound(plain, report, ssrc, ssrc1, blocks) ==
  IF plain THEN report \o Mprtp(ssrc, ssrc1, blocks)
  ELSE report \o Description
              \o Mprtp(ssrc, ssrc1, <<Advertisement>> \o blocks) \o Description

Handed(id, ssrc, report) == [id |-> id, ssrc |-> ssrc, report |-> report]

(* send_sender_report.  The timestamp follows the clock. *)
SendReport(plain) ==
  LET About(pc, oc) == [ntp |-> GetNtpTime(clock), timestamp |-> clock,
                        packets |-> pc, octets |-> oc]
      stream == About(Total("packets"), Total("octets"))
      each == [q \in Paths |-> About(sf[q].packets, sf[q].octets)]
  IN
  /\ Total("packets") > 0 /\ Cardinality(srs) < MaxReports
  /\ srs' = srs \cup
       {[words |-> Compound(plain, SenderReport(m_ssrc, stream), m_ssrc, m_ssrc,
                     [q \in Paths |-> Block(q, SenderReport(m_ssrc, each[q]))]),
         sent |-> clock,
         made |-> <<Handed(0, m_ssrc, stream)>>
                    \o [q \in Paths |-> Handed(q, m_ssrc, each[q])]]}
  /\ UNCHANGED <<clock, sf, packets, receiver, trip>>

OfSubflows(handed) == SelectSeq(handed, LAMBDA r : r.id # 0)
OfSession(handed) == SelectSeq(handed, LAMBDA r : r.id = 0)

(* on_rtcp_sr_packet of the receiver for the reports the session hands it. *)
OnSR(m) ==
  LET handed == HandOver(m.words)
      ids == [i \in DOMAIN OfSubflows(handed) |-> OfSubflows(handed)[i].id]
  IN
  /\ OfSession(handed) # <<>>
  /\ last_sr' = [ntp |-> Head(OfSession(handed)).report.ntp,
                 recv_time |-> clock + Skew, sent |-> m.sent]
  /\ src' = ProcessSR(src, ids, RTCP(1), 1)
  /\ UNCHANGED <<clock, sender, packets, rrs, trip>>

-----------------------------------------------------------------------------
(* A faulty variant: the delay since the report was sent, by two clocks. *)
DelaySinceSent(now) ==
  (Inner(GetNtpTime(now)) - Inner(last_sr.ntp)) % NtpWord

(* The delay since the last sender report, by the receiver's clock. *)
Delay(now) == InnerDelay(now - last_sr.recv_time)

(* fill_receiver_report with the counters r.  The jitter is left out.      *)
Filled(r) ==
  [ssrc |-> m_ssrc, fractionlost |-> r.fractionlost, packetslost |-> r.packetslost,
   exthighseqnr |-> r.exthighseqnr, jitter |-> 0,
   lsr |-> IF last_sr = NoSR THEN 0 ELSE Inner(last_sr.ntp),
   dlsr |-> IF last_sr = NoSR THEN 0 ELSE Delay(clock + Skew)]

(* poll: the answer with counters of the stream and of each subflow.       *)
Poll(plain, stream, each) ==
  /\ src.send_rr /\ Cardinality(rrs) < MaxAnswers
  /\ src' = Answered(src)
  /\ LET Id(i) == src.subflows[i].id
         blocks == [i \in DOMAIN each |->
           Block(Id(i), ReceiverReport(receiver_ssrc, Filled(each[i])))]
     IN  rrs' = rrs \cup
           {[words |-> Compound(plain, ReceiverReport(receiver_ssrc, Filled(stream)),
                                receiver_ssrc, m_ssrc, blocks),
             outward |-> last_sr.recv_time - Skew - last_sr.sent, sent |-> clock,
             made |-> <<Handed(0, receiver_ssrc, Filled(stream))>>
                        \o [i \in DOMAIN each |->
                              Handed(Id(i), receiver_ssrc, Filled(each[i]))]]}
  /\ UNCHANGED <<clock, sender, packets, last_sr, trip>>

(* on_rtcp_rr_packet of the sender.  What it does with the counters is in  *)
(* Subflow; the round trip is what the timestamps are there for.           *)
OnRR(m) ==
  LET rr == Head(OfSession(HandOver(m.words))).report IN
  /\ trip' = [measured |-> (Inner(GetNtpTime(clock)) - rr.lsr - rr.dlsr) % NtpWord,
              real |-> m.outward + (clock - m.sent)]
  /\ UNCHANGED <<clock, sender, packets, receiver>>

Next ==
  \/ Tick
  \/ \E p \in Paths, payload \in Payloads : SendData(p, payload)
  \/ \E packet \in packets : OnRTP(packet)
  \/ \E plain \in BOOLEAN : SendReport(plain)
  \/ \E m \in srs : OnSR(m)
  \/ \E plain \in BOOLEAN, stream \in ReceiverReports(src.stat),
        each \in {f \in [DOMAIN src.subflows ->
                           UNION {ReceiverReports(src.subflows[i].recv_stat) :
                                    i \in DOMAIN src.subflows}] :
                    \A i \in DOMAIN f :
                      f[i] \in ReceiverReports(src.subflows[i].recv_stat)} :
        Poll(plain, stream, each)
  \/ \E m \in rrs : OnRR(m)

Spec == Init /\ [][Next]_vars
-----------------------------------------------------------------------------
(* The application is given exactly the payload that was sent, and the     *)
(* statistics the subflow it was sent on and its number there, none for a  *)
(* packet that was sent on no subflow, whatever contributing sources,      *)
(* extensions and padding a packet has; and nothing but RTP packets.       *)
PayloadComesThrough ==
  \A packet \in packets :
    IF packet.rtp THEN /\ Accepted(packet.pkt)
                       /\ PayloadLength(packet.pkt) = packet.payload
                       /\ SubflowRead(packet.pkt) = packet.subflow
                  ELSE ~Accepted(packet.pkt)

(* Every report, written by one of two pieces of code that each count the  *)
(* lengths of headers and blocks in their own way, is handed over once, in *)
(* order, for the subflow it is about, and nothing besides: also when      *)
(* there are packets and blocks of other types in between.                 *)
ReportsComeThrough == \A m \in srs \cup rrs : HandOver(m.words) = m.made

(* What the two timestamps of a report are for: time of arrival less lsr   *)
(* less dlsr is the time that the two reports have spent on the net, to    *)
(* within the units it is measured in, whatever the clocks say and however *)
(* long the receiver waited, also when a report is answered late or after  *)
(* a newer one, and when the seconds wrap around.                          *)
RoundTripMeasured ==
  \E error \in -1..2 :
    trip.measured = (InnerDelay(trip.real) + error) % NtpWord
=============================================================================
