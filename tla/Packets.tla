------------------------------ MODULE Packets ------------------------------
(***************************************************************************)
(* What the sender and the receiver write into their datagrams, and what   *)
(* the session and the packet classes read from them.                      *)
(*                                                                         *)
(* An RTCP compound is a sequence of 32-bit words, a word a triple of its  *)
(* fields: <<type, count, length>> for a common header, <<mprtcp_type,     *)
(* block_length, subflow_id>> for the header of an MPRTCP block, and       *)
(* <<v, 0, 0>> for a plain value.  Nothing in a word tells which it is, so *)
(* that a reader who has lost his place reads some other number.  An RTP   *)
(* packet is a record of its size in octets, of the fields of its fixed    *)
(* header and of the words behind it, each a pair of its halves.           *)
(***************************************************************************)
EXTENDS Integers, Sequences

LOCAL INSTANCE SequencesExt   \* its SeqMod is not the one of Words

SR == 200
RR == 201
SDES == 202
MPRTP == 211
SubflowBlock == 0   \* MPRTCP_TYPE_SUBFLOW

Value(v) == <<v, 0, 0>>

(* The word at position p; past the end, whatever memory holds there.      *)
At(words, p) == IF p <= Len(words) THEN words[p] ELSE Value(0)

-----------------------------------------------------------------------------
(* Writing.  A report is a record of what the functions below are given.   *)

(* make_sender_report *)
SenderReport(ssrc, r) ==
  << <<SR, 0, 6>>, Value(ssrc),
     Value(r.ntp.msw), Value(r.ntp.lsw), Value(r.timestamp),
     Value(r.packets), Value(r.octets) >>

(* make_rr_packet, which names the source that is reported on first in its *)
(* report block; the total and the fraction lost share a word.             *)
ReceiverReport(sender_ssrc, r) ==
  << <<RR, 1, 7>>, Value(sender_ssrc),
     Value(r.ssrc), <<r.fractionlost, r.packetslost, 0>>,
     Value(r.exthighseqnr), Value(r.jitter), Value(r.lsr), Value(r.dlsr) >>

(* A block about one subflow. *)
Block(id, report) ==
  << <<SubflowBlock, Len(report) + 1, id>> >> \o report

(* A faulty variant: the packet's length counts its header. *)
MprtpWithHeader(ssrc, ssrc1, blocks) ==
  LET body == FlattenSeq(blocks) IN
  << <<MPRTP, 0, Len(body) + 3>>, Value(ssrc), Value(ssrc1) >> \o body

(* make_subflow_sender_report and create_subflows_rr_packet around their   *)
(* blocks.  Octets, less one, in fours and words less one are the same.    *)
Mprtp(ssrc, ssrc1, blocks) ==
  LET body == FlattenSeq(blocks) IN
  << <<MPRTP, 0, Len(body) + 2>>, Value(ssrc), Value(ssrc1) >> \o body

-----------------------------------------------------------------------------
(* Reading.  What is handed to a handler is the id of the subflow, 0 for   *)
(* the session, the SSRC that sent the report, and the report.             *)

(* rtcp_sr_packet::parse, less the report blocks, which nobody asks for. *)
ReadSR(words, p, id) ==
  [id |-> id, ssrc |-> At(words, p + 1)[1],
   report |-> [ntp |-> [msw |-> At(words, p + 2)[1], lsw |-> At(words, p + 3)[1]],
               timestamp |-> At(words, p + 4)[1],
               packets |-> At(words, p + 5)[1], octets |-> At(words, p + 6)[1]]]

(* rtcp_rr_packet::parse *)
ReadRR(words, p) ==
  [ssrc |-> At(words, p)[1],
   fractionlost |-> At(words, p + 1)[1], packetslost |-> At(words, p + 1)[2],
   exthighseqnr |-> At(words, p + 2)[1], jitter |-> At(words, p + 3)[1],
   lsr |-> At(words, p + 4)[1], dlsr |-> At(words, p + 5)[1]]

(* process_sr_packet and process_rr_packet of the session, for the packet  *)
(* at p.  Of several report blocks in it, the first is handed over again   *)
(* and again.                                                              *)
HandOverReport(words, p, id) ==
  CASE At(words, p)[1] = SR -> <<ReadSR(words, p, id)>>
    [] At(words, p)[1] = RR ->
         [i \in 1..At(words, p)[2] |->
            [id |-> id, ssrc |-> At(words, p + 1)[1],
             report |-> ReadRR(words, p + 2)]]
    [] OTHER -> <<>>

(* process_mprtcp_packet for the packet at p.  A block_length of zero      *)
(* would be read for ever; here it ends the packet.                        *)
HandOverBlocks(words, p) ==
  LET end == p + At(words, p)[3] + 1
      From[q \in Nat] ==
        IF q >= end THEN <<>>
        ELSE LET block == At(words, q)
                 here == IF block[1] = SubflowBlock
                         THEN HandOverReport(words, q + 1, block[3])
                         ELSE <<>>
             IN  here \o (IF block[2] = 0 THEN <<>> ELSE From[q + block[2]])
  IN  From[p + 3]

(* process_rtcp_packet: the reports handed over, in order.  Packets of     *)
(* other types are passed over.                                            *)
HandOver(words) ==
  LET From[p \in Nat] ==
        IF p > Len(words) THEN <<>>
        ELSE LET header == At(words, p)
                 here == IF header[1] = MPRTP THEN HandOverBlocks(words, p)
                                              ELSE HandOverReport(words, p, 0)
             IN  here \o From[p + header[3] + 1]
  IN  From[1]

-----------------------------------------------------------------------------
(* RTP.  sizeof rtp_header, rtp_extension_header and mprtp_ex *)
RtpHeader == 12
ExtHeader == 4
MprtpEx == 8
OneByteExt == 48862   \* 0xBEDE, which marks MPRTP packets
Lengths == 1028       \* len1 = len2 = 4

(* The packet send_data makes of data_len octets. *)
DataPacket(seq, id, sfseq, data_len) ==
  [size |-> data_len + RtpHeader + ExtHeader + MprtpEx,
   version |-> 2, marker |-> 0, payloadtype |-> 0, csrccount |-> 0,
   padding |-> 0, last |-> 0, seq |-> seq, extension |-> 1,
   words |-> << <<OneByteExt, 2>>, <<Lengths, id>>, <<sfseq, 0>> >>]

(* parse_packet *)

(* A faulty variant: contributing sources are not passed over. *)
ExtensionAtFront(pkt) == 1

(* Where the extension is, if there is one: behind contributing sources.   *)
ExtensionAt(pkt) == 1 + pkt.csrccount

IsMprtp(pkt) == /\ pkt.extension = 1
                /\ At(pkt.words, ExtensionAt(pkt))[1] = OneByteExt

(* A faulty variant: the two halves are taken for each other. *)
SubflowReadSwapped(pkt) ==
  IF IsMprtp(pkt) THEN [id    |-> At(pkt.words, ExtensionAt(pkt) + 2)[1],
                        sfseq |-> At(pkt.words, ExtensionAt(pkt) + 1)[2]]
                  ELSE [id |-> 0, sfseq |-> 0]

(* The subflow of a packet and its number there; none is subflow 0.        *)
SubflowRead(pkt) ==
  IF IsMprtp(pkt) THEN [id    |-> At(pkt.words, ExtensionAt(pkt) + 1)[2],
                        sfseq |-> At(pkt.words, ExtensionAt(pkt) + 2)[1]]
                  ELSE [id |-> 0, sfseq |-> 0]

(* A faulty variant: the header of the extension is forgotten. *)
OffsetWithoutExtHeader(pkt) ==
  RtpHeader + 4 * pkt.csrccount
            + (IF pkt.extension = 1 THEN 4 * At(pkt.words, ExtensionAt(pkt))[2] ELSE 0)

PayloadOffset(pkt) ==
  RtpHeader + 4 * pkt.csrccount
    + (IF pkt.extension = 1
       THEN ExtHeader + 4 * At(pkt.words, ExtensionAt(pkt))[2] ELSE 0)

PayloadLength(pkt) ==
  pkt.size - (IF pkt.padding = 1 THEN pkt.last ELSE 0) - PayloadOffset(pkt)

(* get_error() is zero.  With the marker bit set, two payload types are    *)
(* those of sender and receiver reports.                                   *)
Accepted(pkt) ==
  /\ pkt.size >= RtpHeader
  /\ pkt.version = 2
  /\ pkt.marker = 1 => pkt.payloadtype \notin {SR % 128, RR % 128}
  /\ pkt.padding = 1 => pkt.last > 0
  /\ PayloadLength(pkt) >= 0
=============================================================================
