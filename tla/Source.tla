------------------------------- MODULE Source ------------------------------
(***************************************************************************)
(* source: what a receiver keeps about one sender (SSRC).  It counts every *)
(* RTP packet twice, in the statistics of the stream and in those of the   *)
(* packet's subflow, makes a subflow the first time it hears of it, and    *)
(* answers sender reports with a compound packet of receiver reports.      *)
(*                                                                         *)
(* A source is a record and its methods operators.  The receiver finds the *)
(* source of an SSRC in a map and makes it when there is none, so that a   *)
(* new source and none at all are the same.  An endpoint is a host and the *)
(* number of a port relative to the one the host's interface is opened on: *)
(* RTP is 0, RTCP is 1.  The last sender report, of which the answer       *)
(* carries timestamps only, is left out.                                   *)
(***************************************************************************)
EXTENDS SourceStats, Sequences

RTP(host) == [host |-> host, port |-> 0]
RTCP(host) == [host |-> host, port |-> 1]

(* The constructors. *)
NewSource == [stat |-> NewStats, subflows |-> <<>>, send_rr |-> FALSE]
NewSubflow(id, remote, iface) ==
  [id |-> id, remote |-> remote, iface |-> iface, recv_stat |-> NewStats]

-----------------------------------------------------------------------------
(* find_subflow *)

Ids(subflows) == {subflows[i].id : i \in DOMAIN subflows}

(* A faulty variant: a subflow is made although there is one. *)
FoundAnew(subflows, id, from, iface) ==
  <<NewSubflow(id, from, iface)>> \o subflows

(* The subflows once the one numbered id has been looked up, or made with  *)
(* the address and the interface of the packet that mentions it.           *)
Found(subflows, id, from, iface) ==
  IF id \in Ids(subflows) THEN subflows
  ELSE Append(subflows, NewSubflow(id, from, iface))

Index(subflows, id) ==
  CHOOSE i \in DOMAIN subflows :
    subflows[i].id = id /\ \A j \in 1..(i - 1) : subflows[j].id # id

Record(src, id) == src.subflows[Index(src.subflows, id)]

(* process_packet for packet pkt: the number seq of its RTP header, and    *)
(* the number sfseq on its subflow id.                                     *)

(* A faulty variant: both statistics are given the number of the stream. *)
ProcessRTPOneNumber(src, pkt, from, iface) ==
  LET found == Found(src.subflows, pkt.id, from, iface)
      i == Index(found, pkt.id)
  IN  [src EXCEPT !.stat = ProcessPacket(@, pkt.seq),
                  !.subflows =
                     [found EXCEPT ![i].recv_stat = ProcessPacket(@, pkt.seq)]]

ProcessRTP(src, pkt, from, iface) ==
  LET found == Found(src.subflows, pkt.id, from, iface)
      i == Index(found, pkt.id)
  IN  [src EXCEPT !.stat = ProcessPacket(@, pkt.seq),
                  !.subflows =
                     [found EXCEPT ![i].recv_stat = ProcessPacket(@, pkt.sfseq)]]

(* Has a packet of subflow id been counted, or is the next one its first? *)
Counts(src, id) ==
  id \in Ids(src.subflows) /\ Record(src, id).recv_stat.received_data

(* A faulty variant: no statistics heed which of the two numbers is theirs *)
GivenNumberUnflagged(src, pkt) ==
  IF Counts(src, pkt.id)
  THEN AssignedSeq(Record(src, pkt.id).recv_stat, pkt.sfseq)
  ELSE AssignedSeq(NewStats, pkt.sfseq)

(* The extended number the application reads from the packet.  The stream  *)
(* gives it its own; then the first packet of a subflow is given that of   *)
(* the subflow instead.                                                    *)
GivenNumber(src, pkt) ==
  IF Counts(src, pkt.id) THEN AssignedSeq(src.stat, pkt.seq)
                         ELSE AssignedSeq(NewStats, pkt.sfseq)

-----------------------------------------------------------------------------
(* The subflows once the report about each of the subflows ids has been    *)
(* handled, in that order.                                                 *)
FoundAll(subflows, ids, from, iface) ==
  LET after[n \in 0..Len(ids)] ==
        IF n = 0 THEN subflows ELSE Found(after[n - 1], ids[n], from, iface)
  IN  after[Len(ids)]

(* process_sr_packet for the reports of a compound packet: the one about   *)
(* the stream, then those about the subflows.  Subflows not heard of       *)
(* before are all made with the address and the interface of this packet,  *)
(* whichever path each of them belongs to.                                 *)
ProcessSR(src, ids, from, iface) ==
  [src EXCEPT !.send_rr = TRUE,
              !.subflows = FoundAll(@, ids, from, iface)]

-----------------------------------------------------------------------------
(* poll: the answer to sender reports, however many came since the last.   *)

(* A faulty variant: the subflow heard of last. *)
SelectLast(subflows) == subflows[Len(subflows)]

(* select_subflow *)
SelectSubflow(subflows) == Head(subflows)

(* The receiver reports about the stream and about each subflow, sent on   *)
(* the front subflow to the port above the one its address names.          *)
Answer(src) ==
  LET sf == SelectSubflow(src.subflows) IN
  [to     |-> [sf.remote EXCEPT !.port = @ + 1],
   via    |-> sf.iface,
   blocks |-> [id \in Ids(src.subflows) |->
                 Record(src, id).recv_stat.exthighseqnr]]

(* Every report starts a new interval of its statistics. *)
Answered(src) ==
  LET begun == [i \in DOMAIN src.subflows |->
                  [src.subflows[i] EXCEPT !.recv_stat = StartNewInterval(@)]]
  IN  [src EXCEPT !.send_rr = FALSE,
                  !.stat = StartNewInterval(@), !.subflows = begun]
=============================================================================
