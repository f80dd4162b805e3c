----------------------------- MODULE Reporting -----------------------------
(***************************************************************************)
(* A sender with N subflows and the receiver it sends to.  Packets carry   *)
(* a number of the stream and one of their subflow; they go out on any     *)
(* path, and each path keeps their order, loses some and delays them as    *)
(* long as it likes, so that the stream's numbers come in disorder.        *)
(* Sender reports, about all subflows, take any of the paths and are not   *)
(* kept in order with the packets, which go to another port.  The receiver *)
(* may be restarted.                                                       *)
(*                                                                         *)
(* A path is a local interface of the sender, a remote one of the receiver *)
(* and the subflow between them, all three named by the same number.  The  *)
(* numbers of packets are counted without wrap here and carried modulo     *)
(* SeqMod; history variables remember what really arrived.                 *)
(***************************************************************************)
EXTENDS Source, FiniteSets

CONSTANTS
  N,             \* number of subflows
  FirstNumbers,  \* numbers the stream and its subflows may begin with
  MaxSends,      \* bound: packets sent
  MaxInFlight,   \* bound: packets on each path
  MaxReports,    \* bound: sender reports
  MaxRestarts    \* bound: restarts of the receiver

ASSUME ReportingAssumption ==
  /\ N \in Nat \ {0}
  /\ FirstNumbers \subseteq 0..(SeqMod - 2)
  /\ MaxSends \in Nat /\ MaxInFlight \in Nat
  /\ MaxReports \in Nat /\ MaxRestarts \in Nat

Paths == 1..N
AllIds == [p \in Paths |-> p]   \* the reports of a compound, in order

VARIABLES
  seq,       \* number of the stream's next packet, unwrapped
  sfseq,     \* number of the next packet on each subflow, unwrapped
  net,       \* packets on each path, in order
  reports,   \* paths that sender reports are under way on, with multiplicity
  src,       \* the receiver's source
  answer,    \* the last answer of the receiver, or NoAnswer
  begun,     \* history: the first number of the stream and of the subflows
  sent,      \* history: sender reports sent
  heard,     \* history: how the receiver first heard of the source
  first,     \* history: the first packet received from each path
  high,      \* history: the last one
  told,      \* history: what the last answer said of each path
  given,     \* history: the last packet processed and its extended number
  restarts   \* history: restarts so far

sender == <<seq, sfseq, begun, sent>>
receiver == <<src, answer, heard, first, high, told, given>>
vars == <<sender, net, reports, receiver, restarts>>

NoAnswer == [to |-> RTCP(0), via |-> 0, blocks |-> <<>>]
NotTold == [told |-> FALSE, counted |-> FALSE, ext |-> 0, high |-> 0]
NotGiven == [ext |-> 0, seq |-> 0, opens |-> TRUE]

Init ==
  /\ seq \in FirstNumbers /\ sfseq \in [Paths -> FirstNumbers]
  /\ begun = <<seq, sfseq>>
  /\ net = [p \in Paths |-> <<>>]
  /\ reports = [p \in Paths |-> 0]
  /\ sent = 0 /\ restarts = 0
  /\ src = NewSource /\ answer = NoAnswer
  /\ heard = "nothing"
  /\ first = [p \in Paths |-> 0] /\ high = [p \in Paths |-> 0]
  /\ told = [p \in Paths |-> NotTold]
  /\ given = NotGiven

-----------------------------------------------------------------------------
(* send_data on path p. *)
SendData(p) ==
  /\ seq - begun[1] < MaxSends /\ Len(net[p]) < MaxInFlight
  /\ seq' = seq + 1
  /\ sfseq' = [sfseq EXCEPT ![p] = @ + 1]
  /\ net' = [net EXCEPT ![p] = Append(@, <<seq, sfseq[p]>>)]
  /\ UNCHANGED <<begun, sent, reports, receiver, restarts>>

(* send_sender_report on path p, once a packet has been sent. *)
SendReport(p) ==
  /\ seq > begun[1] /\ sent < MaxReports
  /\ sent' = sent + 1
  /\ reports' = [reports EXCEPT ![p] = @ + 1]
  /\ UNCHANGED <<seq, sfseq, begun, net, receiver, restarts>>

(* The network drops the packet that is first in line on path p. *)
LosePacket(p) ==
  /\ net[p] # <<>>
  /\ net' = [net EXCEPT ![p] = Tail(@)]
  /\ UNCHANGED <<sender, reports, receiver, restarts>>

LoseReport(p) ==
  /\ reports[p] > 0
  /\ reports' = [reports EXCEPT ![p] = @ - 1]
  /\ UNCHANGED <<sender, net, receiver, restarts>>

(* What a path does not do: lose half a cycle of its numbers in a row, or  *)
(* a whole word of them between two answers.                               *)
Near(p, n) ==
  /\ Counts(src, p) => 2 * (n - high[p]) < SeqMod
  /\ told[p].counted => n - told[p].high < WordMod

FirstHeard(how) == IF heard = "nothing" THEN how ELSE heard

(* on_rtp_packet of the receiver. *)
OnRTP(p) ==
  /\ net[p] # <<>> /\ Near(p, Head(net[p])[2])
  /\ LET n == Head(net[p])
         pkt == [seq |-> n[1] % SeqMod, id |-> p, sfseq |-> n[2] % SeqMod]
     IN  /\ src' = ProcessRTP(src, pkt, RTP(p), p)
         /\ given' = [ext |-> GivenNumber(src, pkt), seq |-> n[1],
                      opens |-> ~Counts(src, p)]
         /\ high' = [high EXCEPT ![p] = n[2]]
         /\ first' = IF Counts(src, p) THEN first
                     ELSE [first EXCEPT ![p] = n[2]]
  /\ net' = [net EXCEPT ![p] = Tail(@)]
  /\ heard' = FirstHeard("rtp")
  /\ UNCHANGED <<sender, reports, answer, told, restarts>>

(* on_rtcp_sr_packet of the receiver, for the whole compound. *)
OnSR(p) ==
  /\ reports[p] > 0
  /\ reports' = [reports EXCEPT ![p] = @ - 1]
  /\ src' = ProcessSR(src, AllIds, RTCP(p), p)
  /\ heard' = FirstHeard("sr")
  /\ UNCHANGED <<sender, net, answer, first, high, told, given, restarts>>

(* The part of the receiver's poll that comes after session::poll, which   *)
(* has called OnRTP and OnSR any number of times.                          *)
Poll ==
  /\ src.send_rr
  /\ answer' = Answer(src)
  /\ src' = Answered(src)
  /\ told' = [p \in Paths |->
       IF p \in DOMAIN answer'.blocks
       THEN [told |-> TRUE, counted |-> Counts(src, p),
             ext |-> answer'.blocks[p], high |-> high[p]]
       ELSE NotTold]
  /\ UNCHANGED <<sender, net, reports, heard, first, high, given, restarts>>

(* The receiver's process ends and another one takes its place. *)
Restart ==
  /\ restarts < MaxRestarts
  /\ restarts' = restarts + 1
  /\ src' = NewSource /\ answer' = NoAnswer
  /\ heard' = "nothing"
  /\ first' = [p \in Paths |-> 0] /\ high' = [p \in Paths |-> 0]
  /\ told' = [p \in Paths |-> NotTold]
  /\ given' = NotGiven
  /\ UNCHANGED <<sender, net, reports>>

Next ==
  \/ \E p \in Paths : \/ SendData(p) \/ SendReport(p)
                      \/ LosePacket(p) \/ LoseReport(p)
                      \/ OnRTP(p) \/ OnSR(p)
  \/ Poll
  \/ Restart

Spec == Init /\ [][Next]_vars
-----------------------------------------------------------------------------
Endpoints == [host : 0..N, port : 0..2]
RecvSubflowType ==
  [id : Paths, remote : Endpoints, iface : Paths, recv_stat : StatsType]

(* The source keeps its types, one record per subflow, and never has to    *)
(* answer without a subflow to do it on: front() of an empty vector would  *)
(* be undefined.                                                           *)
TypeOK ==
  /\ seq \in Nat /\ sfseq \in [Paths -> Nat]
  /\ src.stat \in StatsType /\ src.send_rr \in BOOLEAN
  /\ \A i \in DOMAIN src.subflows :
       /\ src.subflows[i] \in RecvSubflowType
       /\ Index(src.subflows, src.subflows[i].id) = i
  /\ src.send_rr => src.subflows # <<>>
  /\ answer.to \in Endpoints /\ answer.via \in 0..N

(* Why subflows are numbered apart: the statistics of a path depend on     *)
(* that path alone.  However the paths delay each other's packets in the   *)
(* stream, a subflow's highest number is at the true distance from its     *)
(* first one.  (Of the stream's own statistics this is not so.)            *)
PathsApart ==
  \A p \in Paths :
    Counts(src, p) => ExpectedTotal(Record(src, p).recv_stat)
                   = (high[p] - first[p] + 1) % WordMod

(* What the sender computes a bitrate from: the highest number it is told  *)
(* rises, between two reports of one receiver process, by exactly the      *)
(* numbers between the packets then and now, as long as the earlier report *)
(* was about a subflow that had received a packet.  (A subflow known only  *)
(* from a sender report is reported with the highest number 0, from which  *)
(* the next one rises by any random first number.)                         *)
ProgressIsReal ==
  \A p \in Paths :
    told[p].told /\ told[p].counted =>
      Minus32(Record(src, p).recv_stat.exthighseqnr, told[p].ext)
        = high[p] - told[p].high

(* Answers go to the RTCP port of a host of the sender, over the interface *)
(* that is on a path with that host, if the receiver first heard of the    *)
(* source through an RTP packet.  If a sender report came first, its RTCP  *)
(* port is taken for the RTP one, and every answer of this process goes to *)
(* a port on which nobody listens.                                         *)
AnswersReachSender ==
  answer # NoAnswer =>
    answer.to = [RTCP(answer.via) EXCEPT
                   !.port = IF heard = "rtp" THEN @ ELSE 2]

(* The application sees the numbers of the RTP header in the packets it    *)
(* fetches, but for the first packet of every subflow, whose number was    *)
(* overwritten.                                                            *)
NumbersKept == ~given.opens => given.ext % SeqMod = given.seq % SeqMod
=============================================================================
