----------------------------- MODULE MCExchange ----------------------------
(* Exchange with packets of other senders: RTP with every combination of   *)
(* contributing sources, an extension and padding, and what is no RTP.     *)
EXTENDS Exchange

OnlyZero == {0}
OnlyFive == {5}

(* A packet with cc contributing sources, one of which looks like the      *)
(* extension that marks MPRTP packets, and with a given extension.         *)
Other(cc, ext, pad, payload, subflow) ==
  LET sources == [i \in 1..cc |-> <<OneByteExt, i>>] IN
  [rtp |-> TRUE, payload |-> payload, subflow |-> subflow,
   pkt |-> [DataPacket(0, 0, 0, 0) EXCEPT
     !.size = RtpHeader + 4 * (cc + Len(ext)) + payload + pad,
     !.csrccount = cc,
     !.extension = IF ext = <<>> THEN 0 ELSE 1,
     !.words = sources \o ext,
     !.padding = IF pad = 0 THEN 0 ELSE 1, !.last = pad]]

NoSubflow == [id |-> 0, sfseq |-> 0]
Unmarked == {<<>>, << <<1, 0>> >>, << <<1, 2>>, <<5, 6>>, <<7, 0>> >>}
(* As this library makes it, and with one more element behind.             *)
Marked == {<< <<OneByteExt, 2>>, <<Lengths, 5>>, <<6, 0>> >>,
           << <<OneByteExt, 3>>, <<Lengths, 5>>, <<6, 0>>, <<7, 7>> >>}

NotRtp(pkt) == [rtp |-> FALSE, payload |-> 0, subflow |-> NoSubflow, pkt |-> pkt]

OtherPackets ==
  {Other(cc, ext, pad, payload, NoSubflow) :
     cc \in {0, 2}, ext \in Unmarked, pad \in {0, 3}, payload \in {0, 5}}
  \cup {Other(cc, ext, pad, payload, [id |-> 5, sfseq |-> 6]) :
          cc \in {0, 2}, ext \in Marked, pad \in {0, 3}, payload \in {0, 5}}
  \cup {NotRtp([DataPacket(0, 0, 0, 0) EXCEPT !.version = 1]),
        NotRtp([DataPacket(0, 0, 0, 0) EXCEPT !.size = 5]),
        NotRtp([DataPacket(0, 0, 0, 0) EXCEPT !.marker = 1, !.payloadtype = 72])}
=============================================================================
