------------------------------- MODULE Session -----------------------------
(***************************************************************************)
(* A session with its interfaces, in the loop of examples/server.cpp: the  *)
(* application fetches what has been received, then polls.  A poll drains  *)
(* the RTP socket and then the RTCP socket of each interface into the      *)
(* interface's queue, and then hands all queued packets to their handlers; *)
(* it gives up when polling a socket fails.  Datagrams come in at any time.*)
(*                                                                         *)
(* Datagrams are numbered in the order in which they arrive, and what is   *)
(* queued are numbers.  One may be empty, or on an RTP socket no RTP       *)
(* packet.  What handlers do is in Source, Reporting and Sender.           *)
(***************************************************************************)
EXTENDS Naturals, Sequences, SequencesExt

CONSTANTS
  Interfaces,   \* number of addresses given on the command line
  MaxArrivals   \* bound: datagrams

ASSUME SessionAssumption == Interfaces \in Nat \ {0} /\ MaxArrivals \in Nat

Sockets == (1..Interfaces) \X {"rtp", "rtcp"}
Kinds == {"packet", "junk", "empty"}

VARIABLES
  pc,            \* where the server is
  stop_listen,   \* SIGINT has been received
  m_interfaces,  \* the open interfaces
  turn,          \* index into Polled, the socket being polled
  kernel,        \* what each socket holds
  raw,           \* interface::m_packets
  m_packets,     \* session::m_packets
  printed,       \* what the application has printed
  arrived,       \* history: the datagrams, as socket and kind
  handled,       \* history: the packets handed to handlers
  old, late      \* history: what was queued in raw, and in kernel, as the
                 \* present poll began

queues == <<kernel, raw, m_packets, printed>>
history == <<arrived, handled, old, late>>
vars == <<pc, stop_listen, m_interfaces, turn, queues, history>>

Init ==
  /\ pc = "setup" /\ turn = 1 /\ stop_listen = FALSE
  /\ m_interfaces = <<>>
  /\ kernel = [s \in Sockets |-> <<>>]
  /\ raw = [i \in 1..Interfaces |-> <<>>]
  /\ m_packets = <<>> /\ printed = <<>>
  /\ arrived = <<>> /\ handled = <<>>
  /\ old = {} /\ late = {}

-----------------------------------------------------------------------------
(* The environment. *)

Arrive(s, kind) ==
  /\ Len(arrived) < MaxArrivals
  /\ Contains(m_interfaces, s[1])
  /\ kind = "junk" => s[2] = "rtp"
  /\ arrived' = Append(arrived, [socket |-> s, kind |-> kind])
  /\ kernel' = [kernel EXCEPT ![s] = Append(@, Len(arrived'))]
  /\ UNCHANGED <<pc, stop_listen, m_interfaces, turn, raw, m_packets, printed, handled, old, late>>

Interrupt ==
  /\ ~stop_listen
  /\ stop_listen' = TRUE
  /\ UNCHANGED <<pc, m_interfaces, turn, queues, history>>

-----------------------------------------------------------------------------
(* main *)

(* add_interface for the next address; whether its sockets can be opened   *)
(* and bound or not, the server goes on.                                   *)
AddInterface(opened) ==
  /\ pc = "setup"
  /\ m_interfaces' = IF opened THEN Append(m_interfaces, turn) ELSE m_interfaces
  /\ turn' = turn + 1
  /\ pc' = IF turn = Interfaces THEN "loop" ELSE "setup"
  /\ UNCHANGED <<stop_listen, queues, history>>

Loop ==
  /\ pc = "loop"
  /\ pc' = IF stop_listen THEN "done" ELSE "fetch"
  /\ UNCHANGED <<stop_listen, m_interfaces, turn, queues, history>>

Queued(Q) == UNION {ToSet(Q[x]) : x \in DOMAIN Q}

(* A faulty variant: the last packet first. *)
FetchLast ==
  /\ pc = "fetch"
  /\ m_packets # <<>>
  /\ printed' = Append(printed, Last(m_packets))
  /\ m_packets' = Front(m_packets)
  /\ UNCHANGED <<pc, stop_listen, m_interfaces, turn, kernel, raw, history>>

(* fetch_packet *)
Fetch ==
  /\ pc = "fetch"
  /\ m_packets # <<>>
  /\ printed' = Append(printed, Head(m_packets))
  /\ m_packets' = Tail(m_packets)
  /\ UNCHANGED <<pc, stop_listen, m_interfaces, turn, kernel, raw, history>>

FetchNothing ==
  /\ pc = "fetch"
  /\ m_packets = <<>>
  /\ pc' = "poll" /\ turn' = 1
  /\ old' = Queued(raw) /\ late' = Queued(kernel)
  /\ UNCHANGED <<stop_listen, m_interfaces, queues, arrived, handled>>

-----------------------------------------------------------------------------
(* session::poll, first loop: the sockets of the open interfaces in turn.  *)

Kind(n) == arrived[n].kind
(* A faulty variant: RTCP first. *)
SocketAtSwapped(t) ==
  <<m_interfaces[(t + 1) \div 2], IF t % 2 = 1 THEN "rtcp" ELSE "rtp">>
SocketAt(t) ==
  <<m_interfaces[(t + 1) \div 2], IF t % 2 = 1 THEN "rtp" ELSE "rtcp">>
Polling == pc = "poll" /\ turn <= 2 * Len(m_interfaces)

(* FIONREAD finds octets, or poll(2) an empty datagram: recvfrom takes the *)
(* datagram, and what is not empty is queued.                              *)
Receive ==
  /\ Polling
  /\ LET s == SocketAt(turn) IN
       /\ kernel[s] # <<>>
       /\ kernel' = [kernel EXCEPT ![s] = Tail(@)]
       /\ raw' = IF Kind(Head(kernel[s])) = "empty" THEN raw
                 ELSE [raw EXCEPT ![s[1]] = Append(@, Head(kernel[s]))]
  /\ UNCHANGED <<pc, stop_listen, m_interfaces, turn, m_packets, printed, history>>

(* There is nothing in the socket that FIONREAD would show. *)
NothingToRead(s) == kernel[s] # <<>> => Kind(Head(kernel[s])) = "empty"

(* A faulty variant: what the interface has queued is dropped.             *)
PollFailsAndForgets ==
  /\ Polling
  /\ NothingToRead(SocketAt(turn))
  /\ pc' = "loop"
  /\ raw' = [raw EXCEPT ![SocketAt(turn)[1]] = <<>>]
  /\ UNCHANGED <<stop_listen, m_interfaces, turn, kernel, m_packets, printed, history>>

(* poll(2) fails, and with it session::poll; what is queued stays queued.  *)
PollFails ==
  /\ Polling
  /\ NothingToRead(SocketAt(turn))
  /\ pc' = "loop"
  /\ UNCHANGED <<stop_listen, m_interfaces, turn, queues, history>>

(* poll(2) finds nothing. *)
NextSocket ==
  /\ Polling
  /\ kernel[SocketAt(turn)] = <<>>
  /\ turn' = turn + 1
  /\ UNCHANGED <<pc, stop_listen, m_interfaces, queues, history>>

(* SIGINT interrupts poll(2), which is taken for having found nothing.     *)
InterruptPoll ==
  /\ Polling
  /\ ~stop_listen
  /\ NothingToRead(SocketAt(turn))
  /\ stop_listen' = TRUE
  /\ turn' = turn + 1
  /\ UNCHANGED <<pc, m_interfaces, queues, history>>

PollDone ==
  /\ pc = "poll" /\ ~Polling
  /\ pc' = "process"
  /\ UNCHANGED <<stop_listen, m_interfaces, turn, queues, history>>

-----------------------------------------------------------------------------
(* session::poll, second loop: the queues of the interfaces in turn. *)

(* A faulty variant: only the first interface's packets are processed.     *)
NonEmptyFirst == {k \in DOMAIN m_interfaces : k = 1 /\ raw[m_interfaces[k]] # <<>>}
NonEmpty == {k \in DOMAIN m_interfaces : raw[m_interfaces[k]] # <<>>}
FrontQueue == m_interfaces[CHOOSE k \in NonEmpty : \A j \in NonEmpty : k <= j]

(* process_rtp_packet queues a packet that parses for the application,     *)
(* process_rtcp_packet nothing.                                            *)
Process ==
  /\ pc = "process" /\ NonEmpty # {}
  /\ LET n == Head(raw[FrontQueue]) IN
       /\ raw' = [raw EXCEPT ![FrontQueue] = Tail(@)]
       /\ handled' = Append(handled, n)
       /\ m_packets' = IF arrived[n].socket[2] = "rtp" /\ Kind(n) = "packet"
                       THEN Append(m_packets, n) ELSE m_packets
  /\ UNCHANGED <<pc, stop_listen, m_interfaces, turn, kernel, printed,
                 arrived, old, late>>

ProcessDone ==
  /\ pc = "process" /\ NonEmpty = {}
  /\ pc' = "loop"
  /\ UNCHANGED <<stop_listen, m_interfaces, turn, queues, history>>

-----------------------------------------------------------------------------
Server ==
  \/ \E opened \in BOOLEAN : AddInterface(opened)
  \/ Loop \/ Fetch \/ FetchNothing
  \/ Receive \/ PollFails \/ NextSocket \/ InterruptPoll \/ PollDone
  \/ Process \/ ProcessDone

Next ==
  \/ Server
  \/ \E s \in Sockets, kind \in Kinds : Arrive(s, kind)
  \/ Interrupt

(* The server runs; it waits for nothing but a millisecond in each round.  *)
(* Polling a socket fails for want of memory, and not every time.          *)
Fairness ==
  /\ WF_vars(Server)
  /\ \A t \in 1..(2 * Interfaces) : SF_vars(turn = t /\ (Receive \/ NextSocket))

Spec == Init /\ [][Next]_vars /\ Fairness

-----------------------------------------------------------------------------
On(s, n) == arrived[n].socket = s
PacketOf(s, n) == On(s, n) /\ Kind(n) = "packet"

(* The way of what comes in on socket s, its end first: of what came in on *)
(* an RTP socket the packets that the application has printed or can       *)
(* fetch, else what has been handled; then what the interface has queued,  *)
(* and what the socket holds.                                              *)
Way(s) ==
  (IF s[2] = "rtp" THEN printed \o m_packets ELSE handled)
    \o raw[s[1]] \o kernel[s]

(* Whatever polls fail, every packet goes its way once and in order: all   *)
(* that have come in on a socket are on its way, those that came in first  *)
(* ahead of the others.                                                    *)
EachOnceInOrder ==
  \A s \in Sockets :
    LET way == Way(s) IN
    /\ \A n \in DOMAIN arrived : PacketOf(s, n) => n \in ToSet(way)
    /\ \A i, j \in DOMAIN way :
         i < j /\ PacketOf(s, way[i]) /\ PacketOf(s, way[j]) => way[i] < way[j]

(* A sender report is handled after the packets that were there before it: *)
(* when an RTCP packet is handled that this poll has received, no RTP      *)
(* packet of its interface is left that was there as the poll began.       *)
(* (Unless the poll was interrupted; then it is the last.)                 *)
DataBeforeReports ==
  [][handled' # handled /\ ~stop_listen =>
       LET n == Head(raw[FrontQueue])
       IN  arrived[n].socket[2] = "rtcp" /\ n \notin old =>
             \A m \in late :
               On(<<FrontQueue, "rtp">>, m) =>
                 ~Contains(raw[FrontQueue], m) /\ ~Contains(kernel[<<FrontQueue, "rtp">>], m)
    ]_vars

(* Every packet is handled in the end, also one that came in on another    *)
(* interface than the one whose polling failed; unless SIGINT ends the     *)
(* server first.                                                           *)
AllHandled ==
  \A n \in 1..MaxArrivals :
    (n <= Len(arrived) /\ Kind(n) # "empty") ~> (Contains(handled, n) \/ stop_listen)
=============================================================================
