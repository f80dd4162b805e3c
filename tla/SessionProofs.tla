---------------------------- MODULE SessionProofs ---------------------------
(***************************************************************************)
(* The safety properties of Session, for any number of interfaces and of   *)
(* datagrams.                                                              *)
(*                                                                         *)
(* Line says of the three places that what comes in on a socket passes     *)
(* through that they hold its packets in order and none is missing; each   *)
(* step takes the first out of one place and puts it at the end of the     *)
(* next, or puts in or drops what is no packet of that socket.  Rounds     *)
(* says what the present poll has done so far: the sockets it has passed   *)
(* are empty of what it found, and in the queue of an interface no packet  *)
(* stands behind a report that this poll received.                         *)
(***************************************************************************)
EXTENDS Session, TLAPS, WellFoundedInduction

(* The numbers of P stand in queue q in their order; those in q are ahead  *)
(* of those in r.                                                          *)
Sorted(P, q) ==
  \A i, j \in DOMAIN q : i < j /\ q[i] \in P /\ q[j] \in P => q[i] < q[j]
Before(P, q, r) == \A x \in ToSet(q) \cap P, y \in ToSet(r) \cap P : x < y

(* All numbers of P are on their way through k, r and e, in order.         *)
Line(P, e, r, k) ==
  /\ Sorted(P, e) /\ Sorted(P, r) /\ Sorted(P, k)
  /\ Before(P, e, r) /\ Before(P, e, k) /\ Before(P, r, k)
  /\ P \subseteq ToSet(e) \cup ToSet(r) \cup ToSet(k)

-----------------------------------------------------------------------------
(* Queues. *)

(* What is put at the end of a queue.                                      *)
LEMMA AtEnd ==
  ASSUME NEW q \in Seq(Nat), NEW x \in Nat, NEW P
  PROVE  /\ Append(q, x) \in Seq(Nat)
         /\ ToSet(Append(q, x)) = ToSet(q) \cup {x}
         /\ Sorted(P, q) /\ (x \in P => \A y \in ToSet(q) \cap P : y < x)
              => Sorted(P, Append(q, x))
<1>1. PICK long : long = Append(q, x) OBVIOUS
<1>2. PICK n \in Nat : n = Len(q) OBVIOUS
<1>3. /\ DOMAIN q = 1..n /\ DOMAIN long = 1..(n + 1) /\ long[n + 1] = x
      /\ \A i \in 1..n : long[i] = q[i]
  BY <1>1, <1>2
<1>4. ToSet(long) = ToSet(q) \cup {x}
  <2>1. \A i \in 1..(n + 1) : i \in 1..n \/ i = n + 1 OBVIOUS
  <2>2. \A i \in 1..n : i \in 1..(n + 1) OBVIOUS
  <2>3. n + 1 \in 1..(n + 1) OBVIOUS
  <2> QED BY <1>3, <2>1, <2>2, <2>3 DEF ToSet
<1>5. ASSUME Sorted(P, q), x \in P => \A y \in ToSet(q) \cap P : y < x,
             NEW i \in DOMAIN long, NEW j \in DOMAIN long,
             i < j, long[i] \in P, long[j] \in P
      PROVE  long[i] < long[j]
  <2>1. i \in 1..n BY <1>3, <1>5
  <2>2. CASE j \in 1..n BY <1>3, <1>5, <2>1, <2>2 DEF Sorted
  <2>3. CASE j = n + 1
    <3>1. q[i] \in ToSet(q) BY <1>3, <2>1 DEF ToSet
    <3> QED BY <1>3, <1>5, <2>1, <2>3, <3>1
  <2>4. j \in 1..n \/ j = n + 1 BY <1>3
  <2> QED BY <2>2, <2>3, <2>4
<1>6. Append(q, x) \in Seq(Nat) OBVIOUS
<1> QED BY <1>1, <1>4, <1>5, <1>6 DEF Sorted

(* What is taken from its front.                                           *)
LEMMA AtFront ==
  ASSUME NEW q \in Seq(Nat), q # <<>>, NEW P
  PROVE  /\ Head(q) \in Nat /\ Tail(q) \in Seq(Nat)
         /\ ToSet(q) = {Head(q)} \cup ToSet(Tail(q))
         /\ Sorted(P, q) =>
              /\ Sorted(P, Tail(q))
              /\ Head(q) \in P => \A y \in ToSet(Tail(q)) \cap P : Head(q) < y
<1>1. PICK rest : rest = Tail(q) OBVIOUS
<1>2. PICK n \in Nat \ {0} : n = Len(q) OBVIOUS
<1>3. /\ DOMAIN q = 1..n /\ DOMAIN rest = 1..(n - 1) /\ Head(q) = q[1]
      /\ \A i \in 1..(n - 1) : rest[i] = q[i + 1]
      /\ q[1] \in Nat /\ rest \in Seq(Nat)
  BY <1>1, <1>2
<1>4. ToSet(q) = {q[1]} \cup ToSet(rest)
  <2>1. \A i \in 1..n : i = 1 \/ (i - 1 \in 1..(n - 1) /\ (i - 1) + 1 = i)
    OBVIOUS
  <2>2. \A i \in 1..(n - 1) : i + 1 \in 1..n OBVIOUS
  <2>3. 1 \in 1..n OBVIOUS
  <2>4. \A i \in 1..n : q[i] = q[1] \/ q[i] \in ToSet(rest)
    <3> TAKE i \in 1..n
    <3>1. i # 1 => rest[i - 1] = q[i] /\ i - 1 \in DOMAIN rest BY <1>3, <2>1
    <3> QED BY <3>1 DEF ToSet
  <2>5. \A i \in 1..(n - 1) : rest[i] \in ToSet(q) BY <1>3, <2>2 DEF ToSet
  <2> QED BY ZenonT(30), <1>3, <2>3, <2>4, <2>5 DEF ToSet
<1>5. ASSUME Sorted(P, q) PROVE Sorted(P, rest)
  <2>1. \A i, j \in 1..(n - 1) :
          i + 1 \in 1..n /\ j + 1 \in 1..n /\ (i < j => i + 1 < j + 1)
    OBVIOUS
  <2> QED BY <1>3, <1>5, <2>1 DEF Sorted
<1>6. ASSUME Sorted(P, q), q[1] \in P, NEW y \in ToSet(rest) \cap P
      PROVE  q[1] < y
  <2>1. PICK i \in 1..(n - 1) : rest[i] = y BY <1>3 DEF ToSet
  <2>2. 1 \in 1..n /\ i + 1 \in 1..n /\ 1 < i + 1 OBVIOUS
  <2> QED BY <1>3, <1>6, <2>1, <2>2 DEF Sorted
<1> QED BY <1>1, <1>3, <1>4, <1>5, <1>6

(* Two queues, one after the other.                                        *)
LEMMA Joined ==
  ASSUME NEW q \in Seq(Nat), NEW r \in Seq(Nat), NEW P
  PROVE  /\ q \o r \in Seq(Nat)
         /\ ToSet(q \o r) = ToSet(q) \cup ToSet(r)
         /\ Sorted(P, q) /\ Sorted(P, r) /\ Before(P, q, r) => Sorted(P, q \o r)
<1>1. PICK long : long = q \o r OBVIOUS
<1>2. PICK n \in Nat : n = Len(q) OBVIOUS
<1>3. PICK m \in Nat : m = Len(r) OBVIOUS
<1>4. /\ DOMAIN q = 1..n /\ DOMAIN r = 1..m /\ DOMAIN long = 1..(n + m)
      /\ \A i \in 1..(n + m) : long[i] = IF i <= n THEN q[i] ELSE r[i - n]
  BY <1>1, <1>2, <1>3
<1>5. \A i \in 1..(n + m) :
        \/ i \in 1..n /\ long[i] = q[i]
        \/ i \notin 1..n /\ i - n \in 1..m /\ long[i] = r[i - n]
  BY <1>4
<1>6. ToSet(long) = ToSet(q) \cup ToSet(r)
  <2>1. \A i \in 1..n : i \in 1..(n + m) /\ long[i] = q[i] BY <1>4
  <2>2. \A i \in 1..m : i + n \in 1..(n + m) /\ long[i + n] = r[i]
    <3> TAKE i \in 1..m
    <3>1. i + n \in 1..(n + m) /\ ~(i + n <= n) /\ (i + n) - n = i OBVIOUS
    <3> QED BY <1>4, <3>1
  <2>3. \A y \in ToSet(q) : y \in ToSet(long)
    <3> TAKE y \in ToSet(q)
    <3>1. PICK i \in 1..n : q[i] = y BY <1>4 DEF ToSet
    <3> QED BY <1>4, <2>1, <3>1 DEF ToSet
  <2>4. \A y \in ToSet(r) : y \in ToSet(long)
    <3> TAKE y \in ToSet(r)
    <3>1. PICK i \in 1..m : r[i] = y BY <1>4 DEF ToSet
    <3> QED BY <1>4, <2>2, <3>1 DEF ToSet
  <2>5. \A y \in ToSet(long) : y \in ToSet(q) \cup ToSet(r)
    <3> TAKE y \in ToSet(long)
    <3>1. PICK i \in 1..(n + m) : long[i] = y BY <1>4 DEF ToSet
    <3> QED BY <1>4, <1>5, <3>1 DEF ToSet
  <2> QED BY <2>3, <2>4, <2>5
<1>7. ASSUME Sorted(P, q), Sorted(P, r), Before(P, q, r),
             NEW i \in DOMAIN long, NEW j \in DOMAIN long,
             i < j, long[i] \in P, long[j] \in P
      PROVE  long[i] < long[j]
  <2>1. i \in 1..(n + m) /\ j \in 1..(n + m) BY <1>4
  <2>2. CASE j \in 1..n
    <3>1. i \in 1..n BY <1>7, <2>1, <2>2
    <3>2. long[i] = q[i] /\ long[j] = q[j] BY <1>5, <2>1, <2>2, <3>1
    <3> QED BY <1>4, <1>7, <2>2, <3>1, <3>2 DEF Sorted
  <2>3. CASE j \notin 1..n /\ i \in 1..n
    <3>1. long[i] \in ToSet(q) /\ long[j] \in ToSet(r)
      BY <1>4, <1>5, <2>1, <2>3 DEF ToSet
    <3> QED BY <1>7, <3>1 DEF Before
  <2>4. CASE j \notin 1..n /\ i \notin 1..n
    <3>1. /\ i - n \in 1..m /\ long[i] = r[i - n]
          /\ j - n \in 1..m /\ long[j] = r[j - n]
      BY <1>5, <2>1, <2>4
    <3>2. i - n < j - n BY <1>7, <2>1
    <3> QED BY <1>4, <1>7, <3>1, <3>2 DEF Sorted
  <2> QED BY <2>2, <2>3, <2>4
<1>8. q \o r \in Seq(Nat) OBVIOUS
<1> QED BY <1>1, <1>6, <1>7, <1>8 DEF Sorted

(* What is put in at the entrance is behind everything.                    *)
LEMMA LineEnter ==
  ASSUME NEW P, NEW e \in Seq(Nat), NEW r \in Seq(Nat), NEW k \in Seq(Nat),
         Line(P, e, r, k), NEW x \in Nat,
         \A y \in ToSet(e) \cup ToSet(r) \cup ToSet(k) : y < x
  PROVE  Line(P \cup {x}, e, r, Append(k, x))
<1> DEFINE Q == P \cup {x}
<1>1. Sorted(Q, e) /\ Sorted(Q, r) /\ Sorted(Q, k)
  <2>1. \A q \in {e, r, k} : \A i \in DOMAIN q : q[i] \in Q => q[i] \in P
    <3> TAKE q \in {e, r, k}
    <3> TAKE i \in DOMAIN q
    <3>1. q[i] \in ToSet(e) \cup ToSet(r) \cup ToSet(k) BY DEF ToSet
    <3>2. q[i] < x BY <3>1
    <3>3. q[i] # x BY <3>2
    <3> QED BY <3>3
  <2> QED BY <2>1 DEF Line, Sorted
<1>2. ToSet(Append(k, x)) = ToSet(k) \cup {x} BY AtEnd
<1>3. Sorted(Q, Append(k, x)) BY <1>1, AtEnd
<1>4. x \notin ToSet(e) \cup ToSet(r) \cup ToSet(k)
  <2>1. ~(x < x) OBVIOUS
  <2> QED BY <2>1
<1> QED BY <1>1, <1>2, <1>3, <1>4 DEF Line, Before

(* What is no packet may be put in anywhere.                               *)
LEMMA LinePut ==
  ASSUME NEW P, NEW e \in Seq(Nat), NEW r \in Seq(Nat), NEW k \in Seq(Nat),
         Line(P, e, r, k), NEW x \in Nat, x \notin P
  PROVE  /\ Line(P, Append(e, x), r, k)
         /\ Line(P, e, Append(r, x), k)
         /\ Line(P, e, r, Append(k, x))
<1>1. /\ ToSet(Append(e, x)) = ToSet(e) \cup {x} /\ Sorted(P, Append(e, x))
      /\ ToSet(Append(r, x)) = ToSet(r) \cup {x} /\ Sorted(P, Append(r, x))
      /\ ToSet(Append(k, x)) = ToSet(k) \cup {x} /\ Sorted(P, Append(k, x))
  BY AtEnd DEF Line
<1> QED BY <1>1 DEF Line, Before

(* What is no packet may be dropped.                                       *)
LEMMA LineDrop ==
  ASSUME NEW P, NEW e \in Seq(Nat), NEW r \in Seq(Nat), NEW k \in Seq(Nat),
         Line(P, e, r, k)
  PROVE  /\ r # <<>> /\ Head(r) \notin P => Line(P, e, Tail(r), k)
         /\ k # <<>> /\ Head(k) \notin P => Line(P, e, r, Tail(k))
<1>1. ASSUME r # <<>>, Head(r) \notin P PROVE Line(P, e, Tail(r), k)
  <2>1. ToSet(r) = {Head(r)} \cup ToSet(Tail(r)) /\ Sorted(P, Tail(r))
    BY <1>1, AtFront DEF Line
  <2> QED BY <1>1, <2>1 DEF Line, Before
<1>2. ASSUME k # <<>>, Head(k) \notin P PROVE Line(P, e, r, Tail(k))
  <2>1. ToSet(k) = {Head(k)} \cup ToSet(Tail(k)) /\ Sorted(P, Tail(k))
    BY <1>2, AtFront DEF Line
  <2> QED BY <1>2, <2>1 DEF Line, Before
<1> QED BY <1>1, <1>2

(* The first of one place goes to the end of the next.                     *)
LEMMA LineMove ==
  ASSUME NEW P, NEW e \in Seq(Nat), NEW r \in Seq(Nat), NEW k \in Seq(Nat),
         Line(P, e, r, k)
  PROVE  /\ r # <<>> => Line(P, Append(e, Head(r)), Tail(r), k)
         /\ k # <<>> => Line(P, e, Append(r, Head(k)), Tail(k))
<1>1. ASSUME r # <<>> PROVE Line(P, Append(e, Head(r)), Tail(r), k)
  <2>1. PICK h \in Nat : h = Head(r) BY <1>1, AtFront
  <2>2. /\ ToSet(r) = {h} \cup ToSet(Tail(r)) /\ Sorted(P, Tail(r))
        /\ h \in P => \A y \in ToSet(Tail(r)) \cap P : h < y
    BY <1>1, <2>1, AtFront DEF Line
  <2>3. ToSet(Append(e, h)) = ToSet(e) \cup {h} BY AtEnd
  <2>4. h \in P => \A y \in ToSet(e) \cap P : y < h BY <2>2 DEF Line, Before
  <2>5. Sorted(P, Append(e, h)) BY <2>4, AtEnd DEF Line
  <2>6. Line(P, Append(e, h), Tail(r), k)
    BY <2>2, <2>3, <2>5 DEF Line, Before
  <2> QED BY <2>1, <2>6
<1>2. ASSUME k # <<>> PROVE Line(P, e, Append(r, Head(k)), Tail(k))
  <2>1. PICK h \in Nat : h = Head(k) BY <1>2, AtFront
  <2>2. /\ ToSet(k) = {h} \cup ToSet(Tail(k)) /\ Sorted(P, Tail(k))
        /\ h \in P => \A y \in ToSet(Tail(k)) \cap P : h < y
    BY <1>2, <2>1, AtFront DEF Line
  <2>3. ToSet(Append(r, h)) = ToSet(r) \cup {h} BY AtEnd
  <2>4. h \in P => \A y \in ToSet(r) \cap P : y < h BY <2>2 DEF Line, Before
  <2>5. Sorted(P, Append(r, h)) BY <2>4, AtEnd DEF Line
  <2>6. Line(P, e, Append(r, h), Tail(k))
    BY <2>2, <2>3, <2>5 DEF Line, Before
  <2> QED BY <2>1, <2>6
<1> QED BY <1>1, <1>2

-----------------------------------------------------------------------------
(* The invariants. *)

Datagram == [socket : Sockets, kind : Kinds]

Typed ==
  /\ turn \in Nat \ {0} /\ stop_listen \in BOOLEAN
  /\ m_interfaces \in Seq(1..Interfaces)
  /\ kernel \in [Sockets -> Seq(Nat)] /\ raw \in [1..Interfaces -> Seq(Nat)]
  /\ m_packets \in Seq(Nat) /\ printed \in Seq(Nat) /\ handled \in Seq(Nat)
  /\ arrived \in Seq(Datagram)

(* An interface is opened once.                                            *)
Opened ==
  /\ pc = "setup" => /\ turn <= Interfaces
                     /\ \A k \in DOMAIN m_interfaces : m_interfaces[k] < turn
  /\ \A j, k \in DOMAIN m_interfaces : m_interfaces[j] = m_interfaces[k] => j = k

(* What queues hold has arrived, where they say.                           *)
Placed ==
  /\ \A s \in Sockets : \A n \in ToSet(kernel[s]) :
       n \in DOMAIN arrived /\ On(s, n)
  /\ \A i \in 1..Interfaces : \A n \in ToSet(raw[i]) :
       n \in DOMAIN arrived /\ arrived[n].socket[1] = i
  /\ ToSet(handled) \cup ToSet(printed) \cup ToSet(m_packets) \subseteq DOMAIN arrived
  /\ late \subseteq DOMAIN arrived

End(s) == IF s[2] = "rtp" THEN printed \o m_packets ELSE handled
PacketsOf(s) == {n \in DOMAIN arrived : PacketOf(s, n)}
InLine(s) == Line(PacketsOf(s), End(s), raw[s[1]], kernel[s])

IsReport(n) == arrived[n].socket[2] = "rtcp" /\ n \notin old

Rounds ==
  /\ pc = "process" => turn > 2 * Len(m_interfaces)
  /\ pc \in {"poll", "process"} /\ ~stop_listen =>
       \A k \in DOMAIN m_interfaces : 2 * k - 1 < turn =>
         \A n \in ToSet(kernel[<<m_interfaces[k], "rtp">>]) : n \notin late
  /\ pc = "poll" =>
       \A k \in DOMAIN m_interfaces : turn <= 2 * k - 1 =>
         \A n \in ToSet(raw[m_interfaces[k]]) : ~IsReport(n)
  /\ \A i \in 1..Interfaces : \A a, b \in DOMAIN raw[i] :
       a < b /\ IsReport(raw[i][a]) => arrived[raw[i][b]].socket[2] # "rtp"

-----------------------------------------------------------------------------
(* The steps. *)

(* A socket is that of an interface, for RTP or for RTCP. *)
LEMMA SocketParts ==
  ASSUME NEW s \in Sockets
  PROVE  s[1] \in 1..Interfaces /\ s[2] \in {"rtp", "rtcp"} /\ s = <<s[1], s[2]>>
  BY DEF Sockets

(* An open interface is one of those given.                                *)
LEMMA OpenInterface ==
  ASSUME Typed, NEW k \in DOMAIN m_interfaces
  PROVE  m_interfaces[k] \in 1..Interfaces
<1>1. PICK I : I = 1..Interfaces OBVIOUS
<1>2. m_interfaces \in Seq(I) BY <1>1 DEF Typed
<1>3. m_interfaces[k] \in I BY <1>2
<1> QED BY <1>1, <1>3

(* The socket being polled.                                                *)
LEMMA SocketTurn ==
  ASSUME Typed, Polling
  PROVE  /\ SocketAt(turn) \in Sockets
         /\ \E k \in DOMAIN m_interfaces :
              \/ turn = 2 * k - 1 /\ SocketAt(turn) = <<m_interfaces[k], "rtp">>
              \/ turn = 2 * k /\ SocketAt(turn) = <<m_interfaces[k], "rtcp">>
<1>1. PICK n \in Nat : n = Len(m_interfaces) BY DEF Typed
<1>2. turn \in Nat \ {0} /\ turn <= 2 * n /\ DOMAIN m_interfaces = 1..n
  BY <1>1 DEF Typed, Polling
<1>3. PICK k \in Int : k = (turn + 1) \div 2 BY <1>2
<1>4. k \in 1..n /\ \/ turn = 2 * k - 1 /\ turn % 2 = 1
                    \/ turn = 2 * k /\ turn % 2 = 0
  BY <1>2, <1>3
<1>5. SocketAt(turn) = <<m_interfaces[k], IF turn % 2 = 1 THEN "rtp" ELSE "rtcp">>
  BY <1>3 DEF SocketAt
<1>6. m_interfaces[k] \in 1..Interfaces BY <1>2, <1>4, OpenInterface
<1> QED BY <1>2, <1>4, <1>5, <1>6 DEF Sockets

(* A set of natural numbers has a least one.                               *)
LEMMA LeastNumber ==
  ASSUME NEW T \in SUBSET Nat, T # {}
  PROVE  \E n \in T : \A m \in T : n <= m
<1>1. \E n \in T : \A m \in T : <<m, n>> \notin OpToRel(<, Nat)
  BY NatLessThanWellFounded, WFMin
<1>2. ASSUME NEW n \in T, NEW m \in T, <<m, n>> \notin OpToRel(<, Nat)
      PROVE  n <= m
  <2>1. ~(m < n) BY <1>2 DEF OpToRel
  <2> QED BY <2>1
<1> QED BY <1>1, <1>2

(* The queue being processed.                                              *)
LEMMA QueueTurn ==
  ASSUME Typed, NonEmpty # {}
  PROVE  /\ FrontQueue \in 1..Interfaces /\ raw[FrontQueue] # <<>>
         /\ \E k \in DOMAIN m_interfaces : m_interfaces[k] = FrontQueue
<1>1. NonEmpty \in SUBSET Nat BY DEF Typed, NonEmpty
<1>2. \E k \in NonEmpty : \A j \in NonEmpty : k <= j BY <1>1, LeastNumber, Zenon
<1>3. PICK k \in NonEmpty : FrontQueue = m_interfaces[k] BY <1>2 DEF FrontQueue
<1>4. k \in DOMAIN m_interfaces /\ raw[m_interfaces[k]] # <<>> BY DEF NonEmpty
<1>5. m_interfaces[k] \in 1..Interfaces BY <1>4, OpenInterface
<1> QED BY <1>3, <1>4, <1>5

(* A packet received: it goes from the socket to the interface's queue,    *)
(* unless it is empty.                                                     *)
LEMMA ReceiveEffect ==
  ASSUME Typed, Receive
  PROVE  LET S == SocketAt(turn)
             h == Head(kernel[S])
             empty == Kind(h) = "empty"
         IN  /\ S \in Sockets /\ kernel[S] # <<>> /\ h \in Nat
             /\ kernel' \in [Sockets -> Seq(Nat)]
             /\ raw' \in [1..Interfaces -> Seq(Nat)]
             /\ \A s \in Sockets :
                  kernel'[s] = IF s = S THEN Tail(kernel[s]) ELSE kernel[s]
             /\ \A i \in 1..Interfaces :
                  raw'[i] = IF i = S[1] /\ ~empty THEN Append(raw[i], h) ELSE raw[i]
<1> DEFINE S == SocketAt(turn)
           h == Head(kernel[S])
<1>1. S \in Sockets BY SocketTurn DEF Receive
<1>2. /\ kernel[S] # <<>> /\ kernel' = [kernel EXCEPT ![S] = Tail(@)]
      /\ raw' = IF Kind(h) = "empty" THEN raw
                ELSE [raw EXCEPT ![S[1]] = Append(@, h)]
  BY DEF Receive
<1> HIDE DEF S
<1>3. kernel[S] \in Seq(Nat) BY <1>1 DEF Typed
<1>4. h \in Nat /\ Tail(kernel[S]) \in Seq(Nat) BY <1>2, <1>3, AtFront
<1>5. kernel' \in [Sockets -> Seq(Nat)] BY <1>2, <1>4 DEF Typed
<1>6. \A s \in Sockets : kernel'[s] = IF s = S THEN Tail(kernel[s]) ELSE kernel[s]
  BY <1>2 DEF Typed
<1> HIDE DEF h
<1>7. S[1] \in 1..Interfaces BY <1>1, SocketParts
<1>8. Append(raw[S[1]], h) \in Seq(Nat) BY <1>4, <1>7 DEF Typed
<1>9. raw' \in [1..Interfaces -> Seq(Nat)] BY <1>2, <1>8 DEF Typed
<1>10. \A i \in 1..Interfaces :
         raw'[i] = IF i = S[1] /\ ~(Kind(h) = "empty") THEN Append(raw[i], h) ELSE raw[i]
  BY <1>2, <1>7 DEF Typed
<1> QED BY <1>1, <1>2, <1>4, <1>5, <1>6, <1>9, <1>10 DEF S, h

(* A packet processed: it leaves the queue of its interface.               *)
LEMMA ProcessEffect ==
  ASSUME Typed, Process
  PROVE  LET F == FrontQueue
             h == Head(raw[F])
         IN  /\ F \in 1..Interfaces /\ raw[F] # <<>> /\ h \in Nat
             /\ raw' \in [1..Interfaces -> Seq(Nat)]
             /\ \A i \in 1..Interfaces :
                  raw'[i] = IF i = F THEN Tail(raw[i]) ELSE raw[i]
             /\ handled' = Append(handled, h) /\ handled' \in Seq(Nat)
             /\ m_packets' \in Seq(Nat)
             /\ m_packets' = IF arrived[h].socket[2] = "rtp" /\ Kind(h) = "packet"
                             THEN Append(m_packets, h) ELSE m_packets
<1> DEFINE F == FrontQueue
           h == Head(raw[F])
<1>1. F \in 1..Interfaces /\ raw[F] # <<>> BY QueueTurn DEF Process
<1>2. /\ raw' = [raw EXCEPT ![F] = Tail(@)]
      /\ handled' = Append(handled, h)
      /\ m_packets' = IF arrived[h].socket[2] = "rtp" /\ Kind(h) = "packet"
                      THEN Append(m_packets, h) ELSE m_packets
  BY DEF Process
<1> HIDE DEF F
<1>3. raw[F] \in Seq(Nat) BY <1>1 DEF Typed
<1>4. h \in Nat /\ Tail(raw[F]) \in Seq(Nat) BY <1>1, <1>3, AtFront
<1>5. raw' \in [1..Interfaces -> Seq(Nat)] BY <1>2, <1>4 DEF Typed
<1>6. \A i \in 1..Interfaces : raw'[i] = IF i = F THEN Tail(raw[i]) ELSE raw[i]
  BY <1>2 DEF Typed
<1> HIDE DEF h
<1>7. handled' \in Seq(Nat) /\ m_packets' \in Seq(Nat) BY <1>2, <1>4 DEF Typed
<1> QED BY <1>1, <1>2, <1>4, <1>5, <1>6, <1>7 DEF F, h

(* A datagram arrived: it is given the next number, and the others keep    *)
(* theirs.                                                                 *)
LEMMA ArriveEffect ==
  ASSUME Typed, NEW s0 \in Sockets, NEW kind \in Kinds, Arrive(s0, kind)
  PROVE  LET x == Len(arrived) + 1
         IN  /\ x \in Nat \ {0} /\ DOMAIN arrived = 1..(x - 1)
             /\ DOMAIN arrived' = DOMAIN arrived \cup {x}
             /\ arrived' \in Seq(Datagram)
             /\ \A n \in DOMAIN arrived : n < x /\ arrived'[n] = arrived[n]
             /\ arrived'[x].socket = s0 /\ arrived'[x].kind = kind
             /\ kernel' \in [Sockets -> Seq(Nat)]
             /\ \A s \in Sockets :
                  kernel'[s] = IF s = s0 THEN Append(kernel[s], x) ELSE kernel[s]
<1> DEFINE x == Len(arrived) + 1
<1>1. PICK d \in Datagram : d = [socket |-> s0, kind |-> kind] BY DEF Datagram
<1>2. d.socket = s0 /\ d.kind = kind BY <1>1
<1>3. arrived \in Seq(Datagram) BY DEF Typed
<1>4. arrived' = Append(arrived, d) BY <1>1 DEF Arrive
<1>5. PICK n \in Nat : n = Len(arrived) BY <1>3
<1>6. /\ arrived' \in Seq(Datagram) /\ DOMAIN arrived = 1..n
      /\ DOMAIN arrived' = 1..(n + 1) /\ Len(arrived') = n + 1
      /\ \A i \in 1..n : arrived'[i] = arrived[i]
      /\ arrived'[n + 1] = d
  BY <1>3, <1>4, <1>5
<1>7. 1..(n + 1) = (1..n) \cup {n + 1} /\ \A i \in 1..n : i < n + 1 OBVIOUS
<1>8. kernel' = [kernel EXCEPT ![s0] = Append(@, n + 1)]
  BY <1>6 DEF Arrive
<1>9. Append(kernel[s0], n + 1) \in Seq(Nat) BY DEF Typed
<1>10. kernel' \in [Sockets -> Seq(Nat)] BY <1>8, <1>9 DEF Typed
<1>11. \A s \in Sockets :
         kernel'[s] = IF s = s0 THEN Append(kernel[s], n + 1) ELSE kernel[s]
  BY <1>8 DEF Typed
<1> QED BY <1>2, <1>5, <1>6, <1>7, <1>10, <1>11

(* What was fetched can still be printed or fetched, in the same order.    *)
LEMMA FetchEffect ==
  ASSUME Typed, Fetch
  PROVE  /\ printed' \in Seq(Nat) /\ m_packets' \in Seq(Nat)
         /\ printed' \o m_packets' = printed \o m_packets
         /\ ToSet(printed') \cup ToSet(m_packets') = ToSet(printed) \cup ToSet(m_packets)
<1>1. /\ m_packets # <<>> /\ printed' = Append(printed, Head(m_packets))
      /\ m_packets' = Tail(m_packets)
  BY DEF Fetch
<1>2. PICK p \in Seq(Nat) : p = printed BY DEF Typed
<1>3. PICK m \in Seq(Nat) : m = m_packets BY DEF Typed
<1>4. m # <<>> BY <1>1, <1>3
<1>5. Head(m) \in Nat /\ Tail(m) \in Seq(Nat) BY <1>4
<1>6. Append(p, Head(m)) \o Tail(m) = p \o m BY SMTT(30), <1>4, <1>5
<1>7. ToSet(m) = {Head(m)} \cup ToSet(Tail(m)) BY <1>4, AtFront
<1>8. /\ Append(p, Head(m)) \in Seq(Nat)
      /\ ToSet(Append(p, Head(m))) = ToSet(p) \cup {Head(m)}
  BY <1>5, AtEnd
<1> QED BY <1>1, <1>2, <1>3, <1>5, <1>6, <1>7, <1>8

-----------------------------------------------------------------------------
(* Types and the interfaces opened. *)

(* What the steps that move no packet leave alone.                         *)
Still == UNCHANGED <<queues, arrived, handled>>

(* add_interface appends the interface if it could be opened and leaves    *)
(* the list otherwise.                                                     *)
LEMMA AddEffect ==
  ASSUME Typed, Opened, NEW opened \in BOOLEAN, AddInterface(opened)
  PROVE  /\ turn' \in Nat \ {0} /\ m_interfaces' \in Seq(1..Interfaces)
         /\ Opened' /\ pc' \in {"setup", "loop"}
<1>1. /\ turn \in Nat \ {0} /\ turn <= Interfaces /\ pc = "setup"
      /\ \A k \in DOMAIN m_interfaces : m_interfaces[k] < turn
      /\ turn' = turn + 1
      /\ pc' = IF turn = Interfaces THEN "loop" ELSE "setup"
  BY DEF Typed, Opened, AddInterface
<1>2. Interfaces \in Nat BY SessionAssumption
<1>3. PICK I : I = 1..Interfaces OBVIOUS
<1>4. turn \in I BY <1>1, <1>2, <1>3
<1>5. m_interfaces \in Seq(I) BY <1>3 DEF Typed
<1>6. PICK n \in Nat : n = Len(m_interfaces) BY <1>5
<1>7. DOMAIN m_interfaces = 1..n BY <1>5, <1>6
<1>8. CASE m_interfaces' = m_interfaces
  <2>1. \A k \in DOMAIN m_interfaces : m_interfaces[k] < turn + 1
    <3> TAKE k \in DOMAIN m_interfaces
    <3>1. m_interfaces[k] \in 1..Interfaces BY OpenInterface
    <3> QED BY <1>1, <1>2, <3>1
  <2> QED BY <1>1, <1>2, <1>3, <1>5, <1>8, <2>1 DEF Opened
<1>9. CASE m_interfaces' = Append(m_interfaces, turn)
  <2>1. /\ m_interfaces' \in Seq(I) /\ DOMAIN m_interfaces' = 1..(n + 1)
        /\ \A k \in 1..n : m_interfaces'[k] = m_interfaces[k]
        /\ m_interfaces'[n + 1] = turn
    BY <1>4, <1>5, <1>6, <1>7, <1>9
  <2>2. \A k \in 1..n : m_interfaces[k] \in Int /\ m_interfaces[k] < turn
    <3> TAKE k \in 1..n
    <3>1. m_interfaces[k] \in 1..Interfaces BY <1>7, OpenInterface
    <3> QED BY <1>1, <1>2, <1>7, <3>1
  <2>3. \A k \in 1..(n + 1) : k \in 1..n \/ k = n + 1 OBVIOUS
  <2>4. \A k \in 1..(n + 1) : m_interfaces'[k] < turn + 1
    <3> TAKE k \in 1..(n + 1)
    <3>1. CASE k \in 1..n BY <1>1, <2>1, <2>2, <3>1
    <3>2. CASE k = n + 1 BY <1>1, <2>1, <3>2
    <3> QED BY <2>3, <3>1, <3>2
  <2>5. \A j, k \in 1..(n + 1) : m_interfaces'[j] = m_interfaces'[k] => j = k
    <3>1. \A k \in 1..n : m_interfaces'[k] # turn BY <1>1, <2>1, <2>2
    <3>2. \A j, k \in 1..n : m_interfaces'[j] = m_interfaces'[k] => j = k
      BY <1>7, <2>1 DEF Opened
    <3> QED BY <2>1, <2>3, <3>1, <3>2
  <2>6. turn # Interfaces => turn + 1 <= Interfaces BY <1>1, <1>2
  <2> QED BY <1>1, <1>3, <2>1, <2>4, <2>5, <2>6 DEF Opened
<1> QED BY <1>8, <1>9 DEF AddInterface

(* The steps of the server that move no packet.                            *)
LEMMA StillSteps ==
  ASSUME \/ \E opened \in BOOLEAN : AddInterface(opened)
         \/ Loop \/ FetchNothing \/ PollFails \/ NextSocket \/ InterruptPoll
         \/ PollDone \/ ProcessDone \/ Interrupt \/ UNCHANGED vars
  PROVE  Still
  BY DEF AddInterface, Loop, FetchNothing, PollFails, NextSocket, InterruptPoll,
         PollDone, ProcessDone, Interrupt, vars, queues, history, Still

(* Every step keeps the types, and the interfaces opened are listed once   *)
(* each.                                                                   *)
LEMMA TypedStep ==
  ASSUME Typed, Opened, [Next]_vars
  PROVE  Typed' /\ Opened'
<1>1. ASSUME NEW opened \in BOOLEAN, AddInterface(opened) PROVE Typed' /\ Opened'
  <2>1. Still /\ stop_listen' = stop_listen BY <1>1, StillSteps DEF AddInterface
  <2>2. turn' \in Nat \ {0} /\ m_interfaces' \in Seq(1..Interfaces) /\ Opened'
    BY <1>1, AddEffect
  <2> QED BY <2>1, <2>2 DEF Typed, Still, queues
<1>2. ASSUME Loop \/ FetchNothing \/ PollFails \/ NextSocket \/ InterruptPoll
             \/ PollDone \/ ProcessDone \/ Interrupt \/ UNCHANGED vars
      PROVE  Typed' /\ Opened'
  <2>1. Still BY <1>2, StillSteps
  <2>4. turn' \in {turn, turn + 1, 1}
    BY <1>2 DEF Loop, FetchNothing, PollFails, NextSocket, InterruptPoll, PollDone,
                ProcessDone, Interrupt, vars
  <2>5. m_interfaces' = m_interfaces
    BY <1>2 DEF Loop, FetchNothing, PollFails, NextSocket, InterruptPoll, PollDone,
                ProcessDone, Interrupt, vars
  <2>6. stop_listen' = stop_listen \/ stop_listen' = TRUE
    <3>1. CASE Loop \/ FetchNothing \/ PollFails \/ NextSocket \/ PollDone \/ ProcessDone
      BY <3>1, Zenon DEF Loop, FetchNothing, PollFails, NextSocket, PollDone,
                         ProcessDone
    <3>2. CASE InterruptPoll \/ Interrupt
      BY <3>2, Zenon DEF InterruptPoll, Interrupt
    <3>3. CASE UNCHANGED vars BY <3>3, Zenon DEF vars
    <3> QED BY <1>2, <3>1, <3>2, <3>3
  <2>7. stop_listen' \in BOOLEAN BY <2>6, Zenon DEF Typed
  <2>8. turn \in Nat \ {0} BY DEF Typed
  <2>2. turn' \in Nat \ {0} BY <2>4, <2>8
  <2>3. pc' = "setup" => pc = "setup" /\ turn' = turn
    BY <1>2 DEF Loop, FetchNothing, PollFails, NextSocket, InterruptPoll, PollDone,
                ProcessDone, Interrupt, Polling, vars
  <2> QED BY <2>1, <2>2, <2>3, <2>5, <2>7 DEF Typed, Opened, Still, queues
<1>3. CASE Fetch
  <2>1. UNCHANGED <<pc, stop_listen, m_interfaces, turn, kernel, raw, arrived, handled>>
    BY <1>3 DEF Fetch, history
  <2>2. printed' \in Seq(Nat) /\ m_packets' \in Seq(Nat) BY <1>3, FetchEffect
  <2> QED BY <2>1, <2>2 DEF Typed, Opened
<1>4. CASE Receive
  <2>1. UNCHANGED <<pc, stop_listen, m_interfaces, turn, m_packets, printed,
                    arrived, handled>>
    BY <1>4 DEF Receive, history
  <2>2. kernel' \in [Sockets -> Seq(Nat)] /\ raw' \in [1..Interfaces -> Seq(Nat)]
    BY <1>4, ReceiveEffect
  <2> QED BY <2>1, <2>2 DEF Typed, Opened
<1>5. CASE Process
  <2>1. UNCHANGED <<pc, stop_listen, m_interfaces, turn, kernel, printed, arrived>>
    BY <1>5 DEF Process
  <2>2. /\ raw' \in [1..Interfaces -> Seq(Nat)] /\ handled' \in Seq(Nat)
        /\ m_packets' \in Seq(Nat)
    BY <1>5, ProcessEffect
  <2> QED BY <2>1, <2>2 DEF Typed, Opened
<1>6. ASSUME NEW s \in Sockets, NEW kind \in Kinds, Arrive(s, kind)
      PROVE  Typed' /\ Opened'
  <2>1. UNCHANGED <<pc, stop_listen, m_interfaces, turn, raw, m_packets, printed,
                    handled>>
    BY <1>6 DEF Arrive
  <2>2. kernel' \in [Sockets -> Seq(Nat)] /\ arrived' \in Seq(Datagram)
    BY <1>6, ArriveEffect
  <2> QED BY <2>1, <2>2 DEF Typed, Opened
<1> QED BY <1>1, <1>2, <1>3, <1>4, <1>5, <1>6 DEF Next, Server

-----------------------------------------------------------------------------
(* Queues hold what has arrived. *)

(* Every step keeps each datagram in a place of its own socket or          *)
(* interface.                                                              *)
LEMMA PlacedStep ==
  ASSUME Typed, Placed, [Next]_vars
  PROVE  Placed'
<1>1. ASSUME Still, late' = late PROVE Placed'
  BY <1>1 DEF Still, queues, Placed, On
<1>2. CASE FetchNothing
  <2>1. Still /\ late' = Queued(kernel) BY <1>2, StillSteps DEF FetchNothing
  <2>2. DOMAIN kernel = Sockets BY DEF Typed
  <2>3. Queued(kernel) \subseteq DOMAIN arrived BY <2>2 DEF Queued, Placed
  <2> QED BY <2>1, <2>3 DEF Still, queues, Placed, On
<1>3. CASE Fetch
  <2>1. UNCHANGED <<kernel, raw, arrived, handled, late>>
    BY <1>3 DEF Fetch, history
  <2>2. ToSet(printed') \cup ToSet(m_packets') = ToSet(printed) \cup ToSet(m_packets)
    BY <1>3, FetchEffect
  <2> QED BY <2>1, <2>2 DEF Placed, On
<1>4. CASE Receive
  <2> DEFINE S == SocketAt(turn)
             h == Head(kernel[S])
  <2>1. UNCHANGED <<m_packets, printed, arrived, handled, late>>
    BY <1>4 DEF Receive, history
  <2>2. /\ S \in Sockets /\ kernel[S] # <<>> /\ h \in Nat
        /\ \A s \in Sockets :
             kernel'[s] = IF s = S THEN Tail(kernel[s]) ELSE kernel[s]
        /\ \A i \in 1..Interfaces :
             raw'[i] = raw[i] \/ (i = S[1] /\ raw'[i] = Append(raw[i], h))
    BY <1>4, ReceiveEffect
  <2>3. kernel[S] \in Seq(Nat) BY <2>2 DEF Typed
  <2>4. ToSet(kernel[S]) = {h} \cup ToSet(Tail(kernel[S])) BY <2>2, <2>3, AtFront
  <2> HIDE DEF S
  <2>5. \A s \in Sockets : ToSet(kernel'[s]) \subseteq ToSet(kernel[s])
    BY <2>2, <2>4
  <2>6. h \in DOMAIN arrived /\ On(S, h) BY <2>2, <2>4 DEF Placed
  <2> HIDE DEF h
  <2>7. \A i \in 1..Interfaces :
          \/ ToSet(raw'[i]) = ToSet(raw[i])
          \/ i = S[1] /\ ToSet(raw'[i]) = ToSet(raw[i]) \cup {h}
    BY <2>2, AtEnd DEF Typed
  <2>8. arrived[h].socket[1] = S[1] BY <2>6 DEF On
  <2>9. \A s \in Sockets : \A n \in ToSet(kernel'[s]) :
          n \in DOMAIN arrived /\ On(s, n)
    BY <2>5 DEF Placed
  <2>10. \A i \in 1..Interfaces : \A n \in ToSet(raw'[i]) :
           n \in DOMAIN arrived /\ arrived[n].socket[1] = i
    BY <2>6, <2>7, <2>8 DEF Placed
  <2> QED BY <2>1, <2>9, <2>10 DEF Placed, On
<1>5. CASE Process
  <2> DEFINE F == FrontQueue
             h == Head(raw[F])
  <2>1. UNCHANGED <<kernel, printed, arrived, late>> BY <1>5 DEF Process
  <2>2. /\ F \in 1..Interfaces /\ raw[F] # <<>> /\ h \in Nat
        /\ \A i \in 1..Interfaces :
             raw'[i] = IF i = F THEN Tail(raw[i]) ELSE raw[i]
        /\ handled' = Append(handled, h)
        /\ m_packets' = Append(m_packets, h) \/ m_packets' = m_packets
    BY <1>5, ProcessEffect
  <2>3. raw[F] \in Seq(Nat) BY <2>2 DEF Typed
  <2>4. ToSet(raw[F]) = {h} \cup ToSet(Tail(raw[F])) BY <2>2, <2>3, AtFront
  <2>5. h \in DOMAIN arrived BY <2>2, <2>4 DEF Placed
  <2> HIDE DEF F, h
  <2>6. \A i \in 1..Interfaces : ToSet(raw'[i]) \subseteq ToSet(raw[i])
    BY <2>2, <2>4
  <2>7. /\ ToSet(handled') = ToSet(handled) \cup {h}
        /\ ToSet(m_packets') \subseteq ToSet(m_packets) \cup {h}
    BY <2>2, AtEnd DEF Typed
  <2> QED BY <2>1, <2>5, <2>6, <2>7 DEF Placed, On
<1>6. ASSUME NEW s0 \in Sockets, NEW kind \in Kinds, Arrive(s0, kind)
      PROVE  Placed'
  <2>1. PICK x \in Nat : x = Len(arrived) + 1 BY <1>6, ArriveEffect
  <2>2. UNCHANGED <<raw, m_packets, printed, handled, late>> BY <1>6 DEF Arrive
  <2>3. /\ DOMAIN arrived' = DOMAIN arrived \cup {x}
        /\ \A n \in DOMAIN arrived : arrived'[n] = arrived[n]
        /\ arrived'[x].socket = s0
        /\ \A s \in Sockets :
             kernel'[s] = IF s = s0 THEN Append(kernel[s], x) ELSE kernel[s]
    BY <1>6, <2>1, ArriveEffect
  <2>4. \A s \in Sockets : ToSet(kernel'[s])
          = IF s = s0 THEN ToSet(kernel[s]) \cup {x} ELSE ToSet(kernel[s])
    BY <2>3, AtEnd DEF Typed
  <2>5. \A s \in Sockets : \A n \in ToSet(kernel'[s]) :
          n \in DOMAIN arrived' /\ arrived'[n].socket = s
    <3> TAKE s \in Sockets
    <3> TAKE n \in ToSet(kernel'[s])
    <3>1. CASE n \in ToSet(kernel[s])
      <4>1. n \in DOMAIN arrived /\ arrived[n].socket = s
        BY <3>1 DEF Placed, On
      <4> QED BY <2>3, <4>1
    <3>2. CASE n \notin ToSet(kernel[s])
      <4>1. s = s0 /\ n = x BY <2>4, <3>2
      <4> QED BY <2>3, <4>1
    <3> QED BY <3>1, <3>2
  <2>6. \A i \in 1..Interfaces : \A n \in ToSet(raw[i]) :
          n \in DOMAIN arrived' /\ arrived'[n].socket[1] = i
    BY <2>3 DEF Placed
  <2> QED BY <2>2, <2>3, <2>5, <2>6 DEF Placed, On
<1>7. ASSUME \/ \E opened \in BOOLEAN : AddInterface(opened)
             \/ Loop \/ PollFails \/ NextSocket \/ InterruptPoll
             \/ PollDone \/ ProcessDone \/ Interrupt \/ UNCHANGED vars
      PROVE  Placed'
  <2>1. Still BY <1>7, StillSteps
  <2>2. late' = late
    BY <1>7 DEF AddInterface, Loop, PollFails, NextSocket, InterruptPoll, PollDone,
                ProcessDone, Interrupt, vars, history
  <2> QED BY <1>1, <2>1, <2>2
<1> QED BY <1>2, <1>3, <1>4, <1>5, <1>6, <1>7 DEF Next, Server

-----------------------------------------------------------------------------
(* Everything is in line. *)

(* The places of a socket hold sequences of packets. *)
LEMMA PlaceTypes ==
  ASSUME Typed, NEW s \in Sockets
  PROVE  End(s) \in Seq(Nat) /\ raw[s[1]] \in Seq(Nat) /\ kernel[s] \in Seq(Nat)
<1>1. printed \o m_packets \in Seq(Nat) BY Joined DEF Typed
<1> QED BY <1>1, SocketParts DEF Typed, End

(* A datagram that arrives is behind all others.                           *)
LEMMA ArriveInLine ==
  ASSUME Typed, Placed, NEW s \in Sockets, InLine(s),
         NEW s0 \in Sockets, NEW kind \in Kinds, Arrive(s0, kind)
  PROVE  InLine(s)'
<1>1. PICK x \in Nat : x = Len(arrived) + 1 BY ArriveEffect
<1>2. /\ DOMAIN arrived' = DOMAIN arrived \cup {x} /\ x \notin DOMAIN arrived
      /\ \A n \in DOMAIN arrived : n < x /\ arrived'[n] = arrived[n]
      /\ arrived'[x].socket = s0 /\ arrived'[x].kind = kind
      /\ kernel'[s] = IF s = s0 THEN Append(kernel[s], x) ELSE kernel[s]
  <2>1. /\ DOMAIN arrived' = DOMAIN arrived \cup {x} /\ DOMAIN arrived = 1..(x - 1)
        /\ \A n \in DOMAIN arrived : n < x /\ arrived'[n] = arrived[n]
        /\ arrived'[x].socket = s0 /\ arrived'[x].kind = kind
        /\ \A z \in Sockets :
             kernel'[z] = IF z = s0 THEN Append(kernel[z], x) ELSE kernel[z]
    BY <1>1, ArriveEffect
  <2>2. x \notin 1..(x - 1) OBVIOUS
  <2> QED BY <2>1, <2>2
<1>3. End(s)' = End(s) /\ raw' = raw BY DEF Arrive, End
<1> DEFINE P == PacketsOf(s)
<1>4. PICK e \in Seq(Nat) : e = End(s) BY PlaceTypes
<1>5. PICK r \in Seq(Nat) : r = raw[s[1]] BY PlaceTypes
<1>6. PICK k \in Seq(Nat) : k = kernel[s] BY PlaceTypes
<1>7. Line(P, e, r, k) BY <1>4, <1>5, <1>6 DEF InLine
<1>8. \A y \in ToSet(e) \cup ToSet(r) \cup ToSet(k) : y < x
  <2>1. ToSet(e) \subseteq DOMAIN arrived
    <3>1. ToSet(printed \o m_packets) = ToSet(printed) \cup ToSet(m_packets)
      BY Joined DEF Typed
    <3> QED BY <1>4, <3>1 DEF End, Placed
  <2>2. ToSet(r) \subseteq DOMAIN arrived BY <1>5, SocketParts DEF Placed
  <2>3. ToSet(k) \subseteq DOMAIN arrived BY <1>6 DEF Placed
  <2> QED BY <1>2, <2>1, <2>2, <2>3
<1>9. PacketsOf(s)' = IF s = s0 /\ kind = "packet" THEN P \cup {x} ELSE P
  BY <1>2 DEF PacketsOf, PacketOf, On, Kind
<1>10. x \notin P BY <1>2 DEF PacketsOf
<1> HIDE DEF P
<1>11. CASE s = s0 /\ kind = "packet"
  <2>1. Line(P \cup {x}, e, r, Append(k, x)) BY <1>7, <1>8, LineEnter
  <2> QED BY <1>2, <1>3, <1>4, <1>5, <1>6, <1>9, <1>11, <2>1 DEF InLine
<1>12. CASE s = s0 /\ kind # "packet"
  <2>1. Line(P, e, r, Append(k, x)) BY <1>7, <1>10, LinePut
  <2> QED BY <1>2, <1>3, <1>4, <1>5, <1>6, <1>9, <1>12, <2>1 DEF InLine
<1>13. CASE s # s0
  BY <1>2, <1>3, <1>4, <1>5, <1>6, <1>7, <1>9, <1>13 DEF InLine
<1> QED BY <1>11, <1>12, <1>13

(* A packet received goes from the socket to the end of the queue.         *)
LEMMA ReceiveInLine ==
  ASSUME Typed, Placed, NEW s \in Sockets, InLine(s), Receive
  PROVE  InLine(s)'
<1> DEFINE S == SocketAt(turn)
           P == PacketsOf(s)
<1>1. PICK h \in Nat : h = Head(kernel[S]) BY ReceiveEffect
<1>2. /\ S \in Sockets /\ kernel[S] # <<>>
      /\ kernel'[s] = IF s = S THEN Tail(kernel[s]) ELSE kernel[s]
      /\ \A i \in 1..Interfaces :
           raw'[i] = IF i = S[1] /\ ~(Kind(h) = "empty") THEN Append(raw[i], h)
                     ELSE raw[i]
  BY <1>1, ReceiveEffect
<1>3. raw'[s[1]] = IF s[1] = S[1] /\ ~(Kind(h) = "empty") THEN Append(raw[s[1]], h)
                   ELSE raw[s[1]]
  BY <1>2, SocketParts
<1>4. End(s)' = End(s) /\ PacketsOf(s)' = P
  BY DEF Receive, End, PacketsOf, PacketOf, On, Kind, history
<1>5. PICK e \in Seq(Nat) : e = End(s) BY PlaceTypes
<1>6. PICK r \in Seq(Nat) : r = raw[s[1]] BY PlaceTypes
<1>7. PICK k \in Seq(Nat) : k = kernel[s] BY PlaceTypes
<1>8. Line(P, e, r, k) BY <1>5, <1>6, <1>7 DEF InLine
<1>9. On(S, h)
  <2>1. kernel[S] \in Seq(Nat) BY <1>2 DEF Typed
  <2>2. h \in ToSet(kernel[S]) BY <1>1, <1>2, <2>1, AtFront
  <2> QED BY <1>2, <2>2 DEF Placed
<1>10. h \in P => s = S /\ Kind(h) # "empty"
  BY <1>9 DEF PacketsOf, PacketOf, On
<1> HIDE DEF P, S
<1>11. CASE s = S /\ Kind(h) # "empty"
  <2>1. Line(P, e, Append(r, h), Tail(k))
    BY <1>1, <1>2, <1>7, <1>8, <1>11, LineMove
  <2> QED BY <1>2, <1>3, <1>4, <1>5, <1>6, <1>7, <1>11, <2>1 DEF InLine
<1>12. CASE s = S /\ Kind(h) = "empty"
  <2>1. Line(P, e, r, Tail(k))
    BY <1>1, <1>2, <1>7, <1>8, <1>10, <1>12, LineDrop
  <2> QED BY <1>2, <1>3, <1>4, <1>5, <1>6, <1>7, <1>12, <2>1 DEF InLine
<1>13. CASE s # S
  <2>1. Line(P, e, Append(r, h), k) BY <1>8, <1>10, <1>13, LinePut
  <2> QED BY <1>2, <1>3, <1>4, <1>5, <1>6, <1>7, <1>8, <1>13, <2>1 DEF InLine
<1> QED BY <1>11, <1>12, <1>13

(* A packet processed goes from the queue to where its kind ends.          *)
LEMMA ProcessInLine ==
  ASSUME Typed, Placed, NEW s \in Sockets, InLine(s), Process
  PROVE  InLine(s)'
<1> DEFINE F == FrontQueue
           P == PacketsOf(s)
<1>1. PICK h \in Nat : h = Head(raw[F]) BY ProcessEffect
<1>2. /\ F \in 1..Interfaces /\ raw[F] # <<>>
      /\ \A i \in 1..Interfaces : raw'[i] = IF i = F THEN Tail(raw[i]) ELSE raw[i]
      /\ handled' = Append(handled, h)
      /\ m_packets' = IF arrived[h].socket[2] = "rtp" /\ Kind(h) = "packet"
                      THEN Append(m_packets, h) ELSE m_packets
  BY <1>1, ProcessEffect
<1>3. raw'[s[1]] = IF s[1] = F THEN Tail(raw[s[1]]) ELSE raw[s[1]]
  BY <1>2, SocketParts
<1>4. kernel' = kernel /\ PacketsOf(s)' = P /\ printed' = printed
  BY DEF Process, PacketsOf, PacketOf, On, Kind
<1>5. PICK e \in Seq(Nat) : e = End(s) BY PlaceTypes
<1>6. PICK r \in Seq(Nat) : r = raw[s[1]] BY PlaceTypes
<1>7. PICK k \in Seq(Nat) : k = kernel[s] BY PlaceTypes
<1>8. Line(P, e, r, k) BY <1>5, <1>6, <1>7 DEF InLine
<1>9. arrived[h].socket[1] = F
  <2>1. raw[F] \in Seq(Nat) BY <1>2 DEF Typed
  <2>2. h \in ToSet(raw[F]) BY <1>1, <1>2, <2>1, AtFront
  <2> QED BY <1>2, <2>2 DEF Placed
<1>10. h \in P => s[1] = F /\ arrived[h].socket = s /\ Kind(h) = "packet"
  BY <1>9 DEF PacketsOf, PacketOf, On
<1>11. /\ End(s)' = e \/ End(s)' = Append(e, h)
       /\ h \in P => End(s)' = Append(e, h)
  <2>1. CASE s[2] # "rtp" BY <1>2, <1>5, <2>1 DEF End
  <2>2. CASE s[2] = "rtp"
    <3>1. PICK p \in Seq(Nat) : p = printed BY DEF Typed
    <3>2. PICK m \in Seq(Nat) : m = m_packets BY DEF Typed
    <3>3. p \o Append(m, h) = Append(p \o m, h) BY SMTT(30)
    <3>4. e = p \o m /\ End(s)' = p \o m_packets'
      BY <1>4, <1>5, <2>2, <3>1, <3>2 DEF End
    <3>5. h \in P => m_packets' = Append(m, h) BY <1>2, <1>10, <2>2, <3>2
    <3>6. m_packets' = m \/ m_packets' = Append(m, h) BY <1>2, <3>2
    <3> QED BY <3>3, <3>4, <3>5, <3>6
  <2> QED BY <2>1, <2>2
<1> HIDE DEF P, F
<1>12. CASE s[1] = F
  <2>1. Line(P, Append(e, h), Tail(r), k)
    BY <1>1, <1>2, <1>6, <1>8, <1>12, LineMove
  <2>2. h \notin P => Line(P, e, Tail(r), k)
    BY <1>1, <1>2, <1>6, <1>8, <1>12, LineDrop
  <2> QED BY <1>3, <1>4, <1>6, <1>7, <1>11, <1>12, <2>1, <2>2 DEF InLine
<1>13. CASE s[1] # F
  <2>1. Line(P, Append(e, h), r, k) BY <1>8, <1>10, <1>13, LinePut
  <2> QED BY <1>3, <1>4, <1>6, <1>7, <1>8, <1>11, <1>13, <2>1 DEF InLine
<1> QED BY <1>12, <1>13

(* Every step keeps the datagrams of a socket in line from the handlers    *)
(* back to the kernel: one moves from the front of a place to the end of   *)
(* the next.                                                               *)
LEMMA InLineStep ==
  ASSUME Typed, Placed, NEW s \in Sockets, InLine(s), [Next]_vars
  PROVE  InLine(s)'
<1>1. ASSUME Still PROVE InLine(s)'
  BY <1>1 DEF Still, queues, InLine, End, PacketsOf, PacketOf, On, Kind
<1>2. CASE Fetch
  <2>1. UNCHANGED <<kernel, raw, arrived, handled>> BY <1>2 DEF Fetch, history
  <2>2. printed' \o m_packets' = printed \o m_packets BY <1>2, FetchEffect
  <2>3. End(s)' = End(s) BY <2>1, <2>2 DEF End
  <2>4. PacketsOf(s)' = PacketsOf(s) BY <2>1 DEF PacketsOf, PacketOf, On, Kind
  <2> QED BY <2>1, <2>3, <2>4 DEF InLine
<1>3. ASSUME NEW opened \in BOOLEAN, AddInterface(opened) PROVE InLine(s)'
  BY <1>1, <1>3, StillSteps
<1> QED BY <1>1, <1>2, <1>3, StillSteps, ArriveInLine, ReceiveInLine,
           ProcessInLine DEF Next, Server

-----------------------------------------------------------------------------
(* What a poll has done so far. *)

(* Every step keeps the order of a round: the sockets are read in turn,    *)
(* the RTP socket of an interface before its RTCP socket, and no packet is *)
(* queued behind a report of the same poll.                                *)
LEMMA RoundsStep ==
  ASSUME Typed, Opened, Placed, Rounds, [Next]_vars
  PROVE  Rounds'
<1>1. ASSUME UNCHANGED <<raw, arrived, old, kernel, late>>,
             pc' \notin {"poll", "process"}
      PROVE  Rounds'
  BY <1>1 DEF Rounds, IsReport
<1>2. ASSUME \/ \E opened \in BOOLEAN : AddInterface(opened)
             \/ Loop \/ PollFails \/ ProcessDone
      PROVE  Rounds'
  <2>1. pc' \notin {"poll", "process"}
    BY <1>2 DEF AddInterface, Loop, PollFails, ProcessDone
  <2>2. UNCHANGED <<raw, arrived, old, kernel, late>>
    BY <1>2 DEF AddInterface, Loop, PollFails, ProcessDone, queues, history
  <2> QED BY <1>1, <2>1, <2>2
<1>3. ASSUME UNCHANGED <<pc, turn, m_interfaces, raw, arrived, old, kernel, late>>,
             stop_listen => stop_listen'
      PROVE  Rounds'
  BY <1>3 DEF Rounds, IsReport
<1>4. CASE Interrupt \/ UNCHANGED vars
  <2>1. UNCHANGED <<pc, turn, m_interfaces, raw, arrived, old, kernel, late>>
    BY <1>4 DEF Interrupt, vars, queues, history
  <2>2. stop_listen => stop_listen' BY <1>4, Zenon DEF Interrupt, vars
  <2> QED BY <1>3, <2>1, <2>2
<1>5. CASE Fetch
  <2>1. UNCHANGED <<pc, turn, m_interfaces, raw, arrived, old, kernel, late>>
    BY <1>5 DEF Fetch, history
  <2>2. stop_listen' = stop_listen BY <1>5 DEF Fetch
  <2> QED BY <1>3, <2>1, <2>2
<1>6. CASE FetchNothing
  <2>1. /\ pc' = "poll" /\ turn' = 1 /\ old' = Queued(raw)
        /\ UNCHANGED <<m_interfaces, raw, arrived>>
    BY <1>6 DEF FetchNothing, queues
  <2>2. DOMAIN raw = 1..Interfaces BY DEF Typed
  <2>3. \A i \in 1..Interfaces : \A n \in ToSet(raw'[i]) : ~IsReport(n)'
    BY <2>1, <2>2 DEF Queued, IsReport
  <2>4. \A i \in 1..Interfaces : \A a \in DOMAIN raw'[i] : ~IsReport(raw[i][a])'
    <3> TAKE i \in 1..Interfaces
    <3> TAKE a \in DOMAIN raw'[i]
    <3>1. PICK n : n = raw'[i][a] OBVIOUS
    <3>2. n \in ToSet(raw'[i]) BY <3>1 DEF ToSet
    <3>3. ~IsReport(n)' BY <2>3, <3>2
    <3> QED BY <3>1, <3>3 DEF IsReport
  <2>5. \A k \in DOMAIN m_interfaces : ~(2 * k - 1 < 1)
    <3> TAKE k \in DOMAIN m_interfaces
    <3>1. PICK n \in Nat : n = Len(m_interfaces) BY DEF Typed
    <3>2. k \in 1..n BY <3>1 DEF Typed
    <3> QED BY <3>2
  <2>6. \A k \in DOMAIN m_interfaces : m_interfaces[k] \in 1..Interfaces
    BY OpenInterface
  <2> QED BY <2>1, <2>3, <2>4, <2>5, <2>6 DEF Rounds
<1>7. CASE PollDone
  <2>1. /\ pc = "poll" /\ pc' = "process" /\ ~(turn <= 2 * Len(m_interfaces))
        /\ UNCHANGED <<stop_listen, turn, m_interfaces, raw, arrived, old, kernel, late>>
    BY <1>7 DEF PollDone, Polling, queues, history
  <2>2. turn > 2 * Len(m_interfaces) BY <2>1 DEF Typed
  <2> QED BY <2>1, <2>2 DEF Rounds, IsReport
<1>8. CASE InterruptPoll
  <2>1. /\ pc = "poll" /\ pc' = "poll" /\ stop_listen' /\ turn' = turn + 1
        /\ UNCHANGED <<m_interfaces, raw, arrived, old, kernel, late>>
    BY <1>8 DEF InterruptPoll, Polling, queues, history
  <2>2. \A k \in DOMAIN m_interfaces : turn + 1 <= 2 * k - 1 => turn <= 2 * k - 1
    BY DEF Typed
  <2> QED BY <2>1, <2>2 DEF Rounds, IsReport
<1>9. CASE NextSocket
  <2>1. /\ Polling /\ pc = "poll" /\ pc' = "poll" /\ turn' = turn + 1
        /\ kernel[SocketAt(turn)] = <<>>
        /\ UNCHANGED <<stop_listen, m_interfaces, raw, arrived, old, kernel, late>>
    BY <1>9 DEF NextSocket, Polling, queues, history
  <2>2. \A k \in DOMAIN m_interfaces :
          /\ turn + 1 <= 2 * k - 1 => turn <= 2 * k - 1
          /\ 2 * k - 1 < turn + 1 => 2 * k - 1 < turn \/ turn = 2 * k - 1
    BY DEF Typed
  <2>3. PICK j \in DOMAIN m_interfaces :
          \/ turn = 2 * j - 1 /\ SocketAt(turn) = <<m_interfaces[j], "rtp">>
          \/ turn = 2 * j /\ SocketAt(turn) = <<m_interfaces[j], "rtcp">>
    BY <2>1, SocketTurn
  <2>4. \A k \in DOMAIN m_interfaces :
          turn = 2 * k - 1 => kernel[<<m_interfaces[k], "rtp">>] = <<>>
    <3> TAKE k \in DOMAIN m_interfaces
    <3>1. k \in Nat /\ j \in Nat BY DEF Typed
    <3>2. turn = 2 * k - 1 => turn = 2 * j - 1 /\ k = j BY <2>3, <3>1
    <3>3. turn = 2 * k - 1 => SocketAt(turn) = <<m_interfaces[k], "rtp">>
      <4>1. turn = 2 * k - 1 => turn # 2 * j BY <3>1
      <4> QED BY <2>3, <3>2, <4>1
    <3> QED BY <2>1, <3>3
  <2>5. ToSet(<<>>) = {} BY DEF ToSet
  <2>6. ~stop_listen => \A k \in DOMAIN m_interfaces : 2 * k - 1 < turn + 1 =>
          \A n \in ToSet(kernel[<<m_interfaces[k], "rtp">>]) : n \notin late
    BY <2>1, <2>2, <2>4, <2>5 DEF Rounds
  <2> QED BY <2>1, <2>2, <2>6 DEF Rounds, IsReport
<1>10. CASE Receive
  <2> DEFINE S == SocketAt(turn)
  <2>1. PICK h \in Nat : h = Head(kernel[S]) BY <1>10, ReceiveEffect
  <2>2. /\ S \in Sockets /\ kernel[S] # <<>>
        /\ \A s \in Sockets :
             kernel'[s] = IF s = S THEN Tail(kernel[s]) ELSE kernel[s]
        /\ \A i \in 1..Interfaces :
             raw'[i] = raw[i] \/ (i = S[1] /\ raw'[i] = Append(raw[i], h))
    BY <1>10, <2>1, ReceiveEffect
  <2>3. /\ Polling /\ pc = "poll"
        /\ UNCHANGED <<pc, stop_listen, turn, m_interfaces, arrived, old, late>>
    BY <1>10 DEF Receive, Polling, history
  <2>4. PICK j \in DOMAIN m_interfaces :
          \/ turn = 2 * j - 1 /\ S = <<m_interfaces[j], "rtp">>
          \/ turn = 2 * j /\ S = <<m_interfaces[j], "rtcp">>
    BY <2>3, SocketTurn
  <2> HIDE DEF S
  <2>5. \A s \in Sockets : ToSet(kernel'[s]) \subseteq ToSet(kernel[s])
    <3>1. kernel[S] \in Seq(Nat) BY <2>2 DEF Typed
    <3>2. ToSet(Tail(kernel[S])) \subseteq ToSet(kernel[S])
      BY <2>2, <3>1, AtFront
    <3> QED BY <2>2, <3>2
  <2>6. On(S, h)
    <3>1. kernel[S] \in Seq(Nat) BY <2>2 DEF Typed
    <3>2. h \in ToSet(kernel[S]) BY <2>1, <2>2, <3>1, AtFront
    <3> QED BY <2>2, <3>2 DEF Placed
  <2>7. \A k \in DOMAIN m_interfaces :
          /\ m_interfaces[k] \in 1..Interfaces
          /\ <<m_interfaces[k], "rtp">> \in Sockets
    BY OpenInterface DEF Sockets
  <2>8. ~stop_listen => \A k \in DOMAIN m_interfaces : 2 * k - 1 < turn =>
          \A n \in ToSet(kernel'[<<m_interfaces[k], "rtp">>]) : n \notin late
    BY <2>3, <2>5, <2>7 DEF Rounds
  <2>9. ASSUME NEW k \in DOMAIN m_interfaces, turn <= 2 * k - 1,
               NEW n \in ToSet(raw'[m_interfaces[k]])
        PROVE  ~IsReport(n)
    <3> DEFINE i == m_interfaces[k]
    <3>1. ~IsReport(n) \/ n \notin ToSet(raw[i]) BY <2>3, <2>9 DEF Rounds
    <3>2. CASE raw'[i] = raw[i] BY <2>9, <3>1, <3>2
    <3>3. CASE i = S[1] /\ raw'[i] = Append(raw[i], h)
      <4>1. raw[i] \in Seq(Nat) BY <2>7 DEF Typed
      <4>2. n \in ToSet(raw[i]) \cup {h} BY <2>9, <3>3, <4>1, AtEnd
      <4>3. S[1] = m_interfaces[j] BY <2>4
      <4>4. k = j BY <3>3, <4>3 DEF Opened
      <4>5. k \in Nat BY DEF Typed
      <4>6. turn # 2 * j BY <2>9, <4>4, <4>5
      <4>7. S[2] = "rtp" BY <2>4, <4>6
      <4>8. ~IsReport(h) BY <2>6, <4>7 DEF On, IsReport
      <4> QED BY <3>1, <4>2, <4>8
    <3> QED BY <2>2, <2>7, <3>2, <3>3
  <2>10. ASSUME NEW i \in 1..Interfaces, NEW a \in DOMAIN raw'[i],
                NEW b \in DOMAIN raw'[i], a < b, IsReport(raw'[i][a])
         PROVE  arrived[raw'[i][b]].socket[2] # "rtp"
    <3>1. CASE raw'[i] = raw[i] BY <2>10, <3>1 DEF Rounds
    <3>2. CASE i = S[1] /\ raw'[i] = Append(raw[i], h)
      <4>1. raw[i] \in Seq(Nat) BY DEF Typed
      <4>2. PICK q \in Seq(Nat) : q = raw[i] BY <4>1
      <4>3. PICK n \in Nat : n = Len(q) BY <4>2
      <4>4. /\ DOMAIN q = 1..n /\ DOMAIN raw'[i] = 1..(n + 1)
            /\ \A c \in 1..n : raw'[i][c] = q[c]
            /\ raw'[i][n + 1] = h
        BY <3>2, <4>2, <4>3
      <4>5. a \in 1..n BY <2>10, <4>4
      <4>6. b \in 1..n \/ b = n + 1 BY <4>4
      <4>7. CASE b \in 1..n
        <5>1. raw'[i][a] = q[a] /\ raw'[i][b] = q[b] BY <4>4, <4>5, <4>7
        <5>2. IsReport(q[a]) BY <2>10, <5>1
        <5>3. \A c, d \in DOMAIN q :
                c < d /\ IsReport(q[c]) => arrived[q[d]].socket[2] # "rtp"
          BY <4>2 DEF Rounds
        <5>4. arrived[q[b]].socket[2] # "rtp"
          BY <2>10, <4>4, <4>5, <4>7, <5>2, <5>3
        <5> QED BY <5>1, <5>4
      <4>8. CASE b = n + 1
        <5>1. q[a] \in ToSet(raw[i]) /\ IsReport(q[a])
          BY <2>10, <4>2, <4>4, <4>5 DEF ToSet
        <5>2. i = m_interfaces[j] BY <2>4, <3>2
        <5>3. j \in Nat BY DEF Typed
        <5>4. turn # 2 * j - 1
          <6>1. turn = 2 * j - 1 => turn <= 2 * j - 1 BY <5>3
          <6> QED BY <2>3, <5>1, <5>2, <6>1 DEF Rounds
        <5>5. S[2] = "rtcp" BY <2>4, <5>4
        <5> QED BY <2>6, <4>4, <4>8, <5>5 DEF On
      <4> QED BY <4>6, <4>7, <4>8
    <3> QED BY <2>2, <3>1, <3>2
  <2>11. \A n : IsReport(n)' = IsReport(n) BY <2>3 DEF IsReport
  <2> QED BY <2>3, <2>8, <2>9, <2>10, <2>11 DEF Rounds
<1>11. CASE Process
  <2> DEFINE F == FrontQueue
  <2>1. /\ F \in 1..Interfaces /\ raw[F] # <<>>
        /\ \A i \in 1..Interfaces : raw'[i] = IF i = F THEN Tail(raw[i]) ELSE raw[i]
    BY <1>11, ProcessEffect
  <2>2. /\ pc = "process"
        /\ UNCHANGED <<pc, stop_listen, turn, m_interfaces, arrived, old, kernel, late>>
    BY <1>11 DEF Process
  <2> HIDE DEF F
  <2>3. ASSUME NEW i \in 1..Interfaces, NEW a \in DOMAIN raw'[i],
               NEW b \in DOMAIN raw'[i], a < b, IsReport(raw'[i][a])
        PROVE  arrived[raw'[i][b]].socket[2] # "rtp"
    <3>1. CASE i # F BY <2>1, <2>3, <3>1 DEF Rounds
    <3>2. CASE i = F
      <4>1. PICK q \in Seq(Nat) : q = raw[i] BY DEF Typed
      <4>2. q # <<>> BY <2>1, <3>2, <4>1
      <4>3. PICK n \in Nat \ {0} : n = Len(q) BY <4>2
      <4>4. /\ DOMAIN q = 1..n /\ DOMAIN raw'[i] = 1..(n - 1)
            /\ \A c \in 1..(n - 1) : raw'[i][c] = q[c + 1]
        <5>1. raw'[i] = Tail(q) BY <2>1, <3>2, <4>1
        <5>2. PICK t : t = Tail(q) OBVIOUS
        <5>3. /\ DOMAIN q = 1..n /\ DOMAIN t = 1..(n - 1)
              /\ \A c \in 1..(n - 1) : t[c] = q[c + 1]
          BY <4>2, <4>3, <5>2
        <5> QED BY <5>1, <5>2, <5>3
      <4>5. a + 1 \in 1..n /\ b + 1 \in 1..n /\ a + 1 < b + 1
        <5>1. a \in 1..(n - 1) /\ b \in 1..(n - 1) BY <2>3, <4>4
        <5>2. \A x, y \in 1..(n - 1) :
                x < y => x + 1 \in 1..n /\ y + 1 \in 1..n /\ x + 1 < y + 1
          BY <4>3
        <5> QED BY <2>3, <5>1, <5>2
      <4>6. IsReport(q[a + 1]) BY <2>3, <4>4
      <4>7. arrived[q[b + 1]].socket[2] # "rtp"
        BY ZenonT(30), <4>1, <4>4, <4>5, <4>6 DEF Rounds
      <4> QED BY <4>4, <4>7
    <3> QED BY <3>1, <3>2
  <2>4. \A n : IsReport(n)' = IsReport(n) BY <2>2 DEF IsReport
  <2> QED BY <2>2, <2>3, <2>4 DEF Rounds
<1>12. ASSUME NEW s0 \in Sockets, NEW kind \in Kinds, Arrive(s0, kind)
       PROVE  Rounds'
  <2>1. PICK x \in Nat : x = Len(arrived) + 1 BY <1>12, ArriveEffect
  <2>2. UNCHANGED <<pc, stop_listen, turn, m_interfaces, raw, old, late>>
    BY <1>12 DEF Arrive
  <2>3. /\ DOMAIN arrived = 1..(x - 1)
        /\ \A n \in DOMAIN arrived : arrived'[n] = arrived[n]
        /\ \A s \in Sockets :
             kernel'[s] = IF s = s0 THEN Append(kernel[s], x) ELSE kernel[s]
    BY <1>12, <2>1, ArriveEffect
  <2>4. x \notin late
    <3>1. x \notin 1..(x - 1) OBVIOUS
    <3> QED BY <2>3, <3>1 DEF Placed
  <2>5. \A s \in Sockets : ToSet(kernel'[s]) \subseteq ToSet(kernel[s]) \cup {x}
    <3> TAKE s \in Sockets
    <3>1. PICK q \in Seq(Nat) : q = kernel[s] BY DEF Typed
    <3>2. ToSet(Append(q, x)) = ToSet(q) \cup {x} BY AtEnd
    <3>3. kernel'[s] = q \/ kernel'[s] = Append(q, x) BY <2>3, <3>1
    <3> QED BY <3>1, <3>2, <3>3
  <2>6. \A k \in DOMAIN m_interfaces :
          m_interfaces[k] \in 1..Interfaces /\ <<m_interfaces[k], "rtp">> \in Sockets
    BY OpenInterface DEF Sockets
  <2>7. pc \in {"poll", "process"} /\ ~stop_listen =>
          \A k \in DOMAIN m_interfaces : 2 * k - 1 < turn =>
            \A n \in ToSet(kernel'[<<m_interfaces[k], "rtp">>]) : n \notin late
    BY <2>4, <2>5, <2>6 DEF Rounds
  <2>8. \A i \in 1..Interfaces : \A a \in DOMAIN raw[i] :
          /\ raw[i][a] \in DOMAIN arrived
          /\ arrived'[raw[i][a]] = arrived[raw[i][a]]
          /\ IsReport(raw[i][a])' = IsReport(raw[i][a])
    <3> TAKE i \in 1..Interfaces
    <3> TAKE a \in DOMAIN raw[i]
    <3>1. raw[i][a] \in DOMAIN arrived BY DEF Placed, ToSet
    <3> QED BY <2>2, <2>3, <3>1 DEF IsReport
  <2>9. \A i \in 1..Interfaces : \A n \in ToSet(raw[i]) : IsReport(n)' => IsReport(n)
    <3> TAKE i \in 1..Interfaces
    <3> TAKE n \in ToSet(raw[i])
    <3>1. PICK a \in DOMAIN raw[i] : raw[i][a] = n BY DEF ToSet
    <3>2. IsReport(raw[i][a])' => IsReport(raw[i][a]) BY <2>8
    <3>3. raw' = raw BY <2>2
    <3>4. n = raw[i][a] BY <3>1
    <3> QED BY <2>2, <2>3, <3>4, <2>8 DEF IsReport
  <2>10. pc = "poll" => \A k \in DOMAIN m_interfaces : turn <= 2 * k - 1 =>
           \A n \in ToSet(raw[m_interfaces[k]]) : ~IsReport(n)'
    BY <2>6, <2>9 DEF Rounds
  <2>11. \A i \in 1..Interfaces : \A a, b \in DOMAIN raw[i] :
           a < b /\ IsReport(raw[i][a])' => arrived'[raw[i][b]].socket[2] # "rtp"
    BY <2>8 DEF Rounds
  <2>12. pc = "process" => turn > 2 * Len(m_interfaces) BY DEF Rounds
  <2> QED BY <2>2, <2>7, <2>10, <2>11, <2>12 DEF Rounds
<1> QED BY <1>2, <1>4, <1>5, <1>6, <1>7, <1>8, <1>9, <1>10, <1>11, <1>12
        DEF Next, Server

-----------------------------------------------------------------------------
(* The theorems. *)

IInv == Typed /\ Opened /\ Placed /\ (\A s \in Sockets : InLine(s)) /\ Rounds

(* Nothing has arrived, and no interface is open.                          *)
LEMMA InvariantInit == Init => IInv
<1> SUFFICES ASSUME Init PROVE IInv OBVIOUS
<1>0. <<>> \in Seq(Nat) OBVIOUS
<1>1. PICK none \in Seq(Nat) : none = <<>> BY <1>0, Zenon
<1>2. /\ kernel = [s \in Sockets |-> none] /\ raw = [i \in 1..Interfaces |-> none]
      /\ m_packets = none /\ printed = none /\ handled = none /\ late = {}
  BY <1>1 DEF Init
<1>3. arrived = <<>> /\ m_interfaces = <<>> /\ turn = 1 /\ pc = "setup"
      /\ stop_listen = FALSE
  BY DEF Init
<1>4. ToSet(none) = {} /\ DOMAIN none = {} /\ DOMAIN arrived = {}
      /\ DOMAIN m_interfaces = {} /\ none \o none = none
  BY <1>1, <1>3 DEF ToSet
<1>5. Typed
  <2>1. arrived \in Seq(Datagram) /\ m_interfaces \in Seq(1..Interfaces)
    BY <1>3
  <2>2. stop_listen \in BOOLEAN BY <1>3
  <2>3. turn \in Nat \ {0} BY <1>3
  <2> QED BY <1>2, <2>1, <2>2, <2>3 DEF Typed
<1>6. Opened
  <2>1. 1 <= Interfaces BY SessionAssumption
  <2> QED BY <1>3, <1>4, <2>1 DEF Opened
<1>7. Placed BY <1>2, <1>4 DEF Placed
<1>8. ASSUME NEW s \in Sockets PROVE InLine(s)
  <2>1. PacketsOf(s) = {} BY <1>4 DEF PacketsOf
  <2>2. End(s) = none BY <1>2, <1>4 DEF End
  <2>3. raw[s[1]] = none /\ kernel[s] = none BY <1>2, SocketParts
  <2>4. Line({}, none, none, none) BY <1>4 DEF Line, Sorted, Before
  <2> QED BY <2>1, <2>2, <2>3, <2>4 DEF InLine
<1>9. Rounds BY <1>2, <1>3, <1>4 DEF Rounds
<1> QED BY <1>5, <1>6, <1>7, <1>8, <1>9 DEF IInv

(* The conjuncts together are inductive. *)
LEMMA InvariantStep == IInv /\ [Next]_vars => IInv'
  BY TypedStep, PlacedStep, InLineStep, RoundsStep DEF IInv

(* What the queues of a session hold: numbers of datagrams that came in    *)
(* where the queue says; every packet of every socket in its line; and the *)
(* rounds of the poll.                                                     *)
THEOREM InvariantAlways == Spec => []IInv
  BY InvariantInit, InvariantStep, PTL DEF Spec

-----------------------------------------------------------------------------
(* A line read from its end to its entrance.                               *)
LEMMA LinesInOrder == IInv => EachOnceInOrder
<1> SUFFICES ASSUME IInv, NEW s \in Sockets
             PROVE  LET way == Way(s) IN
                    /\ \A n \in DOMAIN arrived : PacketOf(s, n) => n \in ToSet(way)
                    /\ \A i, j \in DOMAIN way :
                         i < j /\ PacketOf(s, way[i]) /\ PacketOf(s, way[j])
                           => way[i] < way[j]
  BY DEF EachOnceInOrder
<1>1. PICK e \in Seq(Nat) : e = End(s) BY PlaceTypes DEF IInv
<1>2. PICK r \in Seq(Nat) : r = raw[s[1]] BY PlaceTypes DEF IInv
<1>3. PICK k \in Seq(Nat) : k = kernel[s] BY PlaceTypes DEF IInv
<1>4. PICK P : P = PacketsOf(s) OBVIOUS
<1>5. Line(P, e, r, k) BY <1>1, <1>2, <1>3, <1>4 DEF IInv, InLine
<1>6. PICK t \in Seq(Nat) : t = e \o r BY Joined
<1>7. ToSet(t) = ToSet(e) \cup ToSet(r) /\ Sorted(P, t)
  BY <1>5, <1>6, Joined DEF Line
<1>8. Before(P, t, k) BY <1>5, <1>7 DEF Line, Before
<1>9. PICK way \in Seq(Nat) : way = t \o k BY Joined
<1>10. ToSet(way) = ToSet(e) \cup ToSet(r) \cup ToSet(k) /\ Sorted(P, way)
  BY <1>5, <1>7, <1>8, <1>9, Joined DEF Line
<1>11. Way(s) = way
  <2>1. Way(s) = End(s) \o raw[s[1]] \o kernel[s] BY DEF Way, End
  <2> QED BY <1>1, <1>2, <1>3, <1>6, <1>9, <2>1
<1>12. ToSet(way) \subseteq DOMAIN arrived
  <2>1. ToSet(e) \subseteq DOMAIN arrived
    <3>1. ToSet(printed \o m_packets) = ToSet(printed) \cup ToSet(m_packets)
      BY Joined DEF IInv, Typed
    <3> QED BY <1>1, <3>1 DEF End, IInv, Placed
  <2>2. ToSet(r) \subseteq DOMAIN arrived BY <1>2, SocketParts DEF IInv, Placed
  <2>3. ToSet(k) \subseteq DOMAIN arrived BY <1>3 DEF IInv, Placed
  <2> QED BY <1>10, <2>1, <2>2, <2>3
<1>13. \A i \in DOMAIN way : PacketOf(s, way[i]) => way[i] \in P
  BY <1>4, <1>12 DEF ToSet, PacketsOf
<1>14. \A i, j \in DOMAIN way :
         i < j /\ PacketOf(s, way[i]) /\ PacketOf(s, way[j]) => way[i] < way[j]
  BY <1>10, <1>13 DEF Sorted
<1>15. \A n \in DOMAIN arrived : PacketOf(s, n) => n \in ToSet(way)
  BY <1>4, <1>5, <1>10 DEF Line, PacketsOf
<1> QED BY <1>11, <1>14, <1>15

(* Whatever polls fail, and however the steps of the server, its signals   *)
(* and the arrivals mix: no packet is lost, printed twice or overtaken by  *)
(* a later one of its socket, on its way from the socket through the queue *)
(* of its interface and the one of the session to the application.         *)
THEOREM EachAlwaysOnceInOrder == Spec => []EachOnceInOrder
  BY InvariantAlways, LinesInOrder, PTL

(* What a step hands to its handler.                                       *)
LEMMA ReportLast ==
  ASSUME IInv, Process, ~stop_listen,
         arrived[Head(raw[FrontQueue])].socket[2] = "rtcp",
         Head(raw[FrontQueue]) \notin old,
         NEW m \in late, On(<<FrontQueue, "rtp">>, m)
  PROVE  ~Contains(raw[FrontQueue], m) /\ ~Contains(kernel[<<FrontQueue, "rtp">>], m)
<1>1. PICK F \in 1..Interfaces : F = FrontQueue BY QueueTurn DEF IInv, Process
<1>2. PICK k \in DOMAIN m_interfaces : m_interfaces[k] = F
  BY <1>1, QueueTurn DEF IInv, Process
<1>3. raw[F] # <<>> BY <1>1, QueueTurn DEF IInv, Process
<1>4. PICK q \in Seq(Nat) : q = raw[F] BY DEF IInv, Typed
<1>5. PICK c \in Seq(Nat) : c = kernel[<<F, "rtp">>] BY DEF IInv, Typed, Sockets
<1>6. IsReport(q[1]) BY <1>1, <1>3, <1>4 DEF IsReport
<1>7. 1 \in DOMAIN q /\ \A b \in DOMAIN q : b = 1 \/ 1 < b BY <1>3, <1>4
<1>8. \A b \in DOMAIN q : arrived[q[b]].socket[2] # "rtp"
  <2> TAKE b \in DOMAIN q
  <2>1. CASE b = 1 BY <1>6, <2>1 DEF IsReport
  <2>2. CASE 1 < b BY <1>4, <1>6, <1>7, <2>2 DEF IInv, Rounds
  <2> QED BY <1>7, <2>1, <2>2
<1>9. ~Contains(q, m)
  <2>1. arrived[m].socket[2] = "rtp" BY DEF On
  <2>2. \A b \in DOMAIN q : q[b] # m BY <1>8, <2>1
  <2> QED BY <2>2 DEF Contains
<1>10. 2 * k - 1 < turn
  <2>1. PICK n \in Nat : n = Len(m_interfaces) BY DEF IInv, Typed
  <2>2. k \in 1..n BY <2>1 DEF IInv, Typed
  <2>3. turn > 2 * n /\ turn \in Nat BY <2>1 DEF IInv, Typed, Rounds, Process
  <2> QED BY <2>2, <2>3
<1>11. m \notin ToSet(c)
  BY <1>2, <1>5, <1>10, Zenon DEF IInv, Rounds, Process
<1>12. ~Contains(c, m) BY <1>11 DEF Contains, ToSet
<1> QED BY <1>1, <1>4, <1>5, <1>9, <1>12

(* No step but Process hands a packet to its handler. *)
LEMMA OnlyProcessHandles ==
  ASSUME [Next]_vars, handled' # handled
  PROVE  Process
<1>1. CASE \E opened \in BOOLEAN : AddInterface(opened)
  BY <1>1 DEF AddInterface, history
<1>2. CASE Loop \/ Fetch \/ FetchNothing \/ Receive \/ PollFails \/ NextSocket
           \/ InterruptPoll \/ PollDone \/ ProcessDone \/ Interrupt
           \/ UNCHANGED vars
  BY <1>2 DEF Loop, Fetch, FetchNothing, Receive, PollFails, NextSocket,
              InterruptPoll, PollDone, ProcessDone, Interrupt, vars, history
<1>3. CASE \E s \in Sockets, kind \in Kinds : Arrive(s, kind) BY <1>3 DEF Arrive
<1> QED BY <1>1, <1>2, <1>3 DEF Next, Server

(* A sender report is never handled ahead of packets that its poll found:  *)
(* the statistics it is answered from are those of all packets that came   *)
(* before it.                                                              *)
THEOREM DataAlwaysBeforeReports == Spec => DataBeforeReports
<1>1. IInv /\ [Next]_vars =>
        [handled' # handled /\ ~stop_listen =>
           LET n == Head(raw[FrontQueue])
           IN  arrived[n].socket[2] = "rtcp" /\ n \notin old =>
                 \A m \in late :
                   On(<<FrontQueue, "rtp">>, m) =>
                     ~Contains(raw[FrontQueue], m)
                       /\ ~Contains(kernel[<<FrontQueue, "rtp">>], m)]_vars
  BY ReportLast, OnlyProcessHandles
<1> QED BY <1>1, InvariantAlways, PTL DEF Spec, DataBeforeReports
=============================================================================
