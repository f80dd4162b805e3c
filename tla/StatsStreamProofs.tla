------------------------- MODULE StatsStreamProofs -------------------------
(***************************************************************************)
(* The properties of StatsStream, for every width, stream and network, and *)
(* without its bounds.  Those that place a packet exactly assume that no   *)
(* late packet crosses a wrap-around (~AcrossWrap); the type invariant and *)
(* the bound on the lost fraction do not.  That the statistics never fall  *)
(* behind, whatever crosses, assumes that words have room for a cycle per  *)
(* packet; it is about receivers of so many packets.                       *)
(***************************************************************************)
EXTENDS StatsStream, SourceStatsLemmas, FiniteSetTheorems

(* Every variable keeps the type its declaration in the code gives it.     *)
THEOREM TypeCorrect == Spec => []TypeOK
<1>1. Init => TypeOK
  BY NewStatsType, Widths, FS_EmptySet
     DEF Init, TypeOK, FirstNumbers, NoReport, Word
<1>2. TypeOK /\ [Next]_vars => TypeOK'
  <2> SUFFICES ASSUME TypeOK, [Next]_vars PROVE TypeOK'
    OBVIOUS
  <2>1. ASSUME NEW accepted \in BOOLEAN, Send(accepted) PROVE TypeOK'
    BY <2>1 DEF TypeOK, Send, history
  <2>2. ASSUME NEW n \in net, Lose(n) PROVE TypeOK'
    BY <2>2 DEF TypeOK, Lose, history
  <2>3. ASSUME NEW n \in net, NEW keep \in BOOLEAN, Deliver(n, keep)
        PROVE  TypeOK'
    <3>1. n \in Nat BY DEF TypeOK
    <3>2. n % SeqMod \in Seq16 BY <3>1, Widths, DivMod DEF Seq16
    <3>3. /\ ProcessPacket(st, n % SeqMod) \in StatsType
          /\ AssignedSeq(st, n % SeqMod) \in Word
      BY <3>2, ProcessPacketType DEF TypeOK
    <3>4. IsFiniteSet(arrived \cup {n}) BY FS_AddElement DEF TypeOK
    <3>5. st' \in StatsType /\ given' \in [packet : Nat, ext : Word]
      BY <2>3, <3>1, <3>3 DEF Deliver
    <3>6. /\ next' \in Nat /\ net' \in SUBSET Nat
          /\ first' \in Nat /\ high' \in Nat /\ mark' \in Int
      BY <2>3, <3>1 DEF Deliver, TypeOK
    <3>7. arrived' \in SUBSET Nat /\ IsFiniteSet(arrived')
      BY <2>3, <3>1, <3>4 DEF Deliver, TypeOK
    <3>8. report' = report BY <2>3 DEF Deliver
    <3> QED BY <3>5, <3>6, <3>7, <3>8 DEF TypeOK
  <2>4. ASSUME FillReport PROVE TypeOK'
    <3>1. st' \in StatsType BY <2>4, ReportType DEF TypeOK, FillReport
    <3>2. report' \in [fractionlost : 0..255, packetslost : 0..(LostMod - 1),
                       exthighseqnr : Word]
      BY <2>4, ReportType DEF TypeOK, FillReport
    <3> QED BY <2>4, <3>1, <3>2, FS_EmptySet DEF TypeOK, FillReport
  <2>5. CASE UNCHANGED vars BY <2>5 DEF TypeOK, vars, history
  <2> QED BY <2>1, <2>2, <2>3, <2>4, <2>5 DEF Next
<1> QED BY <1>1, <1>2, PTL DEF Spec

(* However the network behaves, an interval in which numbers are missing   *)
(* has seen a packet, so the lost fraction is below one and fits a byte.   *)
THEOREM FractionAlwaysFits == Spec => []FractionBelowOne
<1> DEFINE Moved == st.exthighseqnr # st.saved_ext_seqnr => st.num_new_packets > 0
<1>1. Init => Moved BY DEF Init, NewStats
<1>2. TypeOK /\ Moved /\ [Next]_vars => Moved'
  <2> SUFFICES ASSUME TypeOK, Moved, [Next]_vars PROVE Moved'
    OBVIOUS
  <2>1. ASSUME NEW n \in net, NEW keep \in BOOLEAN, Deliver(n, keep)
        PROVE  Moved'
    <3>1. st'.num_new_packets = st.num_new_packets + 1
      BY <2>1, CountsUp DEF Deliver, TypeOK
    <3> QED BY <3>1 DEF TypeOK, StatsType
  <2>2. CASE FillReport BY <2>2 DEF FillReport, StartNewInterval, TypeOK, StatsType
  <2> QED BY <2>1, <2>2 DEF Next, Send, Lose, vars, history
<1>3. TypeOK /\ Moved => FractionBelowOne
  <2> SUFFICES ASSUME TypeOK, st.exthighseqnr = st.saved_ext_seqnr
               PROVE  ~(ExpectedInInterval(st) > 0)
    BY DEF FractionBelowOne
  <2>1. st.exthighseqnr \in Int BY Widths DEF TypeOK, StatsType, Word
  <2>2. ExpectedInInterval(st) = 0 % WordMod
    BY <2>1 DEF ExpectedInInterval, Minus32
  <2> QED BY <2>2, Widths
<1> QED BY <1>1, <1>2, <1>3, TypeCorrect, PTL DEF Spec

(* Counting is preserved: an arrival adds at most one number to the set    *)
(* and exactly one to the counter, and a report empties both.              *)
LEMMA CountingStep == TypeOK /\ Counting /\ [Next]_vars => Counting'
<1> SUFFICES ASSUME TypeOK, Counting, [Next]_vars PROVE Counting'
  OBVIOUS
<1>1. ASSUME NEW n \in net, NEW keep \in BOOLEAN, Deliver(n, keep)
      PROVE  Counting'
  <2>1. /\ st'.num_new_packets = st.num_new_packets + 1
        /\ st'.received_data
    BY <1>1, CountsUp DEF Deliver, TypeOK
  <2>3. Cardinality(arrived) \in Nat /\ Cardinality(arrived \cup {n}) \in Nat
    BY FS_AddElement, FS_CardinalityType DEF TypeOK
  <2>2. Cardinality(arrived \cup {n}) <= Cardinality(arrived) + 1
    <3>1. Cardinality(arrived \cup {n}) =
            IF n \in arrived THEN Cardinality(arrived) ELSE Cardinality(arrived) + 1
      BY FS_AddElement DEF TypeOK
    <3> QED BY <2>3, <3>1
  <2>4. Cardinality(arrived) <= st.num_new_packets /\ st.num_new_packets \in Nat
    BY DEF Counting, TypeOK, StatsType
  <2>5. arrived' = arrived \cup {n} BY <1>1 DEF Deliver
  <2>6. Cardinality(arrived') <= st'.num_new_packets
    BY <2>1, <2>2, <2>3, <2>4, <2>5
  <2> QED BY <2>1, <2>6 DEF Counting
<1>2. CASE FillReport
  <2>1. st'.num_new_packets = 0 /\ st'.received_data = st.received_data
    BY <1>2 DEF FillReport, StartNewInterval, TypeOK, StatsType
  <2>2. Cardinality(arrived') <= st'.num_new_packets
    BY <1>2, <2>1, FS_EmptySet DEF FillReport
  <2>3. st'.num_cycles = st.num_cycles
    BY <1>2 DEF FillReport, StartNewInterval, TypeOK, StatsType
  <2> QED BY <1>2, <2>1, <2>2, <2>3 DEF Counting, FillReport
<1>3. CASE UNCHANGED <<st, high, mark, arrived>>
  BY <1>3 DEF Counting
<1> QED BY <1>1, <1>2, <1>3 DEF Next, Send, Lose, vars, history

(* Tracking is preserved by every step.                                    *)
LEMMA TrackingStep ==
  ASSUME ~AcrossWrap
  PROVE  TypeOK /\ Counting /\ Tracking /\ [Next]_vars => Tracking'
<1> SUFFICES ASSUME TypeOK, Counting, Tracking, [Next]_vars PROVE Tracking'
  OBVIOUS
<1>1. ASSUME NEW n \in net, NEW keep \in BOOLEAN, Deliver(n, keep)
      PROVE  Tracking'
  <2>1. n \in Nat /\ n \in Int /\ st \in StatsType /\ high \in Int /\ first \in Nat
    BY DEF TypeOK
  <2>2. CASE ~st.received_data
    <3> DEFINE o == IF n % SeqMod = 0 THEN n - SeqMod ELSE n - (n % SeqMod)
    <3>1. st' = FirstPacket(st, n % SeqMod) BY <1>1, <2>2 DEF Deliver, ProcessPacket
    <3>2. /\ first' = n /\ high' = n /\ mark' = n - 1 /\ given'.packet = n
          /\ given'.ext = FirstPacket(st, n % SeqMod).exthighseqnr
      BY <1>1, <2>2 DEF Deliver, AssignedSeq
    <3>3. Origin' = o BY <3>2 DEF Origin
    <3>4. /\ st'.exthighseqnr = (n - o) % WordMod
          /\ st'.num_cycles = (n - (n % SeqMod) - o) % WordMod
          /\ st'.baseseqnr = (n - 1 - o) % WordMod
          /\ st'.saved_ext_seqnr = (n - 1 - o) % WordMod
      BY <2>1, <2>2, <3>1, FirstPacketExact DEF Counting
    <3>5. n - 1 <= n /\ n - (n - 1) < WordMod BY <2>1, Widths
    <3> HIDE DEF o
    <3> QED BY <3>1, <3>2, <3>3, <3>4, <3>5 DEF Tracking
  <2>3. CASE st.received_data
    <3>1. st' = LaterPacket(st, n % SeqMod) BY <1>1, <2>3 DEF Deliver, ProcessPacket
    <3>2. /\ first' = first /\ mark' = mark
          /\ high' = IF high > n THEN high ELSE n
          /\ given'.packet = n /\ given'.ext = ExtendedSeq(st, n % SeqMod)
      BY <1>1, <2>3 DEF Deliver, AssignedSeq
    <3>3. Origin' = Origin BY <3>2 DEF Origin
    <3>4. Origin \in Int /\ Origin % SeqMod = 0 BY <2>1, OriginType DEF Origin
    <3>5. /\ n >= high => 2 * (n - high) < SeqMod
          /\ n < high => /\ 2 * (high - n) <= SeqMod
                         /\ n - (n % SeqMod) = high - (high % SeqMod)
          /\ n - mark < WordMod
      BY <1>1, <2>3 DEF Deliver, Near
    <3>6. /\ st.exthighseqnr = (high - Origin) % WordMod
          /\ st.num_cycles = (high - (high % SeqMod) - Origin) % WordMod
      BY <2>3 DEF Tracking
    <3>7. /\ st'.exthighseqnr = (high' - Origin) % WordMod
          /\ st'.num_cycles = (high' - (high' % SeqMod) - Origin) % WordMod
          /\ ExtendedSeq(st, n % SeqMod) = (n - Origin) % WordMod
      BY <2>1, <3>1, <3>2, <3>4, <3>5, <3>6, LaterPacketExact
    <3>8. /\ st'.baseseqnr = st.baseseqnr
          /\ st'.saved_ext_seqnr = st.saved_ext_seqnr
      BY <2>1, <3>1, OtherFieldsKept
    <3>9. mark' <= high' /\ high' - mark' < WordMod
      BY <2>1, <2>3, <3>2, <3>5 DEF Tracking, TypeOK
    <3> QED BY <2>3, <3>2, <3>3, <3>7, <3>8, <3>9 DEF Tracking
  <2> QED BY <2>2, <2>3
<1>2. CASE FillReport
  <2>1. /\ st'.exthighseqnr = st.exthighseqnr /\ st'.num_cycles = st.num_cycles
        /\ st'.baseseqnr = st.baseseqnr /\ st'.saved_ext_seqnr = st.exthighseqnr
        /\ st'.received_data = st.received_data
    BY <1>2 DEF FillReport, StartNewInterval, TypeOK, StatsType
  <2>2. high - high < WordMod /\ high <= high BY Widths DEF TypeOK
  <2>3. Origin' = Origin BY <1>2 DEF FillReport, Origin
  <2> QED BY <1>2, <2>1, <2>2, <2>3 DEF FillReport, Tracking
<1>3. CASE UNCHANGED <<st, given, first, high, mark>>
  BY <1>3 DEF Tracking, Origin
<1> QED BY <1>1, <1>2, <1>3 DEF Next, Send, Lose, vars, history

(* TypeOK, Counting and Tracking together are an inductive invariant. *)
THEOREM TrackingCorrect ==
  ASSUME ~AcrossWrap
  PROVE  Spec => [](TypeOK /\ Counting /\ Tracking)
<1>1. Init => Counting /\ Tracking
  BY FS_EmptySet DEF Init, Counting, Tracking, NewStats
<1>2. TypeOK /\ Counting /\ Tracking /\ [Next]_vars => Counting' /\ Tracking'
  BY CountingStep, TrackingStep
<1> QED BY <1>1, <1>2, TypeCorrect, PTL DEF Spec

(* As long as nothing late crosses a wrap-around, the numbers that         *)
(* process_packet extends from 16 to 32 bits lie as far apart as the       *)
(* packets they belong to, whatever the network loses, duplicates or       *)
(* reorders.                                                               *)
THEOREM DistancesAlwaysPreserved ==
  ASSUME ~AcrossWrap
  PROVE  Spec => []DistancesPreserved
<1>1. TypeOK /\ Tracking => DistancesPreserved
  <2> SUFFICES ASSUME TypeOK, Tracking, st.received_data
               PROVE  /\ ExpectedTotal(st) = (high - first + 1) % WordMod
                      /\ Minus32(given.ext, st.baseseqnr)
                           = (given.packet - first + 1) % WordMod
    BY DEF DistancesPreserved
  <2>1. Origin \in Int /\ high \in Int /\ first \in Int /\ given.packet \in Int
    BY OriginType DEF TypeOK, Origin
  <2>2. first - 1 - Origin \in Int BY <2>1
  <2>3. \A x \in Int : (((x - Origin) % WordMod) - ((first - 1 - Origin) % WordMod))
                         % WordMod = (x - first + 1) % WordMod
    <3> SUFFICES ASSUME NEW x \in Int
                 PROVE  (((x - Origin) % WordMod) - ((first - 1 - Origin) % WordMod))
                          % WordMod = (x - first + 1) % WordMod
      OBVIOUS
    <3>1. x - Origin \in Int BY <2>1
    <3>2. (((x - Origin) % WordMod) - ((first - 1 - Origin) % WordMod)) % WordMod
            = ((x - Origin) - (first - 1 - Origin)) % WordMod
      BY <2>2, <3>1, Widths, ModSub, Zenon
    <3>3. (x - Origin) - (first - 1 - Origin) = x - first + 1 BY <2>1
    <3> QED BY <3>2, <3>3
  <2> QED BY <2>1, <2>3 DEF Tracking, ExpectedTotal, Minus32
<1> QED BY <1>1, TrackingCorrect, PTL

(* Tracking gives the length of an interval: a difference of two words is  *)
(* the true one when that is less than a word.                             *)
LEMMA IntervalExact ==
  ASSUME TypeOK, Tracking
  PROVE  IntervalIsExact
<1> SUFFICES ASSUME st.received_data PROVE ExpectedInInterval(st) = high - mark
  BY DEF IntervalIsExact
<1>1. Origin \in Int /\ high \in Int /\ mark \in Int BY OriginType DEF TypeOK, Origin
<1>2. high - Origin \in Int /\ mark - Origin \in Int BY <1>1
<1>3. (((high - Origin) % WordMod) - ((mark - Origin) % WordMod)) % WordMod
        = ((high - Origin) - (mark - Origin)) % WordMod
  BY <1>2, Widths, ModSub, Zenon
<1>4. (high - Origin) - (mark - Origin) = high - mark BY <1>1
<1>5. high - mark \in 0..(WordMod - 1) BY <1>1, Widths DEF Tracking
<1>6. (high - mark) % WordMod = high - mark BY <1>5, Widths
<1> QED BY <1>3, <1>4, <1>6 DEF Tracking, ExpectedInInterval, Minus32

(* Likewise, a report's interval is exactly the numbers sent between the   *)
(* highest one of the report before it and the highest one now.            *)
THEOREM IntervalAlwaysExact ==
  ASSUME ~AcrossWrap
  PROVE  Spec => []IntervalIsExact
<1>1. TypeOK /\ Tracking => IntervalIsExact BY IntervalExact
<1> QED BY <1>1, TrackingCorrect, PTL

(* A report that claims a loss is right: some number of its interval has   *)
(* not arrived.                                                            *)
THEOREM LossIsReal ==
  ASSUME ~AcrossWrap
  PROVE  Spec => NoPhantomLoss
<1>1. TypeOK /\ Counting /\ Tracking /\ [Next]_vars =>
        [ FillReport /\ st.received_data /\ mark < high /\ report'.fractionlost > 0
            => \E n \in (mark + 1)..high : n \notin arrived ]_vars
  <2> SUFFICES ASSUME TypeOK, Counting, Tracking, FillReport, st.received_data,
                      mark < high, report'.fractionlost > 0,
                      \A n \in (mark + 1)..high : n \in arrived
               PROVE  FALSE
    OBVIOUS
  <2>1. high \in Int /\ mark \in Int /\ mark + 1 \in Int BY DEF TypeOK
  <2>2. (mark + 1)..high \in SUBSET arrived OBVIOUS
  <2>3. Cardinality((mark + 1)..high) <= Cardinality(arrived)
    BY <2>2, FS_Subset DEF TypeOK
  <2>4. Cardinality((mark + 1)..high) = IF mark + 1 > high THEN 0 ELSE high - (mark + 1) + 1
    BY <2>1, FS_Interval, Zenon
  <2>5. Cardinality((mark + 1)..high) = high - mark BY <2>1, <2>4
  <2>6. Cardinality(arrived) \in Nat BY FS_CardinalityType DEF TypeOK
  <2>7. st.num_new_packets \in Nat BY DEF TypeOK, StatsType
  <2>8. ExpectedInInterval(st) = high - mark BY IntervalExact DEF IntervalIsExact
  <2>9. high - mark <= st.num_new_packets BY <2>1, <2>3, <2>5, <2>6, <2>7 DEF Counting
  <2>10. FractionLost(st) = {0}
    <3>1. CASE ExpectedInInterval(st) < st.num_new_packets
      BY <3>1 DEF FractionLost
    <3>2. CASE ExpectedInInterval(st) = st.num_new_packets
      <4>1. ((ExpectedInInterval(st) - st.num_new_packets) * 256)
              \div ExpectedInInterval(st) = 0
        BY <3>2, <2>1, <2>7, <2>8
      <4> QED BY <3>2, <4>1, <2>1, <2>8 DEF FractionLost
    <3> QED BY <3>1, <3>2, <2>1, <2>7, <2>8, <2>9
  <2>11. report'.fractionlost \in FractionLost(st)
    BY DEF FillReport, ReceiverReports
  <2> QED BY <2>10, <2>11
<1> QED BY <1>1, TrackingCorrect, PTL DEF Spec, NoPhantomLoss

-----------------------------------------------------------------------------
(* However the network reorders.  Each packet starts at most one cycle, so *)
(* extended numbers do not wrap if a word has room for that many.          *)

Forward ==
  /\ st.packets_received <= MaxReceived
  /\ st.received_data =>
       /\ first <= high /\ high - Origin <= st.exthighseqnr
       /\ st.baseseqnr = first - 1 - Origin
       /\ st.num_cycles = st.exthighseqnr - (st.exthighseqnr % SeqMod)
       /\ st.num_cycles + SeqMod * (MaxReceived - st.packets_received) + SeqMod
            <= WordMod

(* What a cycle costs of the room for cycles.                              *)
LEMMA Room ==
  ASSUME NEW s \in Nat \ {0}, NEW m \in Nat, NEW p \in Nat, p < m
  PROVE  /\ s * (m - p) = s * (m - (p + 1)) + s
         /\ s * (m - p) >= s /\ s * (m - p) \in Int /\ s * (m - (p + 1)) \in Int
<1>1. PICK d \in Nat : d = m - (p + 1) OBVIOUS
<1>2. m - p = d + 1 BY <1>1
<1>3. s * (d + 1) = s * d + s /\ s * d \in Nat OBVIOUS
<1> QED BY <1>1, <1>2, <1>3

(* A packet is not put behind where the stream is.                         *)
LEMMA ForwardDeliver ==
  ASSUME SeqMod * (MaxReceived + 1) <= WordMod, TypeOK, Counting, Forward,
         NEW n \in net, NEW keep \in BOOLEAN, Deliver(n, keep)
  PROVE  Forward'
<1>w. SeqMod \in Nat \ {0} /\ SeqMod > 1 /\ WordMod \in Nat \ {0}
      /\ MaxReceived \in Nat /\ WordMod > SeqMod
  BY Widths, BoundsAssumption
<1>1. n \in Nat /\ n \in Int /\ n % SeqMod \in Seq16
      /\ st \in StatsType /\ high \in Nat /\ first \in Nat
  BY SeqType DEF TypeOK
<1>2. PICK p \in Nat : p = st.packets_received BY DEF TypeOK, StatsType
<1>3. p < MaxReceived BY <1>2 DEF Deliver
<1>4. st'.packets_received = p + 1 /\ st'.received_data
  BY <1>1, <1>2 DEF Deliver, ProcessPacket, FirstPacket, LaterPacket, Counted, StatsType
<1>5. PICK left \in Int : left = SeqMod * (MaxReceived - (p + 1))
  BY <1>w, <1>2, <1>3, Room
<1>6. SeqMod * (MaxReceived - p) = left + SeqMod /\ left >= 0
  BY <1>w, <1>2, <1>3, <1>5, Room
<1>7. CASE ~st.received_data
  <2>1. /\ first' = n /\ high' = n
        /\ st' = FirstPacket(st, n % SeqMod)
    BY <1>7 DEF Deliver, ProcessPacket
  <2>2. PICK r \in 0..(SeqMod - 1) : r = n % SeqMod BY <1>1 DEF Seq16
  <2>3. st.num_cycles = 0 BY <1>7 DEF Counting
  <2>4. /\ Origin' = IF r = 0 THEN n - SeqMod ELSE n - r
        /\ st'.exthighseqnr = IF r = 0 THEN SeqMod ELSE r
        /\ st'.num_cycles = IF r = 0 THEN SeqMod ELSE 0
        /\ st'.baseseqnr = IF r = 0 THEN SeqMod - 1 ELSE r - 1
    BY <1>1, <1>w, <2>1, <2>2, <2>3 DEF Origin, FirstPacket, Counted, StatsType
  <2>5. st'.num_cycles = st'.exthighseqnr - (st'.exthighseqnr % SeqMod)
    <3>1. SeqMod % SeqMod = 0 /\ r % SeqMod = r BY <1>w
    <3>2. CASE r = 0
      <4>1. st'.exthighseqnr = SeqMod /\ st'.num_cycles = SeqMod BY <2>4, <3>2
      <4> QED BY <1>w, <3>1, <4>1
    <3>3. CASE r # 0
      <4>1. st'.exthighseqnr = r /\ st'.num_cycles = 0 BY <2>4, <3>3
      <4> QED BY <3>1, <4>1
    <3> QED BY <3>2, <3>3
  <2>6. SeqMod * (MaxReceived + 1) >= left + SeqMod + SeqMod
    <3>1. SeqMod * (MaxReceived + 1) = SeqMod * MaxReceived + SeqMod BY <1>w
    <3>2. SeqMod * (MaxReceived - p) = SeqMod * MaxReceived - SeqMod * p
          /\ SeqMod * p >= 0 /\ SeqMod * p \in Int /\ SeqMod * MaxReceived \in Int
      BY <1>w
    <3> QED BY <1>6, <1>w, <3>1, <3>2
  <2>7. st'.num_cycles + left + SeqMod <= WordMod BY <1>w, <2>4, <2>6
  <2>8. /\ n - Origin' <= st'.exthighseqnr /\ st'.baseseqnr = n - 1 - Origin'
    BY <1>1, <1>w, <2>4
  <2>9. /\ st'.packets_received <= MaxReceived
        /\ SeqMod * (MaxReceived - st'.packets_received) = left
    BY <1>3, <1>4, <1>5, <1>w
  <2>10. first' <= high' /\ high' - Origin' <= st'.exthighseqnr
         /\ st'.baseseqnr = first' - 1 - Origin'
    BY <1>1, <2>1, <2>8
  <2> QED BY <2>5, <2>7, <2>9, <2>10 DEF Forward
<1>8. CASE st.received_data
  <2>1. /\ st' = LaterPacket(st, n % SeqMod)
        /\ first' = first /\ high' = IF high > n THEN high ELSE n
        /\ n >= high => 2 * (n - high) < SeqMod
    BY <1>8 DEF Deliver, ProcessPacket, Near
  <2>2. Origin' = Origin BY <2>1 DEF Origin
  <2>3. PICK o \in Int : o = Origin /\ o % SeqMod = 0
    BY <1>1, OriginType DEF Origin
  <2>4. PICK e \in Int : e = st.exthighseqnr BY DEF TypeOK, StatsType, Word
  <2>5. PICK c \in Int : c = st.num_cycles BY DEF TypeOK, StatsType, Word
  <2>6. /\ first <= high /\ high - o <= e
        /\ st.baseseqnr = first - 1 - o
        /\ c = e - (e % SeqMod) /\ c + left + SeqMod + SeqMod <= WordMod
    <3>1. /\ first <= high /\ high - o <= e
          /\ st.baseseqnr = first - 1 - o /\ c = e - (e % SeqMod)
      BY <1>8, <2>3, <2>4, <2>5 DEF Forward
    <3>2. PICK room \in Int : room = SeqMod * (MaxReceived - p)
      BY <1>6, <1>w
    <3>3. c + room + SeqMod <= WordMod
      BY <1>2, <1>8, <2>5, <3>2 DEF Forward
    <3>4. room = left + SeqMod BY <1>6, <3>2
    <3> QED BY <1>w, <3>1, <3>3, <3>4
  <2>7. c + 2 * SeqMod <= WordMod BY <1>6, <1>w, <2>6
  <2>8. /\ st'.exthighseqnr >= e
        /\ st'.num_cycles = st'.exthighseqnr - (st'.exthighseqnr % SeqMod)
        /\ st'.num_cycles <= c + SeqMod
        /\ \A m \in Int : m % SeqMod = n % SeqMod /\ m > e /\ 2 * (m - e) < SeqMod
                            => st'.exthighseqnr = m
    BY <1>1, <2>1, <2>4, <2>5, <2>6, <2>7, LaterPacketForward
  <2>9. PICK e1 \in Int : e1 = st'.exthighseqnr
    BY <1>1, <2>1, <1>8, ProcessPacketType DEF ProcessPacket, StatsType, Word
  <2>10. PICK c1 \in Int : c1 = st'.num_cycles
    BY <1>1, <2>1, <1>8, ProcessPacketType DEF ProcessPacket, StatsType, Word
  <2>11. (n - o) % SeqMod = n % SeqMod BY <1>1, <1>w, <2>3, ModShift
  <2>12. n - o > e => e1 = n - o
    <3> SUFFICES ASSUME n - o > e PROVE e1 = n - o OBVIOUS
    <3>1. n - o \in Int /\ 2 * ((n - o) - e) < SeqMod
      BY <1>1, <1>w, <2>1, <2>3, <2>6
    <3> QED BY <2>8, <2>9, <2>11, <3>1
  <2>13. high' - o <= e1 /\ first <= high'
    BY <1>1, <2>1, <2>6, <2>8, <2>9, <2>12
  <2>14. c1 + left + SeqMod <= WordMod BY <1>w, <2>6, <2>8, <2>10
  <2>15. st'.baseseqnr = st.baseseqnr BY <1>1, <2>1, OtherFieldsKept
  <2>16. /\ st'.packets_received <= MaxReceived
         /\ SeqMod * (MaxReceived - st'.packets_received) = left
    BY <1>3, <1>4, <1>5, <1>w
  <2>17. /\ first' <= high' /\ high' - Origin' <= st'.exthighseqnr
         /\ st'.baseseqnr = first' - 1 - Origin'
    BY <2>1, <2>2, <2>3, <2>6, <2>9, <2>13, <2>15
  <2>18. st'.num_cycles + left + SeqMod <= WordMod BY <2>10, <2>14
  <2> QED BY <2>8, <2>16, <2>17, <2>18 DEF Forward
<1> QED BY <1>7, <1>8

(* Every step keeps Forward while the words have room for a cycle per      *)
(* packet.                                                                 *)
LEMMA ForwardStep ==
  ASSUME SeqMod * (MaxReceived + 1) <= WordMod
  PROVE  TypeOK /\ Counting /\ Forward /\ [Next]_vars => Forward'
<1> SUFFICES ASSUME TypeOK, Counting, Forward, [Next]_vars PROVE Forward'
  OBVIOUS
<1>1. ASSUME UNCHANGED <<first, high>>,
             st' = st \/ st' = StartNewInterval(st)
      PROVE  Forward'
  <2>1. /\ st'.exthighseqnr = st.exthighseqnr /\ st'.num_cycles = st.num_cycles
        /\ st'.baseseqnr = st.baseseqnr /\ st'.received_data = st.received_data
        /\ st'.packets_received = st.packets_received
    BY <1>1 DEF StartNewInterval, TypeOK, StatsType
  <2> QED BY <1>1, <2>1 DEF Forward, Origin
<1>2. CASE FillReport BY <1>1, <1>2 DEF FillReport
<1>3. CASE UNCHANGED <<st, first, high>> BY <1>1, <1>3
<1> QED BY <1>2, <1>3, ForwardDeliver DEF Next, Send, Lose, vars, history

(* As long as extended numbers cannot have wrapped, the highest one is     *)
(* never behind the stream: a receiver may count a cycle too many when a   *)
(* late packet crosses a wrap-around, but never one too few.               *)
THEOREM NeverFallsBehind ==
  ASSUME SeqMod * (MaxReceived + 1) <= WordMod
  PROVE  Spec => []NeverBehind
<1>1. Init => Counting /\ Forward
  BY FS_EmptySet, BoundsAssumption DEF Init, Counting, Forward, NewStats
<1>2. TypeOK /\ Counting /\ Forward /\ [Next]_vars => Counting' /\ Forward'
  BY CountingStep, ForwardStep
<1>3. TypeOK /\ Forward => NeverBehind
  <2> SUFFICES ASSUME TypeOK, Forward, st.received_data
               PROVE  ExpectedTotal(st) >= high - first + 1
    BY DEF NeverBehind
  <2>1. PICK e \in 0..(WordMod - 1) : e = st.exthighseqnr
    BY DEF TypeOK, StatsType, Word
  <2>2. PICK b \in 0..(WordMod - 1) : b = st.baseseqnr
    BY DEF TypeOK, StatsType, Word
  <2>3. Origin \in Int /\ high \in Int /\ first \in Int
    BY OriginType DEF TypeOK, Origin
  <2>4. b = first - 1 - Origin /\ high - Origin <= e /\ first <= high
    BY <2>1, <2>2 DEF Forward
  <2>5. e - b \in 0..(WordMod - 1) /\ e - b >= high - first + 1
    BY <2>3, <2>4, Widths
  <2>6. (e - b) % WordMod = e - b BY <2>5, Widths
  <2> QED BY <2>1, <2>2, <2>5, <2>6 DEF ExpectedTotal, Minus32
<1> QED BY <1>1, <1>2, <1>3, TypeCorrect, PTL DEF Spec
=============================================================================
