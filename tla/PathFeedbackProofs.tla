------------------------- MODULE PathFeedbackProofs ------------------------
(***************************************************************************)
(* The properties of PathFeedback, for every width, every CIMAX, TO and    *)
(* alpha, every set of loss fractions and payloads, and without a bound on *)
(* time.                                                                   *)
(***************************************************************************)
EXTENDS PathFeedback, TLAPS

(* Division with remainder, as the provers know it, in one fact.           *)
LEMMA DivMod ==
  ASSUME NEW s \in Nat \ {0}, NEW x \in Int
  PROVE /\ x \div s \in Int /\ x % s \in 0..(s-1) /\ x = s * (x \div s) + (x % s)
  OBVIOUS

(* The difference of two words is that of the numbers they stand for, as   *)
(* long as these are less than a word apart, through any number of wraps.  *)
LEMMA WordDistance ==
  ASSUME NEW a \in Nat, NEW b \in Nat, a <= b, b < a + WordMod
  PROVE  Minus32(b % WordMod, a % WordMod) = b - a
<1>w. PICK w \in Nat \ {0} : w = WordMod BY WidthAssumption
<1>a. a \in Int /\ b \in Int OBVIOUS
<1>1. PICK q \in Int, r \in 0..(w - 1) : a = w * q + r /\ a % w = r
  BY <1>a, DivMod, Zenon
<1>2. PICK k \in Int, t \in 0..(w - 1) : b = w * k + t /\ b % w = t
  BY <1>a, DivMod, Zenon
<1>3. w * (k - q) \in Int /\ t - r = (b - a) - w * (k - q) BY <1>1, <1>2
<1>4. PICK d \in 0..(w - 1) : d = b - a BY <1>w
<1>5. PICK m \in Int : m = q - k OBVIOUS
<1>6. t - r = w * m + d
  <2>1. w * m = 0 - w * (k - q) BY <1>5
  <2> QED BY <1>3, <1>4, <2>1
<1>7. (w * m + d) % w = d OBVIOUS
<1> QED BY <1>w, <1>1, <1>2, <1>4, <1>6, <1>7 DEF Minus32

(* Smoothing towards a higher bitrate does not overshoot it. *)
LEMMA SmoothBound ==
  ASSUME NEW old \in Nat, NEW b \in Nat, old < b
  PROVE  Smooth(old, b) \in Nat /\ Smooth(old, b) <= b
<1>1. AlphaNum \in Nat /\ AlphaDen \in Nat \ {0} /\ AlphaDen - AlphaNum \in Nat
  BY SubflowAssumption
<1>2. AlphaNum * old <= AlphaNum * b /\ AlphaNum * old \in Nat
  BY <1>1
<1>3. (AlphaDen - AlphaNum) * b \in Nat BY <1>1
<1>4. AlphaNum * b + (AlphaDen - AlphaNum) * b = AlphaDen * b BY <1>1
<1>5. PICK x \in Nat : x = AlphaNum * old + (AlphaDen - AlphaNum) * b
  BY <1>2, <1>3
<1>6. x <= AlphaDen * b BY <1>1, <1>2, <1>3, <1>4, <1>5
<1>7. x \div AlphaDen \in Nat /\ x \div AlphaDen <= b BY <1>1, <1>6
<1> QED BY <1>5, <1>7 DEF Smooth

(* Neither does the first measurement, which is scaled down by alpha. *)
LEMMA InitialBound ==
  ASSUME NEW b \in Nat
  PROVE  Initial(b) \in Nat /\ Initial(b) <= b
<1>1. AlphaNum \in Nat /\ AlphaDen \in Nat \ {0} /\ AlphaNum <= AlphaDen
  BY SubflowAssumption
<1>2. PICK x \in Nat : x = AlphaNum * b BY <1>1
<1>3. x <= AlphaDen * b BY <1>1, <1>2
<1>4. x \div AlphaDen \in Nat /\ x \div AlphaDen <= b BY <1>1, <1>3
<1> QED BY <1>2, <1>4 DEF Initial

(* A bitrate brought up to date is within its old value and the new        *)
(* measurement, whichever is higher.                                       *)
LEMMA RaisedBound ==
  ASSUME NEW i \in BOOLEAN, NEW old \in Nat, NEW b \in Nat
  PROVE  /\ Raised(i, old, b) \in Nat
         /\ Raised(i, old, b) <= b \/ Raised(i, old, b) = old
  BY SmoothBound, InitialBound DEF Raised

(* 32-bit arithmetic stays within 32 bits.                                 *)
LEMMA WordRange ==
  ASSUME NEW a \in Int, NEW b \in Int
  PROVE  Plus32(a, b) \in Word /\ Minus32(a, b) \in Word
<1>1. a + b \in Int /\ a - b \in Int /\ WordMod \in Nat \ {0}
  BY WidthAssumption
<1>2. (a + b) % WordMod \in 0..(WordMod - 1) BY <1>1, DivMod, Zenon
<1>3. (a - b) % WordMod \in 0..(WordMod - 1) BY <1>1, DivMod, Zenon
<1> QED BY <1>2, <1>3 DEF Plus32, Minus32, Word

(* A report that measures anything measures a bitrate. *)
LEMMA RateType ==
  ASSUME NEW s \in SubflowType, NEW rr \in Reports, NEW now \in Nat,
         Measures(s), s.last_time < now
  PROVE  InstantRate(s, rr, now) \in Nat
<1>w. Word \subseteq Nat /\ Word \subseteq Int BY WidthAssumption DEF Word
<1>1. rr.exthighseqnr \in Int /\ s.last_ext \in Int
  BY <1>w DEF Reports, SubflowType
<1>2. PICK h \in Nat : h = Minus32(rr.exthighseqnr, s.last_ext)
  <2>1. Minus32(rr.exthighseqnr, s.last_ext) \in Word BY <1>1, WordRange, Zenon
  <2> QED BY <2>1, <1>w, Zenon
<1>3. PICK f \in Nat : f = 256 - rr.fractionlost
  <2>1. rr.fractionlost \in 0..255 BY PathAssumption, Zenon DEF Reports
  <2>2. 256 - rr.fractionlost \in Nat BY <2>1
  <2> QED BY <2>2, Zenon
<1>4. PICK o \in Nat : o = s.octet_count_tt BY WidthAssumption DEF SubflowType, Word
<1>5. PICK p \in Nat \ {0} : p = s.packet_count_tt
  BY WidthAssumption DEF SubflowType, Word, Measures
<1>6. PICK t \in Nat \ {0} : t = now - s.last_time BY DEF SubflowType
<1>7. PICK x \in Nat : x = h * f * o OBVIOUS
<1>8. PICK y \in Nat \ {0} : y = p * t OBVIOUS
<1>9. x \div y \in Nat OBVIOUS
<1> QED BY <1>2, <1>3, <1>4, <1>5, <1>6, <1>7, <1>8, <1>9 DEF InstantRate

-----------------------------------------------------------------------------
(* A report that measures nothing leaves the measurements alone. *)
LEMMA UnmeasuredEffect ==
  ASSUME NEW s \in SubflowType, NEW rr, NEW now \in Nat, ~Measures(s)
  PROVE  LET t == ProcessRR(s, rr, now)
         IN  /\ t.TB = s.TB /\ t.TB_initialized = s.TB_initialized
             /\ t.CB = s.CB /\ t.CB_initialized = s.CB_initialized
             /\ t.congestion_indicator = s.congestion_indicator
             /\ t.congestion_time = s.congestion_time
             /\ t.ready = s.ready
  BY DEF ProcessRR, SubflowType

(* A report without loss raises the bitrates and may take a step down. *)
LEMMA CleanEffect ==
  ASSUME NEW s \in SubflowType, NEW rr, NEW now \in Nat,
         Measures(s), rr.fractionlost = 0
  PROVE  LET t == ProcessRR(s, rr, now)
             b == InstantRate(s, rr, now)
         IN  /\ t.TB = Raised(s.TB_initialized, s.TB, b) /\ t.TB_initialized
             /\ t.CB = IF s.congestion_indicator > 0
                       THEN Raised(s.CB_initialized, s.CB, b) ELSE s.CB
             /\ t.CB_initialized = (s.CB_initialized \/ s.congestion_indicator > 0)
             /\ t.congestion_indicator = IF Decays(s, now)
                  THEN s.congestion_indicator - 1 ELSE s.congestion_indicator
             /\ t.congestion_time = IF Decays(s, now) THEN now ELSE s.congestion_time
             /\ t.ready
  BY DEF ProcessRR, Measured, CleanReport, SubflowType

(* A report with loss resets the bitrates and takes a step up. *)
LEMMA LossEffect ==
  ASSUME NEW s \in SubflowType, NEW rr, NEW now \in Nat,
         Measures(s), rr.fractionlost # 0
  PROVE  LET t == ProcessRR(s, rr, now)
             b == InstantRate(s, rr, now)
         IN  /\ t.TB = Initial(b) /\ t.TB_initialized
             /\ t.CB = Initial(b) /\ t.CB_initialized
             /\ t.congestion_indicator = IF s.congestion_indicator < CIMAX
                  THEN s.congestion_indicator + 1 ELSE s.congestion_indicator
             /\ t.congestion_time = now
             /\ t.ready
  BY DEF ProcessRR, Measured, LossReport, SubflowType

(* A report leaves every field within its type.                            *)
LEMMA ProcessRRType ==
  ASSUME NEW s \in SubflowType, NEW rr \in Reports, NEW now \in Nat,
         s.reported => s.last_time < now
  PROVE  ProcessRR(s, rr, now) \in SubflowType
<1>1. rr.exthighseqnr \in Word /\ 0 \in Word
  <2>1. rr.exthighseqnr \in Word BY DEF Reports
  <2>2. 0 \in Word BY WidthAssumption DEF Word
  <2> QED BY <2>1, <2>2
<1>2. ASSUME NEW u \in SubflowType
      PROVE  [u EXCEPT !.packet_count_tt = 0, !.octet_count_tt = 0,
                       !.reported = TRUE, !.last_ext = rr.exthighseqnr,
                       !.last_time = now] \in SubflowType
  BY <1>1 DEF SubflowType
<1>3. CASE ~Measures(s) BY <1>2, <1>3 DEF ProcessRR
<1>4. CASE Measures(s)
  <2>1. PICK b \in Nat : b = InstantRate(s, rr, now)
    BY <1>4, RateType, Zenon DEF Measures
  <2>2. CleanReport(s, b, now) \in SubflowType
    <3> DEFINE tb == Raised(s.TB_initialized, s.TB, b)
               cb == IF s.congestion_indicator > 0
                     THEN Raised(s.CB_initialized, s.CB, b) ELSE s.CB
               ci == IF Decays(s, now) THEN s.congestion_indicator - 1
                                       ELSE s.congestion_indicator
               ct == IF Decays(s, now) THEN now ELSE s.congestion_time
               cbi == s.CB_initialized \/ s.congestion_indicator > 0
    <3>1. tb \in Nat /\ cb \in Nat /\ ct \in Nat
      BY RaisedBound DEF SubflowType
    <3>2. ci \in 0..CIMAX BY SubflowAssumption DEF SubflowType, Decays
    <3>3. cbi \in BOOLEAN OBVIOUS
    <3>4. CleanReport(s, b, now) =
            [s EXCEPT !.TB = tb, !.TB_initialized = TRUE,
                      !.congestion_indicator = ci, !.congestion_time = ct,
                      !.CB = cb, !.CB_initialized = cbi]
      BY DEF CleanReport
    <3> HIDE DEF tb, cb, ci, ct, cbi
    <3> QED BY ZenonT(30), <3>1, <3>2, <3>3, <3>4 DEF SubflowType
  <2>3. LossReport(s, b, now) \in SubflowType
    <3> DEFINE tb == Initial(b)
               ci == IF s.congestion_indicator < CIMAX
                     THEN s.congestion_indicator + 1 ELSE s.congestion_indicator
    <3>1. tb \in Nat BY InitialBound
    <3>2. ci \in 0..CIMAX BY SubflowAssumption DEF SubflowType
    <3>3. LossReport(s, b, now) =
            [s EXCEPT !.TB = tb, !.TB_initialized = TRUE,
                      !.CB = tb, !.CB_initialized = TRUE,
                      !.congestion_indicator = ci, !.congestion_time = now]
      BY DEF LossReport
    <3> HIDE DEF tb, ci
    <3> QED BY ZenonT(30), <3>1, <3>2, <3>3 DEF SubflowType
  <2>4. \A u \in SubflowType : [u EXCEPT !.ready = TRUE] \in SubflowType
    BY DEF SubflowType
  <2>5. Measured(s, rr, now) \in SubflowType
    BY <2>1, <2>2, <2>3, <2>4, Zenon DEF Measured
  <2> QED BY <1>2, <1>4, <2>5 DEF ProcessRR
<1> QED BY <1>3, <1>4

(* So does sending a packet.                                               *)
LEMMA SendToType ==
  ASSUME NEW s \in SubflowType, NEW payload \in Payloads, NEW accepted \in BOOLEAN
  PROVE  SendTo(s, payload, accepted) \in SubflowType
<1> DEFINE q == (s.sequence_number + 1) % SeqMod
           pc == Plus32(s.packet_count, 1)
           oc == Plus32(s.octet_count, payload)
           pt == Plus32(s.packet_count_tt, 1)
           ot == Plus32(s.octet_count_tt, payload)
<1>w. Word \subseteq Int /\ Seq16 \subseteq Int BY WidthAssumption DEF Word, Seq16
<1>s. /\ s.sequence_number \in Seq16
      /\ s.packet_count \in Word /\ s.octet_count \in Word
      /\ s.packet_count_tt \in Word /\ s.octet_count_tt \in Word
  BY DEF SubflowType
<1>1. q \in Seq16
  <2>1. s.sequence_number \in Int BY <1>w, <1>s, Zenon
  <2>w. SeqMod \in Nat \ {0} BY WidthAssumption
  <2>2. s.sequence_number + 1 \in Int BY <2>1
  <2>3. (s.sequence_number + 1) % SeqMod \in 0..(SeqMod - 1)
    BY <2>w, <2>2, DivMod, Zenon
  <2> QED BY <2>3 DEF Seq16
<1>2. /\ s.packet_count \in Int /\ s.octet_count \in Int
      /\ s.packet_count_tt \in Int /\ s.octet_count_tt \in Int
      /\ payload \in Int /\ 1 \in Int
  <2>1. /\ s.packet_count \in Int /\ s.octet_count \in Int
        /\ s.packet_count_tt \in Int /\ s.octet_count_tt \in Int
    BY <1>w, <1>s, Zenon
  <2>2. payload \in Int /\ 1 \in Int BY PathAssumption
  <2> QED BY <2>1, <2>2
<1>3. pc \in Word /\ oc \in Word /\ pt \in Word /\ ot \in Word
  BY <1>2, WordRange, Zenon
<1>4. SendTo(s, payload, accepted) =
        IF accepted
        THEN [s EXCEPT !.sequence_number = q, !.packet_count = pc, !.octet_count = oc,
                       !.packet_count_tt = pt, !.octet_count_tt = ot]
        ELSE [s EXCEPT !.sequence_number = q]
  BY DEF SendTo
<1> HIDE DEF q, pc, oc, pt, ot
<1>5. [s EXCEPT !.sequence_number = q, !.packet_count = pc, !.octet_count = oc,
                !.packet_count_tt = pt, !.octet_count_tt = ot] \in SubflowType
  BY <1>1, <1>3 DEF SubflowType
<1>6. [s EXCEPT !.sequence_number = q] \in SubflowType BY <1>1 DEF SubflowType
<1> QED BY <1>4, <1>5, <1>6

(* Sending leaves the measurements alone. *)
LEMMA SendToEffect ==
  ASSUME NEW s \in SubflowType, NEW payload, NEW accepted
  PROVE  LET t == SendTo(s, payload, accepted)
         IN  /\ t.TB = s.TB /\ t.TB_initialized = s.TB_initialized
             /\ t.CB = s.CB /\ t.CB_initialized = s.CB_initialized
             /\ t.congestion_indicator = s.congestion_indicator
             /\ t.congestion_time = s.congestion_time
             /\ t.ready = s.ready
             /\ t.reported = s.reported
             /\ t.last_ext = s.last_ext /\ t.last_time = s.last_time
  BY DEF SendTo, SubflowType

-----------------------------------------------------------------------------
(* Any report becomes the last one. *)
LEMMA RememberedEffect ==
  ASSUME NEW s \in SubflowType, NEW rr \in Reports, NEW now \in Nat,
         s.reported => s.last_time < now
  PROVE  LET t == ProcessRR(s, rr, now)
         IN  /\ t.reported
             /\ t.last_ext = rr.exthighseqnr /\ t.last_time = now
<1> DEFINE u == IF Measures(s) THEN Measured(s, rr, now) ELSE s
           t == [u EXCEPT !.packet_count_tt = 0, !.octet_count_tt = 0,
                          !.reported = TRUE, !.last_ext = rr.exthighseqnr,
                          !.last_time = now]
<1>1. ProcessRR(s, rr, now) = t BY DEF ProcessRR
<1>2. t \in SubflowType BY <1>1, ProcessRRType
<1>3. DOMAIN u = DOMAIN t OBVIOUS
<1>4. {"reported", "last_ext", "last_time"} \subseteq DOMAIN t
  BY <1>2 DEF SubflowType
<1> HIDE DEF u
<1>5. t.reported /\ t.last_ext = rr.exthighseqnr /\ t.last_time = now
  BY <1>3, <1>4
<1> QED BY <1>1, <1>5

(* The history's numbers are those behind the subflow's words.             *)
Reckoned ==
  /\ sf.reported => sf.last_ext = last % WordMod /\ sf.last_time = lastTime
  /\ ~sf.reported => last = 0

TypeInv == TypeOK /\ Reckoned

(* What a report tells that is not misleading is what the code measures.   *)
LEMMA ToldIsMeasured ==
  ASSUME TypeInv, NEW rr \in Reports, NEW high \in Highest,
         Receive(rr, high), ~Misleading(high)
  PROVE  Told(rr, high) = InstantRate(sf, rr, clock)
<1>1. last \in Nat /\ high \in Nat /\ WordMod \in Nat
  BY PathAssumption, WidthAssumption DEF TypeInv, TypeOK
<1>2. last <= high /\ high < last + WordMod /\ last # 0
  BY <1>1 DEF Receive, Misleading, TypeInv, TypeOK
<1>3. sf.reported
  BY <1>2 DEF TypeInv, Reckoned
<1>4. sf.last_ext = last % WordMod /\ sf.last_time = lastTime
  BY <1>3 DEF TypeInv, Reckoned
<1>5. Minus32(rr.exthighseqnr, sf.last_ext) = high - last
  BY <1>1, <1>2, <1>4, WordDistance DEF Receive
<1> QED BY <1>4, <1>5 DEF Told, InstantRate

(* The type invariant, of which the range of the indicator is the part     *)
(* that needs the limit at CIMAX and the guard of the decay.               *)
LEMMA TypesHold == Spec => []TypeInv
<1> USE DEF TypeInv
<1>1. Init => TypeInv
  <2>0. 0 \in Seq16 /\ 0 \in Word /\ 0 \in 0..CIMAX /\ 0 \in Nat
    BY WidthAssumption, SubflowAssumption DEF Seq16, Word
  <2>1. Init => TypeOK
    <3>1. NewSubflow(0) \in SubflowType BY <2>0 DEF NewSubflow, SubflowType
    <3> QED BY <2>0, <3>1 DEF Init, TypeOK
  <2>2. NewSubflow(0).reported = FALSE BY DEF NewSubflow
  <2>3. Init => Reckoned BY <2>2, Zenon DEF Init, Reckoned
  <2> QED BY <2>1, <2>3
<1>2. TypeInv /\ [Next]_vars => TypeInv'
  <2> SUFFICES ASSUME TypeInv, [Next]_vars PROVE TypeInv'
    OBVIOUS
  <2>1. CASE Tick
    BY <2>1 DEF Tick, TypeOK, Reckoned, history, numbers, losses
  <2>2. ASSUME NEW payload \in Payloads, NEW accepted \in BOOLEAN,
               Send(payload, accepted)
        PROVE  TypeInv'
    <3>1. sf \in SubflowType /\ sf' = SendTo(sf, payload, accepted)
      BY <2>2 DEF Send, TypeOK
    <3>2. sf' \in SubflowType BY <2>2, <3>1, SendToType
    <3>3. /\ sf'.reported = sf.reported /\ sf'.last_ext = sf.last_ext
          /\ sf'.last_time = sf.last_time
      BY <3>1, SendToEffect
    <3> QED BY <2>2, <3>2, <3>3 DEF Send, TypeOK, Reckoned, history, numbers, losses
  <2>3. ASSUME NEW rr \in Reports, NEW high \in Highest, Receive(rr, high)
        PROVE  TypeInv'
    <3>1. sf' \in SubflowType BY <2>3, ProcessRRType DEF Receive, TypeOK
    <3>2. sf'.congestion_indicator \in 0..CIMAX BY <3>1 DEF SubflowType
    <3>3. Measures(sf) => InstantRate(sf, rr, clock) \in Nat
      BY <2>3, RateType DEF Receive, TypeOK, Measures
    <3>4. Measures(sf) /\ ~Misleading(high) => Told(rr, high) \in Nat
      BY <2>3, <3>3, ToldIsMeasured
    <3>5. /\ sf'.reported
          /\ sf'.last_ext = rr.exthighseqnr /\ sf'.last_time = clock
      BY <2>3, RememberedEffect DEF Receive, TypeOK
    <3>6. Reckoned' BY <2>3, <3>5 DEF Receive, Reckoned
    <3>7. high \in Nat BY PathAssumption
    <3>8. /\ last' \in Nat /\ lastTime' \in Nat /\ seen' \in Nat /\ clock' \in Nat
          /\ lossTime' \in Nat /\ lossCI' \in 0..CIMAX
      BY <2>3, <3>2, <3>7 DEF Receive, TypeOK, losses
    <3>9. misled' \in BOOLEAN /\ peak' \in Nat
      <4>1. Misleading(high) \in BOOLEAN BY DEF Misleading
      <4>2. peak \in Nat /\ misled \in BOOLEAN BY DEF TypeOK
      <4>3. CASE ~Measures(sf) BY <2>3, <4>2, <4>3 DEF Receive, losses
      <4>4. CASE Measures(sf)
        <5>1. 0 \in Nat OBVIOUS
        <5> QED BY <2>3, <3>4, <4>1, <4>2, <4>4, <5>1, Zenon DEF Receive
      <4> QED BY <4>3, <4>4
    <3> QED BY <3>1, <3>6, <3>8, <3>9 DEF TypeOK
  <2>4. CASE UNCHANGED vars
    BY <2>4 DEF vars, history, numbers, losses, TypeOK, Reckoned
  <2> QED BY <2>1, <2>2, <2>3, <2>4 DEF Next
<1> QED BY <1>1, <1>2, PTL DEF Spec

(* Every field keeps its type, for every width and every report: the       *)
(* indicator stays within 0..CIMAX.                                        *)
THEOREM TypeCorrect == Spec => []TypeOK
<1>1. TypeInv => TypeOK BY DEF TypeInv
<1> QED BY <1>1, TypesHold, PTL

-----------------------------------------------------------------------------
(* The bound on the pause, step by step: leaving level c adds c * TO.      *)
LEMMA DecayArithmetic ==
  ASSUME NEW l \in Nat, NEW c \in Nat \ {0}, NEW ct \in Nat, NEW lt \in Nat,
         NEW now \in Nat, ct + c * TO < now,
         2 * (ct - lt) >= TO * (l * (l + 1) - c * (c + 1))
  PROVE  2 * (now - lt) >= TO * (l * (l + 1) - (c - 1) * ((c - 1) + 1))
<1>1. TO \in Nat BY SubflowAssumption
<1>2. PICK m \in Int : m = l * (l + 1) OBVIOUS
<1>3. PICK k \in Int : k = c * c OBVIOUS
<1>4. c * (c + 1) = k + c /\ (c - 1) * ((c - 1) + 1) = k - c BY <1>3
<1>5. TO * (m - (k - c)) = TO * (m - (k + c)) + 2 * (TO * c) BY <1>1
<1>6. 2 * (now - lt) >= 2 * (ct - lt) + 2 * (TO * c) BY <1>1
<1> QED BY <1>1, <1>2, <1>4, <1>5, <1>6

DecayInv == DecayTakesItsTime /\ sf.congestion_time <= clock

(* The bound on the pause, and that no change lies in the future.          *)
LEMMA DecayCorrect == Spec => []DecayInv
<1>1. Init => DecayInv
  BY SubflowAssumption DEF Init, DecayInv, DecayTakesItsTime, NewSubflow
<1>2. TypeOK /\ DecayInv /\ [Next]_vars => DecayInv'
  <2> SUFFICES ASSUME TypeOK, DecayInv, [Next]_vars PROVE DecayInv'
    OBVIOUS
  <2>t. /\ sf \in SubflowType /\ clock \in Nat /\ lossTime \in Nat
        /\ lossCI \in 0..CIMAX /\ sf.congestion_indicator \in 0..CIMAX
        /\ sf.congestion_time \in Nat /\ CIMAX \in Nat \ {0} /\ TO \in Nat
    BY SubflowAssumption DEF TypeOK, SubflowType
  <2>1. CASE Tick BY <2>1, <2>t DEF Tick, DecayInv, DecayTakesItsTime, history, losses
  <2>2. ASSUME NEW payload \in Payloads, NEW accepted \in BOOLEAN,
               Send(payload, accepted)
        PROVE  DecayInv'
    BY <2>2, <2>t, SendToEffect DEF Send, DecayInv, DecayTakesItsTime, history, losses
  <2>3. ASSUME NEW rr \in Reports, NEW high \in Highest, Receive(rr, high)
        PROVE  DecayInv'
    <3>1. CASE ~Measures(sf)
      BY <2>3, <2>t, <3>1, UnmeasuredEffect
         DEF Receive, DecayInv, DecayTakesItsTime, history, losses
    <3>2. CASE Measures(sf) /\ rr.fractionlost = 0
      <4>1. /\ lossTime' = lossTime /\ lossCI' = lossCI /\ clock' = clock
            /\ sf'.congestion_indicator = IF Decays(sf, clock)
                 THEN sf.congestion_indicator - 1 ELSE sf.congestion_indicator
            /\ sf'.congestion_time = IF Decays(sf, clock)
                 THEN clock ELSE sf.congestion_time
        BY <2>3, <2>t, <3>2, CleanEffect DEF Receive
      <4>2. CASE ~Decays(sf, clock)
        BY <4>1, <4>2 DEF DecayInv, DecayTakesItsTime
      <4>3. CASE Decays(sf, clock)
        <5>1. /\ sf.congestion_indicator \in Nat \ {0}
              /\ sf.congestion_time + sf.congestion_indicator * TO < clock
          BY <2>t, <4>3 DEF Decays
        <5>2. 2 * (clock - lossTime) >= TO * (lossCI * (lossCI + 1)
                - (sf.congestion_indicator - 1) * ((sf.congestion_indicator - 1) + 1))
          BY <2>t, <5>1, DecayArithmetic DEF DecayInv, DecayTakesItsTime
        <5>3. sf.congestion_indicator - 1 <= lossCI
          BY <2>t DEF DecayInv, DecayTakesItsTime
        <5> QED BY <2>t, <4>1, <4>3, <5>2, <5>3 DEF DecayInv, DecayTakesItsTime
      <4> QED BY <4>2, <4>3
    <3>3. CASE Measures(sf) /\ rr.fractionlost # 0
      <4>1. rr.fractionlost > 0 
        <5>1. rr.fractionlost \in 0..255 BY PathAssumption, Zenon DEF Reports
        <5> QED BY <3>3, <5>1
      <4>2. /\ lossTime' = clock /\ lossCI' = sf'.congestion_indicator
            /\ clock' = clock /\ sf'.congestion_time = clock
        BY <2>3, <2>t, <3>3, <4>1, LossEffect DEF Receive
      <4>3. PICK c \in Nat : c = sf'.congestion_indicator
        BY <2>3, <2>t, <3>3, LossEffect DEF Receive
      <4>4. TO * (c * (c + 1) - c * (c + 1)) = 0 /\ 2 * (clock - clock) = 0
        BY <2>t, <4>3
      <4> QED BY <2>t, <4>2, <4>3, <4>4 DEF DecayInv, DecayTakesItsTime
    <3> QED BY <3>1, <3>2, <3>3
  <2>4. CASE UNCHANGED vars
    BY <2>4 DEF vars, history, losses, DecayInv, DecayTakesItsTime
  <2> QED BY <2>1, <2>2, <2>3, <2>4 DEF Next
<1> QED BY <1>1, <1>2, TypeCorrect, PTL DEF Spec

(* A congested path is trusted again only after the whole staircase of     *)
(* pauses, whatever the reports say.                                       *)
THEOREM DecayAlwaysTakesItsTime == Spec => []DecayTakesItsTime
<1>1. DecayInv => DecayTakesItsTime BY DEF DecayInv
<1> QED BY <1>1, DecayCorrect, PTL

-----------------------------------------------------------------------------
(* A subflow implements PathTrust.  A tick passes time; sending, and a     *)
(* report that measures nothing, are steps that PathTrust does not see; a  *)
(* report of a loss loses trust; one without a loss recovers a level or is *)
(* not seen.                                                               *)
THEOREM SubflowImplementsTrust == Spec => ImplementsTrust
<1>1. Init => Trust!Init
  BY DEF Init, Trust!Init, NewSubflow
<1>2. TypeOK /\ DecayInv /\ [Next]_vars => [Trust!Next]_(Trust!vars)
  <2> SUFFICES ASSUME TypeOK, DecayInv, [Next]_vars
               PROVE  [Trust!Next]_(Trust!vars)
    OBVIOUS
  <2> DEFINE level == sf.congestion_indicator
             since == clock - sf.congestion_time
  <2>t. /\ sf \in SubflowType /\ clock \in Nat
        /\ level \in 0..CIMAX /\ sf.congestion_time \in Nat
        /\ CIMAX \in Nat \ {0} /\ TO \in Nat
    BY SubflowAssumption DEF TypeOK, SubflowType
  <2>s. level' = level /\ since' = since => [Trust!Next]_(Trust!vars)
    BY DEF Trust!vars
  <2>1. CASE Tick
    <3>1. level' = level /\ since' = since + 1 BY <2>1, <2>t DEF Tick
    <3> QED BY <3>1 DEF Trust!Next, Trust!Pass
  <2>2. ASSUME NEW payload \in Payloads, NEW accepted \in BOOLEAN,
               Send(payload, accepted)
        PROVE  [Trust!Next]_(Trust!vars)
    <3>1. level' = level /\ since' = since
      BY <2>2, <2>t, SendToEffect DEF Send
    <3> QED BY <2>s, <3>1
  <2>3. ASSUME NEW rr \in Reports, NEW high \in Highest, Receive(rr, high)
        PROVE  [Trust!Next]_(Trust!vars)
    <3>1. CASE ~Measures(sf)
      <4>1. level' = level /\ since' = since
        BY <2>3, <2>t, <3>1, UnmeasuredEffect DEF Receive
      <4> QED BY <2>s, <4>1
    <3>2. CASE Measures(sf) /\ rr.fractionlost = 0
      <4>1. /\ clock' = clock
            /\ level' = IF Decays(sf, clock) THEN level - 1 ELSE level
            /\ sf'.congestion_time = IF Decays(sf, clock)
                 THEN clock ELSE sf.congestion_time
        BY <2>3, <2>t, <3>2, CleanEffect DEF Receive
      <4>2. CASE ~Decays(sf, clock)
        <5>1. level' = level /\ since' = since BY <4>1, <4>2
        <5> QED BY <2>s, <5>1
      <4>3. CASE Decays(sf, clock)
        <5>1. level > 0 /\ since > level * TO
          <6>1. level > 0 /\ sf.congestion_time + level * TO < clock
            BY <4>3 DEF Decays
          <6>2. level * TO \in Nat BY <2>t
          <6> HIDE DEF level
          <6> QED BY <2>t, <6>1, <6>2
        <5>2. level' = level - 1 /\ since' = 0 BY <2>t, <4>1, <4>3
        <5> QED BY <5>1, <5>2 DEF Trust!Next, Trust!Recover
      <4> QED BY <4>2, <4>3
    <3>3. CASE Measures(sf) /\ rr.fractionlost # 0
      <4>1. /\ clock' = clock /\ sf'.congestion_time = clock
            /\ level' = IF level < CIMAX THEN level + 1 ELSE level
        BY <2>3, <2>t, <3>3, LossEffect DEF Receive
      <4>2. since' = 0 BY <2>t, <4>1
      <4> QED BY <4>1, <4>2 DEF Trust!Next, Trust!Lose
    <3> QED BY <3>1, <3>2, <3>3
  <2>4. CASE UNCHANGED vars BY <2>4, <2>s DEF vars
  <2> QED BY <2>1, <2>2, <2>3, <2>4 DEF Next
<1> QED BY <1>1, <1>2, TypeCorrect, DecayCorrect, PTL
        DEF Spec, ImplementsTrust, Trust!Spec

-----------------------------------------------------------------------------
RatesInv == RatesSetBeforeUse /\ OneRateUnderLoss /\ RatesWithinPeak

(* The three properties of the bitrates, which need each other: that a     *)
(* lossy path's rates agree rests on both being initialised, and that its  *)
(* congested rate is within the peak on their agreeing.  The peak is what  *)
(* the network knows, so its part rests on WordDistance.                   *)
THEOREM RatesCorrect ==
  Spec => [](RatesSetBeforeUse /\ OneRateUnderLoss /\ RatesWithinPeak)
<1>1. Init => RatesInv
  BY DEF Init, RatesInv, RatesSetBeforeUse, OneRateUnderLoss, RatesWithinPeak, NewSubflow
<1>2. TypeInv /\ RatesInv /\ [Next]_vars => RatesInv'
  <2> SUFFICES ASSUME TypeInv, RatesInv, [Next]_vars PROVE RatesInv'
    OBVIOUS
  <2> USE DEF RatesInv, RatesSetBeforeUse, OneRateUnderLoss, RatesWithinPeak
  <2>t. /\ sf \in SubflowType /\ clock \in Nat /\ peak \in Nat
        /\ sf.congestion_indicator \in 0..CIMAX /\ sf.TB \in Nat /\ sf.CB \in Nat
        /\ sf.TB_initialized \in BOOLEAN /\ sf.CB_initialized \in BOOLEAN
        /\ misled \in BOOLEAN /\ CIMAX \in Nat \ {0}
    BY SubflowAssumption DEF TypeInv, TypeOK, SubflowType
  <2>1. CASE Tick BY <2>1 DEF Tick, history, losses
  <2>2. ASSUME NEW payload \in Payloads, NEW accepted \in BOOLEAN,
               Send(payload, accepted)
        PROVE  RatesInv'
    BY <2>2, <2>t, SendToEffect DEF Send, history, losses
  <2>3. ASSUME NEW rr \in Reports, NEW high \in Highest, Receive(rr, high)
        PROVE  RatesInv'
    <3>1. CASE ~Measures(sf)
      BY <2>3, <2>t, <3>1, UnmeasuredEffect DEF Receive, history, losses
    <3>2. CASE Measures(sf)
      <4> DEFINE r == InstantRate(sf, rr, clock)
      <4>1. r \in Nat BY <2>3, <3>2, RateType DEF Receive, TypeInv, TypeOK, Measures
      <4>m. ~Misleading(high) => Told(rr, high) = r BY <2>3, ToldIsMeasured
      <4>2. CASE rr.fractionlost = 0
        <5>0. /\ misled' = (misled \/ Misleading(high))
              /\ peak' = IF Misleading(high) \/ Told(rr, high) <= peak
                         THEN peak ELSE Told(rr, high)
          BY <2>3, <3>2, <4>2 DEF Receive
        <5>1. ~misled' => ~misled /\ peak' = IF r <= peak THEN peak ELSE r
          BY <4>m, <5>0
        <5>2. /\ sf'.TB = Raised(sf.TB_initialized, sf.TB, r) /\ sf'.TB_initialized
              /\ sf'.CB = IF sf.congestion_indicator > 0
                          THEN Raised(sf.CB_initialized, sf.CB, r) ELSE sf.CB
              /\ sf'.CB_initialized = (sf.CB_initialized \/ sf.congestion_indicator > 0)
              /\ sf'.congestion_indicator > 0 => sf.congestion_indicator > 0
              /\ sf'.ready
          BY <2>3, <2>t, <3>2, <4>2, CleanEffect DEF Receive
        <5>3. /\ Raised(sf.TB_initialized, sf.TB, r) \in Nat
              /\ Raised(sf.TB_initialized, sf.TB, r) <= r
                   \/ Raised(sf.TB_initialized, sf.TB, r) = sf.TB
          BY <2>t, <4>1, RaisedBound
        <5>4. ~misled' => sf'.TB <= peak' BY <2>t, <4>1, <5>1, <5>2, <5>3
        <5>5. sf'.congestion_indicator > 0 => sf'.TB = sf'.CB /\ sf'.CB_initialized
          BY <5>2
        <5> QED BY <5>2, <5>4, <5>5
      <4>3. CASE rr.fractionlost # 0
        <5>1. rr.fractionlost > 0
          <6>1. rr.fractionlost \in 0..255 BY PathAssumption, Zenon DEF Reports
          <6> QED BY <4>3, <6>1
        <5>2. ~misled' => peak' = r BY <2>3, <3>2, <4>m, <5>1 DEF Receive
        <5>3. /\ sf'.TB = Initial(r) /\ sf'.TB_initialized
              /\ sf'.CB = Initial(r) /\ sf'.CB_initialized
              /\ sf'.ready
          BY <2>3, <2>t, <3>2, <4>3, LossEffect DEF Receive
        <5>4. Initial(r) <= r BY <4>1, InitialBound
        <5> QED BY <5>2, <5>3, <5>4
      <4> QED BY <4>2, <4>3
    <3> QED BY <3>1, <3>2
  <2>4. CASE UNCHANGED vars BY <2>4 DEF vars, history, losses
  <2> QED BY <2>1, <2>2, <2>3, <2>4 DEF Next
<1> QED BY <1>1, <1>2, TypesHold, PTL DEF Spec, RatesInv

(* In particular no bitrate exceeds what reports in order have told since  *)
(* the last loss: neither the smoothing nor the wrap of the numbers, nor   *)
(* a report lost, repeated or without anything to measure invents          *)
(* capacity.                                                               *)
THEOREM RatesNeverExceedPeak == Spec => []RatesWithinPeak
<1>1. RatesSetBeforeUse /\ OneRateUnderLoss /\ RatesWithinPeak => RatesWithinPeak
  OBVIOUS
<1> QED BY <1>1, RatesCorrect, PTL
=============================================================================
