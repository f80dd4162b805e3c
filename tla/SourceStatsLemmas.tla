------------------------- MODULE SourceStatsLemmas -------------------------
(***************************************************************************)
(* What the operators of SourceStats do, for every width: they keep the    *)
(* types of the record, and a record that has the right numbers for the    *)
(* highest packet gives the next one the right number.  StatsStreamProofs  *)
(* and ReportingProofs rest on them.                                       *)
(*                                                                         *)
(* First come facts about remainders.  The provers know division with      *)
(* remainder but do not find their way from it to these; each is proved    *)
(* once, for any modulus.  And induction: the library states it for a      *)
(* predicate, as a parameter of the theorem; here it is about the set of   *)
(* numbers that satisfy it, so that it can be cited.                       *)
(***************************************************************************)
EXTENDS SourceStats, TLAPS, WellFoundedInduction

(* A set of natural numbers has a least one.                               *)
LEMMA LeastNumber ==
  ASSUME NEW T \in SUBSET Nat, T # {}
  PROVE  \E n \in T : \A m \in T : n <= m
<1>1. \E n \in T : \A m \in T : <<m, n>> \notin OpToRel(<, Nat)
  BY NatLessThanWellFounded, WFMin
<1>2. ASSUME NEW n \in T, NEW m \in T, <<m, n>> \notin OpToRel(<, Nat)
      PROVE  n <= m
  <2>1. ~(m < n) BY <1>2 DEF OpToRel
  <2> QED BY <2>1
<1> QED BY <1>1, <1>2

(* A set of numbers that a number is in when all smaller ones are is Nat.  *)
LEMMA NumberInduction ==
  ASSUME NEW T,
         \A n \in Nat : (\A m \in 0..(n - 1) : m \in T) => n \in T
  PROVE  \A n \in Nat : n \in T
<1> SUFFICES ASSUME Nat \ T # {} PROVE FALSE
  OBVIOUS
<1>1. PICK n \in Nat \ T : \A m \in Nat \ T : n <= m
  BY LeastNumber
<1>2. \A m \in 0..(n - 1) : m \in T
  BY <1>1
<1> QED BY <1>1, <1>2

-----------------------------------------------------------------------------
(* Remainders.                                                             *)

(* Division with remainder, as the provers know it, in one fact.           *)
LEMMA DivMod ==
  ASSUME NEW s \in Nat \ {0}, NEW x \in Int
  PROVE /\ x \div s \in Int /\ x % s \in 0..(s-1) /\ x = s * (x \div s) + (x % s)
  OBVIOUS

(* Every integer is a quotient times s plus a remainder.                   *)
LEMMA Split ==
  ASSUME NEW s \in Nat \ {0}, NEW x \in Int
  PROVE \E q \in Int, r \in 0..(s-1) : x = s * q + r
<1>1. x \div s \in Int /\ x % s \in 0..(s-1) /\ x = s * (x \div s) + (x % s) BY DivMod
<1> WITNESS x \div s \in Int, x % s \in 0..(s-1)
<1> QED BY <1>1

(* The remainder of such a sum is its last part.                           *)
LEMMA Unique ==
  ASSUME NEW s \in Nat \ {0}, NEW q \in Int, NEW r \in 0..(s-1)
  PROVE (s * q + r) % s = r
  OBVIOUS

(* A multiple of s does not change a remainder.                            *)
LEMMA Residue ==
  ASSUME NEW s \in Nat \ {0}, NEW q \in Int, NEW x \in Int
  PROVE (s * q + x) % s = x % s
<1>1. x = s * (x \div s) + (x % s) /\ x \div s \in Int /\ x % s \in 0..(s-1) BY DivMod
<1>2. s*q + x = s * (q + (x \div s)) + (x % s) BY <1>1
<1>3. q + (x \div s) \in Int BY <1>1
<1> QED BY <1>1, <1>2, <1>3, Unique

(* A remainder may be taken before an addition, as 32-bit arithmetic does  *)
(* at every step.                                                          *)
LEMMA ModAdd ==
  ASSUME NEW w \in Nat \ {0}, NEW x \in Int, NEW y \in Int
  PROVE ((x % w) + y) % w = (x + y) % w
<1>1. PICK q \in Int, r \in 0..(w-1) : x = w * q + r BY Split
<1>2. x % w = r BY <1>1, Unique
<1>3. x + y = w * q + (r + y) /\ r + y \in Int BY <1>1
<1>4. (w * q + (r + y)) % w = (r + y) % w BY <1>3, Residue
<1> QED BY <1>2, <1>3, <1>4

(* Likewise before a subtraction, on both sides.                           *)
LEMMA ModSub ==
  ASSUME NEW w \in Nat \ {0}, NEW x \in Int, NEW y \in Int
  PROVE ((x % w) - (y % w)) % w = (x - y) % w
<1>1. PICK q \in Int, r \in 0..(w-1) : x = w * q + r BY Split
<1>2. PICK k \in Int, t \in 0..(w-1) : y = w * k + t BY Split
<1>3. x % w = r /\ y % w = t BY <1>1, <1>2, Unique
<1>4. x - y = w * (q - k) + (r - t) /\ r - t \in Int /\ q - k \in Int BY <1>1, <1>2
<1>5. (w * (q - k) + (r - t)) % w = (r - t) % w BY <1>4, Residue
<1> QED BY <1>3, <1>4, <1>5

(* The low 16 bits of the low 32 bits of a number are its low 16 bits.     *)
LEMMA ModMod ==
  ASSUME NEW w \in Nat \ {0}, NEW s \in Nat \ {0}, w % s = 0, NEW x \in Int
  PROVE (x % w) % s = x % s
<1>1. PICK q \in Int, r \in 0..(w-1) : x = w * q + r BY ZenonT(30), Split
<1>2. PICK c \in Int : w = s * c
  <2>1. w = s * (w \div s) /\ w \div s \in Int BY DivMod
  <2> WITNESS w \div s \in Int
  <2> QED BY <2>1
<1>3. x % w = r BY <1>1, Unique
<1>4. x = s * (c * q) + r /\ c * q \in Int /\ r \in Int BY <1>1, <1>2
<1>5. (s * (c * q) + r) % s = r % s BY <1>4, Residue
<1> QED BY <1>3, <1>4, <1>5

(* Shifting by whole cycles leaves the 16-bit number alone.                *)
LEMMA ModShift ==
  ASSUME NEW s \in Nat \ {0}, NEW x \in Int, NEW d \in Int,  d % s = 0
  PROVE (x - d) % s = x % s
<1>1. PICK q \in Int, r \in 0..(s-1) : x = s * q + r BY Split
<1>2. PICK k \in Int, t \in 0..(s-1) : d = s * k + t BY Split
<1>3. x % s = r /\ t = 0 BY <1>1, <1>2, Unique
<1>4. x - d = s * (q - k) + r /\ q - k \in Int BY <1>1, <1>2, <1>3
<1>5. (s * (q - k) + r) % s = r BY <1>4, Unique
<1> QED BY <1>3, <1>4, <1>5

(* The start of the cycle of f: the largest multiple of s that is not      *)
(* above f.                                                                *)
LEMMA RowStart ==
  ASSUME NEW s \in Nat \ {0}, NEW f \in Int
  PROVE f - (f % s) \in Int /\ (f - (f % s)) % s = 0
<1>1. PICK q \in Int, r \in 0..(s - 1) : f = s * q + r BY Split
<1>2. f % s = r BY <1>1, Unique
<1>3. f - (f % s) = s * q + 0 BY <1>1, <1>2
<1>4. (s * q + 0) % s = 0 BY <1>1, Unique
<1> QED BY <1>1, <1>2, <1>3, <1>4

(* A number n less than half a cycle ahead of h either has the larger      *)
(* 16-bit number and is of the same cycle, or has the smaller one and is   *)
(* of the next cycle; then going up from h to n is a shorter way, and the  *)
(* way down takes the rest of the cycle.                                   *)
LEMMA Ahead ==
  ASSUME NEW s \in Nat \ {0}, NEW h \in Int, NEW n \in Int, n >= h, 2*(n-h) < s
  PROVE IF n % s >= h % s THEN n - (n%s) = h - (h%s)
        ELSE /\ n - (n%s) = h - (h%s) + s
             /\ ((n%s) - (h%s)) % s = n - h
             /\ ((h%s)-(n%s))%s = s - (n-h)
<1>1. PICK q \in Int, r \in 0..(s-1) : h = s * q + r BY Split
<1>2. PICK k \in Int, t \in 0..(s-1) : n = s * k + t BY Split
<1>3. h % s = r /\ n % s = t BY <1>1, <1>2, Unique
<1>4. s * (k - q) = (n - h) - (t - r) BY <1>1, <1>2
<1>5. k - q < 2 /\ k - q > -1 BY <1>1, <1>2, <1>4
<1>6. t >= r => k = q BY <1>5, <1>4, <1>1, <1>2
<1>7. t < r => k = q + 1 BY <1>5, <1>4, <1>1, <1>2
<1> QED BY <1>1, <1>2, <1>3, <1>6, <1>7

(* A number n at most half a cycle behind h, and of the same cycle, has    *)
(* the smaller 16-bit number, and the way down to it is not the longer     *)
(* one.                                                                    *)
LEMMA Behind ==
  ASSUME NEW s \in Nat \ {0}, NEW h \in Int, NEW n \in Int,
         n < h, 2*(h-n) <= s, n - (n%s) = h - (h%s)
  PROVE /\ n % s < h % s
        /\ ((n%s) - (h%s)) % s = s - (h-n)
        /\ ((h%s) - (n%s)) % s = h - n
<1>1. (n%s) - (h%s) = n - h /\ n % s \in 0..(s-1) /\ h % s \in 0..(s-1) BY DivMod
<1>2. n - h = s * (-1) + (s - (h-n)) /\ s - (h-n) \in 0..(s-1) BY <1>1
<1>3. (s * (-1) + (s - (h-n))) % s = s - (h-n) BY <1>2, Unique
<1>4. h - n = s * 0 + (h - n) /\ h - n \in 0..(s-1) BY <1>1
<1>5. (s * 0 + (h-n)) % s = h-n BY <1>4, Unique
<1>6. (h%s) - (n%s) = h - n BY <1>1
<1> QED BY <1>1, <1>2, <1>3, <1>4, <1>5, <1>6

(* Extending n by the cycle counted for h, when both are of the same       *)
(* cycle: the word is that of n, counted from o.                           *)
LEMMA SameRow ==
  ASSUME NEW w \in Nat \ {0}, NEW s \in Nat \ {0}, w % s = 0,
         NEW h \in Int, NEW n \in Int, NEW o \in Int,
         n - (n % s) = h - (h % s)
  PROVE  /\ (h - (h % s) - o) % w = (n - (n % s) - o) % w
         /\ (((h - (h % s) - o) % w) + (n % s)) % w = (n - o) % w
<1>1. n % s \in Int /\ h % s \in Int BY DivMod
<1>2. n - (n % s) - o \in Int BY <1>1
<1>3. h - (h % s) - o = n - (n % s) - o BY <1>1
<1>4. (((n - (n % s) - o) % w) + (n % s)) % w = ((n - (n % s) - o) + (n % s)) % w
  BY <1>1, <1>2, ModAdd, Zenon
<1>5. (n - (n % s) - o) + (n % s) = n - o BY <1>1
<1> QED BY <1>3, <1>4, <1>5

(* The same when n is of the next cycle, which is counted first.           *)
LEMMA NextRow ==
  ASSUME NEW w \in Nat \ {0}, NEW s \in Nat \ {0}, w % s = 0,
         NEW h \in Int, NEW n \in Int, NEW o \in Int,
         n - (n % s) = h - (h % s) + s
  PROVE  /\ (((h - (h % s) - o) % w) + s) % w = (n - (n % s) - o) % w
         /\ (((((h - (h % s) - o) % w) + s) % w) + (n % s)) % w = (n - o) % w
<1>1. n % s \in Int /\ h % s \in Int /\ s \in Int BY DivMod
<1>2. h - (h % s) - o \in Int /\ n - (n % s) - o \in Int BY <1>1
<1>3. (((h - (h % s) - o) % w) + s) % w = ((h - (h % s) - o) + s) % w
  BY <1>1, <1>2, ModAdd, Zenon
<1>4. (h - (h % s) - o) + s = n - (n % s) - o BY <1>1
<1>5. (((n - (n % s) - o) % w) + (n % s)) % w = ((n - (n % s) - o) + (n % s)) % w
  BY <1>1, <1>2, ModAdd, Zenon
<1>6. (n - (n % s) - o) + (n % s) = n - o BY <1>1
<1> QED BY <1>3, <1>4, <1>5, <1>6, Zenon

(* The 16-bit number inside an extended number counted from the start of a *)
(* cycle.                                                                  *)
LEMMA RowOf ==
  ASSUME NEW w \in Nat \ {0}, NEW s \in Nat \ {0}, w % s = 0,
         NEW h \in Int, NEW o \in Int, o % s = 0
  PROVE  ((h - o) % w) % s = h % s
<1>1. h - o \in Int OBVIOUS
<1>2. ((h - o) % w) % s = (h - o) % s BY <1>1, ModMod, Zenon
<1>3. (h - o) % s = h % s BY ModShift
<1> QED BY <1>2, <1>3

-----------------------------------------------------------------------------
(* The widths of the code.                                                 *)

(* What the assumptions say of the three widths.                           *)
LEMMA Widths ==
  /\ SeqMod \in Nat \ {0} /\ SeqMod > 1
  /\ WordMod \in Nat \ {0} /\ WordMod > SeqMod /\ WordMod % SeqMod = 0
  /\ LostMod \in Nat \ {0}
  BY WidthAssumption, LostAssumption

(* The 16-bit number on the wire.                                          *)
LEMMA SeqType == \A n \in Int : n % SeqMod \in Seq16
  BY Widths DEF Seq16

-----------------------------------------------------------------------------
(* 32-bit arithmetic stays within 32 bits.                                 *)
LEMMA WordOps ==
  ASSUME NEW a \in Int, NEW b \in Int
  PROVE  /\ Plus32(a, b) \in Word /\ Minus32(a, b) \in Word
         /\ Plus32(a, b) \in Int /\ Minus32(a, b) \in Int
<1>1. a + b \in Int /\ a - b \in Int OBVIOUS
<1>2. (a + b) % WordMod \in 0..(WordMod - 1) BY <1>1, Widths, DivMod, Zenon
<1>3. (a - b) % WordMod \in 0..(WordMod - 1) BY <1>1, Widths, DivMod, Zenon
<1> QED BY <1>2, <1>3, Widths DEF Plus32, Minus32, Word

(* SameRow for the widths of the code.                                     *)
LEMMA RowsHere ==
  \A h, n, o \in Int :
    n - (n % SeqMod) = h - (h % SeqMod) =>
      /\ (h - (h % SeqMod) - o) % WordMod = (n - (n % SeqMod) - o) % WordMod
      /\ (((h - (h % SeqMod) - o) % WordMod) + (n % SeqMod)) % WordMod
           = (n - o) % WordMod
<1>1. \A w \in Nat \ {0}, s \in Nat \ {0} : w % s = 0 =>
        \A h, n, o \in Int :
          n - (n % s) = h - (h % s) =>
            /\ (h - (h % s) - o) % w = (n - (n % s) - o) % w
            /\ (((h - (h % s) - o) % w) + (n % s)) % w = (n - o) % w
  BY SameRow
<1> QED BY <1>1, Widths, Zenon

(* NextRow for the widths of the code.                                     *)
LEMMA RowsNext ==
  \A h, n, o \in Int :
    n - (n % SeqMod) = h - (h % SeqMod) + SeqMod =>
      /\ (((h - (h % SeqMod) - o) % WordMod) + SeqMod) % WordMod
           = (n - (n % SeqMod) - o) % WordMod
      /\ (((((h - (h % SeqMod) - o) % WordMod) + SeqMod) % WordMod)
           + (n % SeqMod)) % WordMod = (n - o) % WordMod
<1>1. \A w \in Nat \ {0}, s \in Nat \ {0} : w % s = 0 =>
        \A h, n, o \in Int :
          n - (n % s) = h - (h % s) + s =>
            /\ (((h - (h % s) - o) % w) + s) % w = (n - (n % s) - o) % w
            /\ (((((h - (h % s) - o) % w) + s) % w) + (n % s)) % w = (n - o) % w
  BY NextRow
<1> QED BY <1>1, Widths, Zenon

(* Ahead for the width of a sequence number.                               *)
LEMMA AheadHere ==
  \A h, n \in Int : n >= h /\ 2 * (n - h) < SeqMod =>
    IF n % SeqMod >= h % SeqMod
    THEN n - (n % SeqMod) = h - (h % SeqMod)
    ELSE /\ n - (n % SeqMod) = h - (h % SeqMod) + SeqMod
         /\ ((n % SeqMod) - (h % SeqMod)) % SeqMod = n - h
         /\ ((h % SeqMod) - (n % SeqMod)) % SeqMod = SeqMod - (n - h)
<1>1. \A s \in Nat \ {0} : \A h, n \in Int : n >= h /\ 2 * (n - h) < s =>
        IF n % s >= h % s
        THEN n - (n % s) = h - (h % s)
        ELSE /\ n - (n % s) = h - (h % s) + s
             /\ ((n % s) - (h % s)) % s = n - h
             /\ ((h % s) - (n % s)) % s = s - (n - h)
  BY ZenonT(30), Ahead
<1> QED BY <1>1, Widths, Zenon

(* process_packet keeps the types of its fields and gives the packet a     *)
(* 32-bit number.                                                          *)
LEMMA ProcessPacketType ==
  ASSUME NEW r \in StatsType, NEW seq \in Seq16
  PROVE  ProcessPacket(r, seq) \in StatsType /\ AssignedSeq(r, seq) \in Word
<1>1. WordMod >= SeqMod BY Widths, DivMod
<1>2. seq \in Int /\ SeqMod \in Int /\ r.num_cycles \in Int
  BY Widths DEF Seq16, StatsType, Word
<1>3. CyclesAt(r, seq) \in Word
  BY <1>2, WordOps DEF CyclesAt, StatsType
<1>4. ExtendedSeq(r, seq) \in Word
  BY <1>2, <1>3, WordOps, Widths DEF ExtendedSeq, Word
<1>5. LaterPacket(r, seq) \in StatsType
  <2> DEFINE e == IF seq >= r.exthighseqnr % SeqMod
                     \/ IsWrap(r.exthighseqnr % SeqMod, seq)
                  THEN ExtendedSeq(r, seq) ELSE r.exthighseqnr
             p == r.packets_received + 1
             k == r.num_new_packets + 1
  <2>1. e \in Word /\ p \in Nat /\ k \in Nat BY <1>4 DEF StatsType
  <2>2. LaterPacket(r, seq) =
          [r EXCEPT !.packets_received = p, !.num_new_packets = k,
                    !.num_cycles = CyclesAt(r, seq), !.exthighseqnr = e]
    BY DEF LaterPacket, Counted, StatsType
  <2> HIDE DEF e, p, k
  <2> QED BY <1>3, <2>1, <2>2 DEF StatsType
<1>6. FirstPacket(r, seq) \in StatsType /\ FirstPacket(r, seq).exthighseqnr \in Word
  <2> DEFINE b == IF seq = 0 THEN SeqMod - 1 ELSE seq - 1
             c == IF seq = 0 THEN SeqMod ELSE r.num_cycles
             d == b + 1
             p == r.packets_received + 1
             k == r.num_new_packets + 1
  <2>1. b \in Word /\ d \in Word /\ c \in Word /\ p \in Nat /\ k \in Nat
    BY Widths, <1>2 DEF Word, Seq16, StatsType
  <2>2. FirstPacket(r, seq) =
          [r EXCEPT !.packets_received = p, !.num_new_packets = k,
                    !.received_data = TRUE, !.num_cycles = c, !.baseseqnr = b,
                    !.exthighseqnr = d, !.saved_ext_seqnr = b]
    BY DEF FirstPacket, Counted, StatsType
  <2> HIDE DEF b, c, p, k, d
  <2> QED BY <2>1, <2>2 DEF StatsType
<1> QED BY <1>4, <1>5, <1>6 DEF ProcessPacket, AssignedSeq

(* The heart of the matter: a record that knows the highest number h,      *)
(* counted from the start o of a cycle, knows the higher of h and n after  *)
(* the packet n, and has given n its own number, if n is less than half a  *)
(* cycle ahead or at most half a cycle behind in the same cycle.           *)
LEMMA LaterPacketExact ==
  ASSUME NEW r \in StatsType, NEW h \in Int, NEW n \in Int, NEW o \in Int,
         o % SeqMod = 0,
         r.exthighseqnr = (h - o) % WordMod,
         r.num_cycles = (h - (h % SeqMod) - o) % WordMod,
         n >= h => 2 * (n - h) < SeqMod,
         n < h => 2 * (h - n) <= SeqMod /\ n - (n % SeqMod) = h - (h % SeqMod)
  PROVE  LET t == LaterPacket(r, n % SeqMod)
             top == IF h > n THEN h ELSE n
         IN  /\ t.exthighseqnr = (top - o) % WordMod
             /\ t.num_cycles = (top - (top % SeqMod) - o) % WordMod
             /\ ExtendedSeq(r, n % SeqMod) = (n - o) % WordMod
<1>w. SeqMod \in Nat \ {0} /\ WordMod \in Nat \ {0} /\ WordMod % SeqMod = 0
  BY Widths
<1>s. n % SeqMod \in 0..(SeqMod - 1) /\ h % SeqMod \in 0..(SeqMod - 1)
  BY <1>w, DivMod
<1>1. r.exthighseqnr % SeqMod = h % SeqMod
  <2>1. ((h - o) % WordMod) % SeqMod = h % SeqMod BY <1>w, RowOf
  <2> QED BY <2>1
<1>2. LaterPacket(r, n % SeqMod).num_cycles = CyclesAt(r, n % SeqMod)
  BY DEF LaterPacket, Counted, StatsType
<1>3. LaterPacket(r, n % SeqMod).exthighseqnr =
        IF n % SeqMod >= h % SeqMod \/ IsWrap(h % SeqMod, n % SeqMod)
        THEN ExtendedSeq(r, n % SeqMod) ELSE r.exthighseqnr
  BY <1>1 DEF LaterPacket, Counted, StatsType
<1>4. CyclesAt(r, n % SeqMod) = IF IsWrap(h % SeqMod, n % SeqMod)
        THEN (((h - (h % SeqMod) - o) % WordMod) + SeqMod) % WordMod
        ELSE (h - (h % SeqMod) - o) % WordMod
  BY <1>1 DEF CyclesAt, Plus32
<1>5. ExtendedSeq(r, n % SeqMod) = (CyclesAt(r, n % SeqMod) + (n % SeqMod)) % WordMod
  BY DEF ExtendedSeq, Plus32
<1>6. CASE n >= h /\ n % SeqMod >= h % SeqMod
  <2>1. n - (n % SeqMod) = h - (h % SeqMod) BY <1>6, <1>w, Ahead
  <2>2. /\ (h - (h % SeqMod) - o) % WordMod = (n - (n % SeqMod) - o) % WordMod
        /\ (((h - (h % SeqMod) - o) % WordMod) + (n % SeqMod)) % WordMod = (n - o) % WordMod
    BY <2>1, RowsHere, Zenon
  <2>3. ~IsWrap(h % SeqMod, n % SeqMod) BY <1>6, <1>s DEF IsWrap
  <2>4. CyclesAt(r, n % SeqMod) = (n - (n % SeqMod) - o) % WordMod
    BY <2>2, <2>3, <1>4
  <2>5. ExtendedSeq(r, n % SeqMod) = (n - o) % WordMod
    BY <2>2, <2>3, <1>4, <1>5
  <2>6. ~(h > n) BY <1>6
  <2> QED BY <1>6, <1>2, <1>3, <2>4, <2>5, <2>6
<1>7. CASE n >= h /\ n % SeqMod < h % SeqMod
  <2>1. /\ n - (n % SeqMod) = h - (h % SeqMod) + SeqMod
        /\ ((n % SeqMod) - (h % SeqMod)) % SeqMod = n - h
        /\ ((h % SeqMod) - (n % SeqMod)) % SeqMod = SeqMod - (n - h)
    BY <1>7, <1>s, AheadHere
  <2>2. /\ (((h - (h % SeqMod) - o) % WordMod) + SeqMod) % WordMod
             = (n - (n % SeqMod) - o) % WordMod
        /\ (((((h - (h % SeqMod) - o) % WordMod) + SeqMod) % WordMod)
             + (n % SeqMod)) % WordMod = (n - o) % WordMod
    BY <2>1, RowsNext, Zenon
  <2>3. IsWrap(h % SeqMod, n % SeqMod) BY <1>7, <1>w, <2>1 DEF IsWrap
  <2>4. CyclesAt(r, n % SeqMod) = (n - (n % SeqMod) - o) % WordMod
    BY <2>2, <2>3, <1>4
  <2>5. ExtendedSeq(r, n % SeqMod) = (n - o) % WordMod
    BY <2>2, <2>3, <1>4, <1>5
  <2>6. ~(h > n) BY <1>7
  <2> QED BY <1>2, <1>3, <2>3, <2>4, <2>5, <2>6
<1>8. CASE n < h
  <2>1. /\ n % SeqMod < h % SeqMod
        /\ ((n % SeqMod) - (h % SeqMod)) % SeqMod = SeqMod - (h - n)
        /\ ((h % SeqMod) - (n % SeqMod)) % SeqMod = h - n
    BY <1>8, <1>w, Behind
  <2>2. (((h - (h % SeqMod) - o) % WordMod) + (n % SeqMod)) % WordMod = (n - o) % WordMod
    BY <1>8, RowsHere
  <2>3. ~IsWrap(h % SeqMod, n % SeqMod) BY <1>8, <1>w, <2>1 DEF IsWrap
  <2>4. ~(n % SeqMod >= h % SeqMod) BY <2>1, <1>s
  <2>5. ExtendedSeq(r, n % SeqMod) = (n - o) % WordMod
    BY <2>2, <2>3, <1>4, <1>5
  <2> QED BY <1>8, <1>2, <1>3, <1>4, <2>3, <2>4, <2>5
<1>9. n >= h \/ n < h OBVIOUS
<1>10. n % SeqMod >= h % SeqMod \/ n % SeqMod < h % SeqMod BY <1>s
<1> QED BY <1>6, <1>7, <1>8, <1>9, <1>10

-----------------------------------------------------------------------------
(* A report fits its fields, and the next interval is well-typed.          *)
LEMMA ReportType ==
  ASSUME NEW r \in StatsType
  PROVE  /\ ReceiverReports(r) \subseteq
              [fractionlost : 0..255, packetslost : 0..(LostMod - 1),
               exthighseqnr : Word]
         /\ StartNewInterval(r) \in StatsType
<1>1. FractionLost(r) \subseteq 0..255
  <2> DEFINE x == ((ExpectedInInterval(r) - r.num_new_packets) * 256)
                    \div ExpectedInInterval(r)
  <2>1. ExpectedInInterval(r) \in Nat
    BY WordOps, Widths DEF ExpectedInInterval, StatsType, Word
  <2>2. r.num_new_packets \in Nat BY DEF StatsType
  <2>3. ExpectedInInterval(r) > 0 => x \in Int BY <2>1, <2>2
  <2>4. ExpectedInInterval(r) > 0 => x % 256 \in 0..255 BY <2>3
  <2>5. \/ FractionLost(r) = {0}
        \/ FractionLost(r) = UndefinedByte
        \/ ExpectedInInterval(r) > 0 /\ FractionLost(r) = {x % 256}
    BY <2>1 DEF FractionLost
  <2> HIDE DEF x
  <2>6. ExpectedInInterval(r) > 0 => {x % 256} \subseteq 0..255 BY <2>4
  <2>7. {0} \subseteq 0..255 OBVIOUS
  <2> QED BY ZenonT(30), <2>5, <2>6, <2>7, UndefinedByteAssumption
<1>2. PacketsLost(r) \in 0..(LostMod - 1)
  <2>1. r.exthighseqnr \in Int /\ r.baseseqnr \in Int /\ r.packets_received \in Int
    BY Widths DEF StatsType, Word
  <2>2. ExpectedTotal(r) \in Int BY <2>1, WordOps, Zenon DEF ExpectedTotal
  <2>3. Minus32(ExpectedTotal(r), r.packets_received) \in Int
    BY <2>1, <2>2, WordOps, Zenon
  <2> QED BY <2>3, Widths, DivMod DEF PacketsLost
<1>3. r.exthighseqnr \in Word BY DEF StatsType
<1>4. ReceiverReports(r) \subseteq
        [fractionlost : 0..255, packetslost : 0..(LostMod - 1),
         exthighseqnr : Word]
  BY <1>1, <1>2, <1>3 DEF ReceiverReports
<1>5. StartNewInterval(r) \in StatsType BY DEF StartNewInterval, StatsType
<1> QED BY <1>4, <1>5

(* The constructor sets every field to a value of its type.                *)
LEMMA NewStatsType == NewStats \in StatsType
  BY Widths DEF NewStats, StatsType, Word

-----------------------------------------------------------------------------
(* Every processed packet counts in its interval.                          *)
LEMMA CountsUp ==
  ASSUME NEW r \in StatsType, NEW seq
  PROVE  /\ ProcessPacket(r, seq).num_new_packets = r.num_new_packets + 1
         /\ ProcessPacket(r, seq).received_data
  BY DEF ProcessPacket, FirstPacket, LaterPacket, Counted, StatsType

-----------------------------------------------------------------------------
(* The origin of a stream is the start of a cycle.                         *)
LEMMA OriginType ==
  ASSUME NEW f \in Nat
  PROVE  LET o == IF f % SeqMod = 0 THEN f - SeqMod ELSE f - (f % SeqMod)
         IN  o \in Int /\ o % SeqMod = 0
<1>1. SeqMod % SeqMod = 0 BY Widths
<1>2. CASE f % SeqMod = 0
  <2>1. (f - SeqMod) % SeqMod = f % SeqMod
    <3>1. f \in Int /\ SeqMod \in Int BY Widths
    <3> QED BY <1>1, <3>1, Widths, ModShift, Zenon
  <2> QED BY <1>2, <2>1, Widths
<1>3. CASE f % SeqMod # 0
  <2>1. f \in Int OBVIOUS
  <2>2. f - (f % SeqMod) \in Int /\ (f - (f % SeqMod)) % SeqMod = 0
    BY <2>1, Widths, RowStart, Zenon
  <2> QED BY <1>3, <2>2
<1> QED BY <1>2, <1>3

(* The first packet of a stream puts its record at the stream's origin.    *)
LEMMA FirstPacketExact ==
  ASSUME NEW n \in Nat, NEW u \in StatsType, u.num_cycles = 0
  PROVE  LET t == FirstPacket(u, n % SeqMod)
             o == IF n % SeqMod = 0 THEN n - SeqMod ELSE n - (n % SeqMod)
         IN  /\ t.exthighseqnr = (n - o) % WordMod
             /\ t.num_cycles = (n - (n % SeqMod) - o) % WordMod
             /\ t.baseseqnr = (n - 1 - o) % WordMod
             /\ t.saved_ext_seqnr = (n - 1 - o) % WordMod
<1>1. PICK r \in 0..(SeqMod - 1) : n % SeqMod = r BY Widths, DivMod
<1>2. \A x \in 0..(WordMod - 1) : x % WordMod = x BY Widths
<1>3. CASE r = 0
  <2>1. /\ FirstPacket(u, r).exthighseqnr = SeqMod
        /\ FirstPacket(u, r).num_cycles = SeqMod
        /\ FirstPacket(u, r).baseseqnr = SeqMod - 1
        /\ FirstPacket(u, r).saved_ext_seqnr = SeqMod - 1
    BY <1>3, Widths DEF FirstPacket, Counted, StatsType
  <2>2. SeqMod % WordMod = SeqMod /\ (SeqMod - 1) % WordMod = SeqMod - 1
    BY <1>2, Widths
  <2>3. n - (n - SeqMod) = SeqMod /\ n - r - (n - SeqMod) = SeqMod
        /\ n - 1 - (n - SeqMod) = SeqMod - 1
    BY <1>3, Widths
  <2> QED BY <1>1, <1>3, <2>1, <2>2, <2>3
<1>4. CASE r # 0
  <2>1. /\ FirstPacket(u, r).exthighseqnr = r
        /\ FirstPacket(u, r).num_cycles = 0
        /\ FirstPacket(u, r).baseseqnr = r - 1
        /\ FirstPacket(u, r).saved_ext_seqnr = r - 1
    BY <1>4, Widths DEF FirstPacket, Counted, StatsType
  <2>2. r % WordMod = r /\ (r - 1) % WordMod = r - 1 /\ 0 % WordMod = 0
    BY <1>2, <1>4, Widths
  <2>3. n - (n - r) = r /\ n - r - (n - r) = 0 /\ n - 1 - (n - r) = r - 1
    OBVIOUS
  <2> QED BY <1>1, <1>4, <2>1, <2>2, <2>3
<1> QED BY <1>3, <1>4

(* Packets after the first leave the base and the mark alone.              *)
LEMMA OtherFieldsKept ==
  ASSUME NEW r \in StatsType, NEW seq
  PROVE  /\ LaterPacket(r, seq).baseseqnr = r.baseseqnr
         /\ LaterPacket(r, seq).saved_ext_seqnr = r.saved_ext_seqnr
         /\ LaterPacket(r, seq).received_data = r.received_data
  BY DEF LaterPacket, Counted, StatsType

-----------------------------------------------------------------------------
(* A record whose cycles are those of its highest number, far enough from  *)
(* the end of a word, never goes back, adds at most one cycle, and reaches *)
(* a number less than half a cycle ahead.                                  *)
LEMMA LaterPacketForward ==
  ASSUME NEW r \in StatsType, NEW seq \in Seq16,
         r.num_cycles = r.exthighseqnr - (r.exthighseqnr % SeqMod),
         r.num_cycles + 2 * SeqMod <= WordMod
  PROVE  LET t == LaterPacket(r, seq)
         IN  /\ t.exthighseqnr >= r.exthighseqnr
             /\ t.num_cycles = t.exthighseqnr - (t.exthighseqnr % SeqMod)
             /\ t.num_cycles <= r.num_cycles + SeqMod
             /\ \A m \in Int :
                  m % SeqMod = seq /\ m > r.exthighseqnr
                    /\ 2 * (m - r.exthighseqnr) < SeqMod => t.exthighseqnr = m
<1> DEFINE t == LaterPacket(r, seq)
<1>w. SeqMod \in Nat \ {0} /\ WordMod \in Nat \ {0} BY Widths
<1>1. PICK e \in Nat : e = r.exthighseqnr BY <1>w DEF StatsType, Word
<1>2. PICK c \in Nat : c = r.num_cycles BY <1>w DEF StatsType, Word
<1>3. PICK x \in 0..(SeqMod - 1) : x = e % SeqMod
  <2>1. e \in Int OBVIOUS
  <2>2. e % SeqMod \in 0..(SeqMod - 1) BY <1>w, <2>1, DivMod, Zenon
  <2> QED BY <2>2
<1>4. seq \in 0..(SeqMod - 1) BY DEF Seq16
<1>5. e = c + x /\ c + 2 * SeqMod <= WordMod BY <1>1, <1>2, <1>3
<1>6. c % SeqMod = 0
  <2>1. (e - (e % SeqMod)) % SeqMod = 0 BY SMTT(30), <1>w, RowStart
  <2>2. c = e - (e % SeqMod) BY <1>1, <1>2
  <2> QED BY <2>1, <2>2
<1>7. CyclesAt(r, seq) = IF IsWrap(x, seq) THEN c + SeqMod ELSE c
  <2>1. CyclesAt(r, seq) = IF IsWrap(x, seq) THEN (c + SeqMod) % WordMod ELSE c
    BY <1>1, <1>2, <1>3 DEF CyclesAt, Plus32
  <2>2. (c + SeqMod) % WordMod = c + SeqMod BY <1>w, <1>5
  <2> QED BY <2>1, <2>2
<1>8. PICK d \in {c, c + SeqMod} : d = CyclesAt(r, seq) BY <1>7
<1>9. ExtendedSeq(r, seq) = d + seq
  <2>1. (d + seq) % WordMod = d + seq BY <1>w, <1>4, <1>5, <1>8
  <2> QED BY <1>8, <2>1 DEF ExtendedSeq, Plus32
<1>10. /\ t.num_cycles = d
       /\ t.exthighseqnr = IF seq >= x \/ IsWrap(x, seq) THEN d + seq ELSE e
  BY <1>1, <1>3, <1>8, <1>9 DEF LaterPacket, Counted, StatsType
<1> HIDE DEF t
<1>11. d = IF IsWrap(x, seq) THEN c + SeqMod ELSE c BY <1>7, <1>8
<1>12. IsWrap(x, seq) => seq < x BY DEF IsWrap
<1>13. t.exthighseqnr >= e /\ d <= c + SeqMod
  BY <1>3, <1>4, <1>5, <1>10, <1>11, <1>12, <1>w
<1>14. (d + seq) % SeqMod = seq
  <2>0. c \in Int OBVIOUS
  <2>1. PICK q \in Int, z \in 0..(SeqMod - 1) : c = SeqMod * q + z
    BY <1>w, <2>0, Split, Zenon
  <2>2. z = 0 /\ c = SeqMod * q
    <3>1. (SeqMod * q + z) % SeqMod = z BY <1>w, <2>1, Unique
    <3> QED BY <1>6, <1>w, <2>1, <3>1
  <2>3. (SeqMod * q + seq) % SeqMod = seq BY <1>4, <1>w, Unique
  <2>4. (SeqMod * (q + 1) + seq) % SeqMod = seq
    <3>1. q + 1 \in Int OBVIOUS
    <3> QED BY <1>4, <1>w, <3>1, Unique, Zenon
  <2>5. SeqMod * (q + 1) = c + SeqMod BY <1>w, <2>2
  <2> QED BY <1>8, <2>2, <2>3, <2>4, <2>5
<1>15. t.num_cycles = t.exthighseqnr - (t.exthighseqnr % SeqMod)
  <2>1. CASE seq >= x \/ IsWrap(x, seq)
    <3>1. t.exthighseqnr = d + seq /\ t.num_cycles = d BY <1>10, <2>1
    <3>2. (d + seq) - seq = d BY <1>4, <1>8
    <3>3. t.exthighseqnr % SeqMod = seq BY <1>14, <3>1
    <3> QED BY <3>1, <3>2, <3>3
  <2>2. CASE ~(seq >= x \/ IsWrap(x, seq))
    <3>1. t.exthighseqnr = e /\ t.num_cycles = c BY <1>10, <1>11, <2>2
    <3>2. c = e - (e % SeqMod) BY <1>1, <1>2
    <3> QED BY <3>1, <3>2
  <2> QED BY <2>1, <2>2
<1>16. ASSUME NEW m \in Int, m % SeqMod = seq, m > e, 2 * (m - e) < SeqMod
       PROVE  t.exthighseqnr = m
  <2>0. m >= e /\ e \in Int BY <1>16
  <2>1. IF seq >= x
        THEN m - seq = e - x
        ELSE /\ m - seq = e - x + SeqMod
             /\ (seq - x) % SeqMod = m - e
             /\ (x - seq) % SeqMod = SeqMod - (m - e)
    BY <1>3, <1>16, <2>0, AheadHere, Zenon
  <2>2. CASE seq >= x
    <3>1. m = c + seq BY <1>4, <1>5, <2>1, <2>2
    <3>2. ~IsWrap(x, seq) BY <1>4, <1>12, <2>2
    <3> QED BY <1>10, <1>11, <2>2, <3>1, <3>2
  <2>3. CASE ~(seq >= x)
    <3>1. m = c + SeqMod + seq BY <1>4, <1>5, <1>w, <2>1, <2>3
    <3>2. IsWrap(x, seq)
      BY <1>4, <1>16, <1>w, <2>1, <2>3 DEF IsWrap
    <3> QED BY <1>10, <1>11, <3>1, <3>2
  <2> QED BY <2>2, <2>3
<1> QED BY <1>1, <1>2, <1>10, <1>13, <1>15, <1>16 DEF t
=============================================================================
