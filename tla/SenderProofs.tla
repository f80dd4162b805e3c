---------------------------- MODULE SenderProofs ---------------------------
(***************************************************************************)
(* The properties of Sender, for every width, every unit of the            *)
(* timestamps and period of the reports, any number of subflows, and       *)
(* without a bound on time or packets.                                     *)
(***************************************************************************)
EXTENDS Sender, FiniteSetTheorems, TLAPS

(* Induction, which the library states for a predicate, as a parameter of  *)
(* the theorem; here it is about the set of numbers that satisfy it.       *)

(* A set of natural numbers has a least one.                               *)
LEMMA LeastNumber ==
  ASSUME NEW T \in SUBSET Nat, T # {}
  PROVE  \E n \in T : \A m \in T : n <= m
<1>1. \E n \in T : \A m \in T : <<m, n>> \notin OpToRel(<, Nat)
  BY NatLessThanWellFounded, WFMin
<1>2. ASSUME NEW n \in T, NEW m \in T, <<m, n>> \notin OpToRel(<, Nat)
      PROVE  n <= m
  <2>1. ~(m < n) BY <1>2 DEF OpToRel
  <2> QED BY <2>1
<1> QED BY <1>1, <1>2

(* A set of numbers that a number is in when all smaller ones are is Nat.  *)
LEMMA NumberInduction ==
  ASSUME NEW T,
         \A n \in Nat : (\A m \in 0..(n - 1) : m \in T) => n \in T
  PROVE  \A n \in Nat : n \in T
<1> SUFFICES ASSUME Nat \ T # {} PROVE FALSE
  OBVIOUS
<1>1. PICK n \in Nat \ T : \A m \in Nat \ T : n <= m
  BY LeastNumber
<1>2. \A m \in 0..(n - 1) : m \in T
  BY <1>1
<1> QED BY <1>1, <1>2

-----------------------------------------------------------------------------
(* Remainders.                                                             *)

(* Division with remainder, as the provers know it, in one fact.           *)
LEMMA DivMod ==
  ASSUME NEW s \in Nat \ {0}, NEW x \in Int
  PROVE /\ x \div s \in Int /\ x % s \in 0..(s-1) /\ x = s * (x \div s) + (x % s)
  OBVIOUS

(* Every integer is a quotient times s plus a remainder.                   *)
LEMMA Split ==
  ASSUME NEW s \in Nat \ {0}, NEW x \in Int
  PROVE \E q \in Int, r \in 0..(s-1) : x = s * q + r
<1>1. x \div s \in Int /\ x % s \in 0..(s-1) /\ x = s * (x \div s) + (x % s) BY DivMod
<1> WITNESS x \div s \in Int, x % s \in 0..(s-1)
<1> QED BY <1>1

(* The remainder of such a sum is its last part.                           *)
LEMMA Unique ==
  ASSUME NEW s \in Nat \ {0}, NEW q \in Int, NEW r \in 0..(s-1)
  PROVE (s * q + r) % s = r
  OBVIOUS

(* A multiple of s does not change a remainder.                            *)
LEMMA Residue ==
  ASSUME NEW s \in Nat \ {0}, NEW q \in Int, NEW x \in Int
  PROVE (s * q + x) % s = x % s
<1>1. x = s * (x \div s) + (x % s) /\ x \div s \in Int /\ x % s \in 0..(s-1) BY DivMod
<1>2. s*q + x = s * (q + (x \div s)) + (x % s) BY <1>1
<1>3. q + (x \div s) \in Int BY <1>1
<1> QED BY <1>1, <1>2, <1>3, Unique

(* A remainder may be taken before an addition, as 32-bit arithmetic does  *)
(* at every step.                                                          *)
LEMMA ModAdd ==
  ASSUME NEW w \in Nat \ {0}, NEW x \in Int, NEW y \in Int
  PROVE ((x % w) + y) % w = (x + y) % w
<1>1. PICK q \in Int, r \in 0..(w-1) : x = w * q + r BY Split
<1>2. x % w = r BY <1>1, Unique
<1>3. x + y = w * q + (r + y) /\ r + y \in Int BY <1>1
<1>4. (w * q + (r + y)) % w = (r + y) % w BY <1>3, Residue
<1> QED BY <1>2, <1>3, <1>4

-----------------------------------------------------------------------------
(* Sums.  What Sender adds up is a fold: a recursive function on the       *)
(* subsets of the indices that takes away an arbitrary index at a time.    *)

Picked(s) == CHOOSE x \in s : TRUE
SumStep(g, f, s) == IF s = {} THEN 0 ELSE f[Picked(s)] + g[s \ {Picked(s)}]
AddsUp(g, f, S) == g = [s \in SUBSET S |-> SumStep(g, f, s)]

(* The subsets with fewer than n elements, and the n for which there is a  *)
(* function that adds them up.                                             *)
Smaller(S, n) == {s \in SUBSET S : Cardinality(s) < n}
SummableTo(f, S) ==
  {n \in Nat : \E g \in [SUBSET S -> Nat] :
                 \A s \in Smaller(S, n) : g[s] = SumStep(g, f, s)}

(* A subset of a finite set is finite, and taking away its picked member   *)
(* makes it smaller by one.                                                *)
LEMMA Subsets ==
  ASSUME NEW S, IsFiniteSet(S), NEW s \in SUBSET S
  PROVE  /\ IsFiniteSet(s) /\ Cardinality(s) \in Nat
         /\ Cardinality(s) <= Cardinality(S)
         /\ \A x \in s : Cardinality(s \ {x}) = Cardinality(s) - 1
         /\ s # {} => Picked(s) \in s /\ Cardinality(s) > 0
         /\ s = {} => Cardinality(s) = 0
<1>1. IsFiniteSet(s) /\ Cardinality(s) <= Cardinality(S) BY FS_Subset
<1>2. Cardinality(s) \in Nat BY <1>1, FS_CardinalityType
<1>3. \A x \in s : Cardinality(s \ {x}) = Cardinality(s) - 1
  BY <1>1, FS_RemoveElement
<1>4. Cardinality(s) = 0 <=> s = {} BY <1>1, FS_EmptySet
<1>5. s # {} => Picked(s) \in s BY DEF Picked
<1> QED BY <1>1, <1>2, <1>3, <1>4, <1>5

(* There is such a function, which the definition of the fold only asserts.*)
LEMMA SumExists ==
  ASSUME NEW S, IsFiniteSet(S), NEW f \in [S -> Nat]
  PROVE  \E g \in [SUBSET S -> Nat] : AddsUp(g, f, S)
<1>1. \A n \in Nat : n \in SummableTo(f, S)
  <2> SUFFICES ASSUME NEW n \in Nat, \A m \in 0..(n - 1) : m \in SummableTo(f, S)
               PROVE  n \in SummableTo(f, S)
    BY NumberInduction, Zenon
  <2>1. CASE n = 0
    <3>1. Smaller(S, n) = {} BY <2>1, Subsets DEF Smaller
    <3>2. [s \in SUBSET S |-> 0] \in [SUBSET S -> Nat] OBVIOUS
    <3> QED BY <3>1, <3>2, Zenon DEF SummableTo
  <2>2. CASE n # 0
    <3>1. n - 1 \in 0..(n - 1) BY <2>2
    <3>2. n - 1 \in SummableTo(f, S) BY <3>1
    <3>3. PICK g \in [SUBSET S -> Nat] :
            \A s \in Smaller(S, n - 1) : g[s] = SumStep(g, f, s)
      BY <3>2, Zenon DEF SummableTo
    <3>4. PICK h : h = [s \in SUBSET S |-> SumStep(g, f, s)]
      OBVIOUS
    <3>5. h \in [SUBSET S -> Nat]
      <4> SUFFICES ASSUME NEW s \in SUBSET S PROVE SumStep(g, f, s) \in Nat
        BY <3>4
      <4>1. CASE s = {} BY <4>1 DEF SumStep
      <4>2. CASE s # {}
        <5>1. Picked(s) \in s BY <4>2, Subsets
        <5>2. f[Picked(s)] \in Nat /\ g[s \ {Picked(s)}] \in Nat BY <5>1
        <5> QED BY <4>2, <5>2 DEF SumStep
      <4> QED BY <4>1, <4>2
    <3>6. ASSUME NEW s \in Smaller(S, n) PROVE h[s] = SumStep(h, f, s)
      <4>1. h[s] = SumStep(g, f, s) BY <3>4 DEF Smaller
      <4>2. CASE s = {} BY <4>1, <4>2 DEF SumStep
      <4>3. CASE s # {}
        <5> DEFINE r == s \ {Picked(s)}
        <5>1. r \in Smaller(S, n - 1)
          <6>1. Picked(s) \in s /\ Cardinality(s) < n /\ s \in SUBSET S
            BY <4>3, Subsets DEF Smaller
          <6>2. Cardinality(r) = Cardinality(s) - 1 /\ Cardinality(s) \in Nat
            BY <6>1, Subsets
          <6> QED BY <6>1, <6>2 DEF Smaller
        <5>2. g[r] = h[r] BY <3>3, <3>4, <5>1 DEF Smaller
        <5> QED BY <4>1, <4>3, <5>2 DEF SumStep
      <4> QED BY <4>2, <4>3
    <3> QED BY <3>5, <3>6, Zenon DEF SummableTo
  <2> QED BY <2>1, <2>2
<1>2. Cardinality(S) + 1 \in SummableTo(f, S)
  BY <1>1, FS_CardinalityType
<1>3. PICK g \in [SUBSET S -> Nat] :
        \A s \in Smaller(S, Cardinality(S) + 1) : g[s] = SumStep(g, f, s)
  BY <1>2, Zenon DEF SummableTo
<1>4. ASSUME NEW s \in SUBSET S PROVE s \in Smaller(S, Cardinality(S) + 1)
  <2>1. Cardinality(s) <= Cardinality(S) /\ Cardinality(s) \in Nat BY Subsets
  <2>2. Cardinality(S) \in Nat BY FS_CardinalityType
  <2> QED BY <2>1, <2>2 DEF Smaller
<1>5. g = [s \in SUBSET S |-> SumStep(g, f, s)] BY <1>3, <1>4
<1> QED BY <1>5 DEF AddsUp

(* The fold is what that function says of the whole set.                   *)
LEMMA SumIsFold ==
  ASSUME NEW S, IsFiniteSet(S), NEW f \in [S -> Nat]
  PROVE  \E g : AddsUp(g, f, S) /\ SumFunctionOnSet(f, S) = g[S]
<1> DEFINE g == CHOOSE h : AddsUp(h, f, S)
<1>1. AddsUp(g, f, S) BY SumExists
<1>2. SumFunctionOnSet(f, S) = g[S]
  BY DEF SumFunctionOnSet, FoldFunctionOnSet, MapThenFoldSet, AddsUp, SumStep, Picked
<1> QED BY <1>1, <1>2

(* It does not matter which index is taken away first. *)
LEMMA SumAnyOrder ==
  ASSUME NEW S, IsFiniteSet(S), NEW f \in [S -> Nat], NEW g, AddsUp(g, f, S),
         NEW s \in SUBSET S
  PROVE  /\ g[s] \in Nat
         /\ s = {} => g[s] = 0
         /\ \A x \in s : g[s] = f[x] + g[s \ {x}]
<1> DEFINE Good(t) == /\ g[t] \in Nat
                      /\ t = {} => g[t] = 0
                      /\ \A x \in t : g[t] = f[x] + g[t \ {x}]
           T == {n \in Nat : \A t \in SUBSET S : Cardinality(t) = n => Good(t)}
<1>1. \A n \in Nat : n \in T
  <2> SUFFICES ASSUME NEW n \in Nat, \A m \in 0..(n - 1) : m \in T PROVE n \in T
    <3> HIDE DEF T
    <3> QED BY NumberInduction, Zenon
  <2> SUFFICES ASSUME NEW t \in SUBSET S, Cardinality(t) = n PROVE Good(t)
    OBVIOUS
  <2>0. ASSUME NEW u \in SUBSET S, Cardinality(u) < n PROVE Good(u)
    <3>1. Cardinality(u) \in 0..(n - 1) BY <2>0, Subsets
    <3> QED BY <2>0, <3>1
  <2>1. g[t] = SumStep(g, f, t) BY DEF AddsUp
  <2>2. CASE t = {} BY <2>1, <2>2 DEF SumStep
  <2>3. CASE t # {}
    <3> DEFINE c == Picked(t)
    <3>1. c \in t /\ f[c] \in Nat /\ n > 0 /\ g[t] = f[c] + g[t \ {c}]
      BY <2>1, <2>3, Subsets DEF SumStep
    <3>2. ASSUME NEW x \in t PROVE t \ {x} \in SUBSET S /\ Good(t \ {x})
      <4>1. Cardinality(t \ {x}) < n BY <3>1, Subsets
      <4>2. t \ {x} \in SUBSET S OBVIOUS
      <4> HIDE DEF Good
      <4> QED BY <2>0, <4>1, <4>2
    <3>3. g[t] \in Nat
      <4>1. c \in t BY <3>1
      <4>2. Good(t \ {c})
        <5> HIDE DEF Good, c
        <5> QED BY <3>2, <4>1
      <4>3. PICK k \in Nat : k = g[t \ {c}] BY <4>2
      <4>4. PICK m \in Nat : m = f[c] BY <3>1
      <4>5. g[t] = m + k BY <3>1, <4>3, <4>4
      <4> QED BY <4>5
    <3>4. ASSUME NEW x \in t PROVE g[t] = f[x] + g[t \ {x}]
      <4>1. CASE x = c BY <3>1, <4>1
      <4>2. CASE x # c
        <5>1. x \in t \ {c} /\ c \in t \ {x} BY <3>1, <4>2
        <5>2. g[t \ {c}] = f[x] + g[(t \ {c}) \ {x}] BY <3>1, <3>2, <5>1
        <5>3. g[t \ {x}] = f[c] + g[(t \ {x}) \ {c}] BY <3>2, <5>1
        <5>4. PICK r : r = (t \ {c}) \ {x} OBVIOUS
        <5>5. (t \ {x}) \ {c} = r BY <5>4
        <5>7. g[r] \in Nat
          <6>1. t \ {c} \in SUBSET S /\ r \in SUBSET S BY <5>4
          <6>2. Cardinality(t \ {c}) = n - 1 BY <3>1, Subsets
          <6>3. Cardinality(r) = (n - 1) - 1 BY <6>1, <6>2, <5>1, <5>4, Subsets
          <6>4. Cardinality(r) < n BY <6>3
          <6>5. Good(r)
            <7> HIDE DEF Good
            <7> QED BY <2>0, <6>1, <6>4
          <6> QED BY <6>5
        <5>8. f[x] \in Nat OBVIOUS
        <5>9. f[c] + (f[x] + g[r]) = f[x] + (f[c] + g[r]) BY <3>1, <5>7, <5>8
        <5> QED BY <3>1, <5>2, <5>3, <5>4, <5>5, <5>9
      <4> QED BY <4>1, <4>2
    <3> QED BY <2>3, <3>3, <3>4
  <2> QED BY <2>2, <2>3
<1>2. Cardinality(s) \in Nat BY Subsets
<1> QED BY <1>1, <1>2

(* Two sums of the same terms are the same. *)
LEMMA SumSameTerms ==
  ASSUME NEW S, IsFiniteSet(S), NEW f \in [S -> Nat], NEW g, AddsUp(g, f, S),
         NEW R, IsFiniteSet(R), NEW e \in [R -> Nat], NEW h, AddsUp(h, e, R),
         NEW s \in SUBSET S, s \in SUBSET R, \A x \in s : f[x] = e[x]
  PROVE  g[s] = h[s]
<1> DEFINE T == {n \in Nat : \A t \in SUBSET s : Cardinality(t) = n => g[t] = h[t]}
<1>1. \A n \in Nat : n \in T
  <2> SUFFICES ASSUME NEW n \in Nat, \A m \in 0..(n - 1) : m \in T PROVE n \in T
    <3> HIDE DEF T
    <3> QED BY NumberInduction, Zenon
  <2> SUFFICES ASSUME NEW t \in SUBSET s, Cardinality(t) = n PROVE g[t] = h[t]
    OBVIOUS
  <2>1. t \in SUBSET S /\ t \in SUBSET R OBVIOUS
  <2>2. CASE t = {} BY <2>1, <2>2, SumAnyOrder
  <2>3. CASE t # {}
    <3>1. PICK x \in t : TRUE BY <2>3
    <3>2. g[t] = f[x] + g[t \ {x}] /\ h[t] = e[x] + h[t \ {x}]
      BY <2>1, <3>1, SumAnyOrder
    <3>3. Cardinality(t \ {x}) = n - 1 /\ n > 0
      BY <2>1, <2>3, <3>1, Subsets
    <3>4. n - 1 \in T BY <3>3
    <3> QED BY <3>1, <3>2, <3>3, <3>4
  <2> QED BY <2>2, <2>3
<1>2. Cardinality(s) \in Nat BY Subsets
<1> QED BY <1>1, <1>2

(* What the sums in Sender do when one summand changes ...                 *)
LEMMA SumChange ==
  ASSUME NEW S, IsFiniteSet(S), NEW f \in [S -> Nat], NEW e \in [S -> Nat],
         NEW x \in S, \A y \in S \ {x} : e[y] = f[y]
  PROVE  /\ SumFunction(f) \in Nat
         /\ SumFunction(e) = SumFunction(f) - f[x] + e[x]
<1> DEFINE R == S \ {x}
<1>2. PICK g : AddsUp(g, f, S) /\ SumFunctionOnSet(f, S) = g[S]
  BY SumIsFold, Zenon
<1>3. PICK h : AddsUp(h, e, S) /\ SumFunctionOnSet(e, S) = h[S]
  BY SumIsFold, Zenon
<1>4. g[R] = h[R]
  BY <1>2, <1>3, SumSameTerms
<1>s. S \in SUBSET S /\ R \in SUBSET S OBVIOUS
<1>5. g[S] = f[x] + g[R] /\ g[R] \in Nat /\ g[S] \in Nat
  BY <1>2, <1>s, SumAnyOrder
<1>6. h[S] = e[x] + h[R]
  BY <1>3, <1>s, SumAnyOrder
<1>7. SumFunction(f) = g[S] /\ SumFunction(e) = h[S]
  <2>1. DOMAIN f = S /\ DOMAIN e = S OBVIOUS
  <2> QED BY <2>1, <1>2, <1>3 DEF SumFunction
<1>8. f[x] \in Nat /\ e[x] \in Nat OBVIOUS
<1>9. h[S] = g[S] - f[x] + e[x]
  BY <1>4, <1>5, <1>6, <1>8
<1> QED BY <1>5, <1>7, <1>9

(* ... and when summands of zero are added.                                *)
LEMMA SumPad ==
  ASSUME NEW R, IsFiniteSet(R), NEW e \in [R -> Nat],
         NEW S \in SUBSET R, NEW f \in [S -> Nat],
         \A x \in S : e[x] = f[x], \A x \in R \ S : e[x] = 0
  PROVE  SumFunction(e) = SumFunction(f)
<1>f. IsFiniteSet(S) BY FS_Subset
<1>1. PICK g : AddsUp(g, f, S) /\ SumFunctionOnSet(f, S) = g[S]
  BY <1>f, SumIsFold, Zenon
<1>2. PICK h : AddsUp(h, e, R) /\ SumFunctionOnSet(e, R) = h[R]
  BY SumIsFold, Zenon
<1>3. h[S] = g[S]
  <2>1. S \in SUBSET S OBVIOUS
  <2> QED BY <1>f, <1>1, <1>2, <2>1, SumSameTerms
<1> DEFINE T == {n \in Nat : \A t \in SUBSET R :
                    S \subseteq t /\ Cardinality(t) = n => h[t] = h[S]}
<1>4. \A n \in Nat : n \in T
  <2> SUFFICES ASSUME NEW n \in Nat, \A m \in 0..(n - 1) : m \in T PROVE n \in T
    <3> HIDE DEF T
    <3> QED BY NumberInduction, Zenon
  <2> SUFFICES ASSUME NEW t \in SUBSET R, S \subseteq t, Cardinality(t) = n
               PROVE  h[t] = h[S]
    OBVIOUS
  <2>1. CASE t = S BY <2>1
  <2>2. CASE t # S
    <3>1. PICK x \in t \ S : TRUE BY <2>2
    <3>2. h[t] = e[x] + h[t \ {x}] /\ e[x] = 0 BY <1>2, <3>1, SumAnyOrder
    <3>3. h[t \ {x}] \in Nat BY <1>2, SumAnyOrder
    <3>4. Cardinality(t \ {x}) = n - 1 /\ n > 0 BY <3>1, Subsets
    <3>5. n - 1 \in T BY <3>4
    <3>6. S \subseteq t \ {x} /\ t \ {x} \in SUBSET R BY <3>1
    <3>7. h[t \ {x}] = h[S] BY <3>4, <3>5, <3>6
    <3> QED BY <3>2, <3>3, <3>7
  <2> QED BY <2>1, <2>2
<1>5. h[R] = h[S] BY <1>4, FS_CardinalityType
<1>6. SumFunction(e) = h[R] /\ SumFunction(f) = g[S]
  <2>1. DOMAIN f = S /\ DOMAIN e = R OBVIOUS
  <2> QED BY <2>1, <1>1, <1>2 DEF SumFunction
<1> QED BY <1>3, <1>5, <1>6

-----------------------------------------------------------------------------
(* Types and timers. *)

(* What TypeOK needs of Stamped, Accounted, Reported and Averaged. *)
Timed(s) ==
  /\ s \in SenderType
  /\ s.last_packet_time <= clock /\ s.last_sender_report_time <= clock
  /\ s.sb_time <= clock

(* Sums and differences of 32-bit words are words. *)
LEMMA Plus32Type ==
  ASSUME NEW a \in Int, NEW b \in Int
  PROVE  Plus32(a, b) \in Word /\ Minus32(a, b) \in Word
<1>1. a + b \in Int /\ a - b \in Int /\ WordMod \in Nat \ {0}
  BY WidthAssumption
<1>2. (a + b) % WordMod \in 0..(WordMod - 1) BY <1>1, DivMod, Zenon
<1>3. (a - b) % WordMod \in 0..(WordMod - 1) BY <1>1, DivMod, Zenon
<1> QED BY <1>2, <1>3 DEF Plus32, Minus32, Word

(* Words and sequence numbers are natural numbers. *)
LEMMA WordIsNat ==
  /\ \A x \in Word : x \in Nat
  /\ \A x \in Seq16 : x \in Nat
  /\ 0 \in Word /\ 0 \in Seq16
  BY WidthAssumption DEF Word, Seq16

(* The members of the sender that are computed with. *)
LEMMA SenderFields ==
  ASSUME NEW s \in SenderType
  PROVE  /\ s.sequence_number \in Nat /\ s.timestamp \in Word
         /\ s.timestamp \in Nat /\ s.packet_count \in Nat
         /\ s.octet_count \in Nat /\ s.sb_size \in Nat
         /\ s.last_packet_time \in Nat /\ s.last_sender_report_time \in Nat
         /\ s.sb_time \in Nat
<1>1. /\ s.sequence_number \in Seq16 /\ s.timestamp \in Word
      /\ s.packet_count \in Word /\ s.octet_count \in Word /\ s.sb_size \in Word
      /\ s.last_packet_time \in Nat /\ s.last_sender_report_time \in Nat
      /\ s.sb_time \in Nat
  BY DEF SenderType
<1> QED BY <1>1, WordIsNat

(* The rounding: to within half a unit, and no more units than ticks. *)
LEMMA UnitsRound ==
  ASSUME NEW d \in Nat
  PROVE  /\ Units(d) \in Nat /\ Units(d) <= d
         /\ 2 * TsUnit * Units(d) - 2 * d <= TsUnit
         /\ 2 * d - 2 * TsUnit * Units(d) <= TsUnit
<1>1. TsUnit \in Nat \ {0} BY SenderAssumption
<1>2. PICK w \in Nat \ {0} : w = 2 * TsUnit BY <1>1
<1>3. PICK x \in Nat : x = 2 * d + TsUnit BY <1>1
<1>4. PICK q \in Int, r \in 0..(w - 1) : q = x \div w /\ x = w * q + r
  BY DivMod
<1>5. Units(d) = q BY <1>2, <1>3, <1>4 DEF Units
<1>6. q >= 0
  <2>1. CASE q < 0
    <3>1. w * q <= -w BY <2>1
    <3> QED BY <3>1, <1>4
  <2> QED BY <2>1
<1>7. w * q - 2 * d <= TsUnit /\ 2 * d - w * q <= TsUnit
  BY <1>1, <1>2, <1>3, <1>4
<1>8. q <= d
  <2> SUFFICES ASSUME q > d PROVE FALSE
    BY <1>4
  <2>1. w * (d + 1) <= w * q BY <1>4, <1>6
  <2>2. w * (d + 1) = w * d + w OBVIOUS
  <2>3. w * d >= 2 * d BY <1>1, <1>2
  <2> QED BY <2>1, <2>2, <2>3, <1>1, <1>2, <1>3, <1>4
<1> QED BY <1>2, <1>5, <1>6, <1>7, <1>8

(* A timestamp is drawn or moved on, and with it the time of the packet.   *)
LEMMA StampedEffect ==
  ASSUME TypeOK, NEW stamp \in FirstStamps
  PROVE  LET s == Stamped(snd, stamp)
         IN  /\ Timed(s)
             /\ s = [snd EXCEPT !.last_packet_time = clock,
                                !.timestamp = s.timestamp]
             /\ s.timestamp = IF snd.packet_count = 0 THEN stamp
                              ELSE Plus32(snd.timestamp,
                                          Units(clock - snd.last_packet_time))
<1> DEFINE u == Units(clock - snd.last_packet_time)
<1>1. u \in Nat
  <2>1. clock - snd.last_packet_time \in Nat
    BY SenderFields DEF TypeOK
  <2> QED BY <2>1, UnitsRound
<1>2. stamp \in Word /\ snd.timestamp \in Int /\ Plus32(snd.timestamp, u) \in Word
  <2>1. stamp \in Word BY SenderAssumption
  <2>2. snd.timestamp \in Nat BY SenderFields DEF TypeOK
  <2> QED BY <1>1, <2>1, <2>2, Plus32Type
<1> HIDE DEF u
<1>t. snd \in SenderType /\ snd.last_sender_report_time <= clock
      /\ snd.sb_time <= clock /\ clock \in Nat
  BY DEF TypeOK
<1> DEFINE t == IF snd.packet_count = 0 THEN stamp ELSE Plus32(snd.timestamp, u)
<1>3. Stamped(snd, stamp) = [snd EXCEPT !.last_packet_time = clock, !.timestamp = t]
  BY <1>t DEF Stamped, u, SenderType
<1>4. t \in Word BY <1>2
<1> HIDE DEF t
<1>5. /\ [snd EXCEPT !.last_packet_time = clock, !.timestamp = t] \in SenderType
      /\ Stamped(snd, stamp).timestamp = t /\ Stamped(snd, stamp).last_packet_time = clock
      /\ Stamped(snd, stamp).last_sender_report_time = snd.last_sender_report_time
      /\ Stamped(snd, stamp).sb_time = snd.sb_time
  BY <1>t, <1>3, <1>4 DEF SenderType
<1> QED BY <1>t, <1>3, <1>5 DEF Timed, t, u

(* A packet that a socket has taken is counted. *)
LEMMA AccountedEffect ==
  ASSUME NEW s, Timed(s), clock \in Nat, NEW payload \in Nat,
         NEW accepted \in BOOLEAN
  PROVE  LET t == Accounted(s, payload, accepted)
         IN  /\ Timed(t)
             /\ t.last_packet_time = s.last_packet_time
             /\ t.timestamp = s.timestamp
             /\ t.sequence_number = s.sequence_number
             /\ t.packet_count = IF accepted THEN Plus32(s.packet_count, 1)
                                 ELSE s.packet_count
             /\ t.octet_count = IF accepted THEN Plus32(s.octet_count, payload)
                                ELSE s.octet_count
             /\ t.last_sender_report_time =
                  IF accepted /\ s.packet_count = 0 THEN clock
                  ELSE s.last_sender_report_time
<1>1. /\ Plus32(s.packet_count, 1) \in Word /\ Plus32(s.octet_count, payload) \in Word
      /\ Plus32(s.sb_size, payload + HeaderSize) \in Word
  BY Plus32Type, SenderFields, SenderAssumption DEF Timed
<1>2. CASE ~accepted BY <1>2 DEF Accounted
<1>3. CASE accepted
  <2>1. PICK pc \in Word, oc \in Word, sz \in Word :
          /\ pc = Plus32(s.packet_count, 1) /\ oc = Plus32(s.octet_count, payload)
          /\ sz = Plus32(s.sb_size, payload + HeaderSize)
    BY <1>1
  <2>2. PICK first, since :
          /\ first = IF s.packet_count = 0 THEN clock ELSE s.last_sender_report_time
          /\ since = IF s.sb_time = 0 THEN clock ELSE s.sb_time
    OBVIOUS
  <2>3. first \in Nat /\ first <= clock /\ since \in Nat /\ since <= clock
    BY <2>2, SenderFields DEF Timed
  <2>4. Accounted(s, payload, accepted) =
          [s EXCEPT !.last_sender_report_time = first, !.packet_count = pc,
                    !.octet_count = oc, !.sb_size = sz, !.sb_time = since]
    BY <1>3, <2>1, <2>2 DEF Accounted, Streamed, Timed, SenderType
  <2> QED BY ZenonT(30), <1>3, <2>1, <2>2, <2>3, <2>4 DEF Timed, SenderType
<1> QED BY <1>2, <1>3

(* The bitrate of the stream is brought up to date. *)
LEMMA AveragedEffect ==
  ASSUME NEW s, Timed(s), clock \in Nat
  PROVE  LET t == Averaged(s)
         IN  /\ Timed(t)
             /\ t.last_packet_time = s.last_packet_time
             /\ t.timestamp = s.timestamp
             /\ t.sequence_number = s.sequence_number
             /\ t.packet_count = s.packet_count /\ t.octet_count = s.octet_count
             /\ t.last_sender_report_time = s.last_sender_report_time
<1>1. CASE s.sb_time = 0
  BY <1>1 DEF Averaged, Timed, SenderType
<1>2. CASE s.sb_time # 0 /\ s.sb_time + Second > clock
  BY <1>2 DEF Averaged
<1>3. CASE s.sb_time # 0 /\ s.sb_time + Second <= clock
  <2>1. clock - s.sb_time \in Nat \ {0}
    BY <1>3, SenderAssumption DEF Timed, SenderType
  <2>2. <<s.sb_size, clock - s.sb_time>> \in Word \X (Nat \ {0})
    BY <2>1 DEF Timed, SenderType
  <2>3. Averaged(s) = [s EXCEPT !.stream_bitrate = <<s.sb_size, clock - s.sb_time>>,
                                !.sb_size = 0, !.sb_time = clock]
    BY <1>3, <2>1, SenderAssumption DEF Averaged, Timed, SenderType
  <2>4. 0 \in Word /\ s.last_packet_time <= clock
        /\ s.last_sender_report_time <= clock /\ s \in SenderType
    BY WordIsNat DEF Timed
  <2>5. PICK rate \in Word \X (Nat \ {0}) : rate = <<s.sb_size, clock - s.sb_time>>
    BY <2>2
  <2>6. Averaged(s) \in SenderType BY <2>3, <2>4, <2>5 DEF SenderType
  <2>7. /\ Averaged(s).sb_time = clock
        /\ Averaged(s).last_packet_time = s.last_packet_time
        /\ Averaged(s).timestamp = s.timestamp
        /\ Averaged(s).sequence_number = s.sequence_number
        /\ Averaged(s).packet_count = s.packet_count
        /\ Averaged(s).octet_count = s.octet_count
        /\ Averaged(s).last_sender_report_time = s.last_sender_report_time
    BY <2>3, <2>4 DEF SenderType
  <2> QED BY <2>4, <2>6, <2>7 DEF Timed
<1> QED BY <1>1, <1>2, <1>3, SenderAssumption DEF Timed, SenderType

(* A sender report is stamped and starts the timer anew. *)
LEMMA ReportedEffect ==
  ASSUME TypeOK, NEW stamp \in FirstStamps
  PROVE  LET t == Reported(snd, stamp)
         IN  /\ Timed(t)
             /\ t.last_packet_time = clock
             /\ t.timestamp = Stamped(snd, stamp).timestamp
             /\ t.sequence_number = snd.sequence_number
             /\ t.packet_count = snd.packet_count /\ t.octet_count = snd.octet_count
             /\ t.last_sender_report_time = clock
<1> DEFINE s == Stamped(snd, stamp)
<1>1. /\ Timed(s)
      /\ s = [snd EXCEPT !.last_packet_time = clock, !.timestamp = s.timestamp]
  BY StampedEffect
<1>2. /\ s.last_packet_time = clock /\ s.sequence_number = snd.sequence_number
      /\ s.packet_count = snd.packet_count /\ s.octet_count = snd.octet_count
  BY <1>1 DEF TypeOK, SenderType
<1>3. clock \in Nat /\ Plus32(s.sb_size, ReportSize) \in Word
  BY SMTT(30), <1>1, Plus32Type, SenderFields, SenderAssumption DEF TypeOK, Timed
<1> HIDE DEF s
<1>4. Reported(snd, stamp) = [Streamed(s, ReportSize) EXCEPT
                               !.last_sender_report_time = s.last_packet_time]
  BY DEF Reported, s
<1>5. /\ Timed(Reported(snd, stamp))
      /\ Reported(snd, stamp).timestamp = s.timestamp
  BY <1>1, <1>2, <1>3, <1>4 DEF Streamed, Timed, SenderType
<1> QED BY <1>1, <1>2, <1>3, <1>4, <1>5 DEF Streamed, Timed, SenderType, s

(* The whole of send_data, and of poll, on the members of the sender.      *)
LEMMA SendEffect ==
  ASSUME TypeOK, NEW i \in DOMAIN sfs, NEW payload \in Payloads,
         NEW accepted \in BOOLEAN, NEW stamp \in FirstStamps,
         SendData(i, payload, accepted, stamp)
  PROVE  /\ clock' = clock
         /\ snd' \in SenderType /\ snd'.last_packet_time = clock
         /\ snd'.last_sender_report_time <= clock /\ snd'.sb_time <= clock
         /\ snd'.timestamp = Stamped(snd, stamp).timestamp
         /\ snd'.sequence_number = (snd.sequence_number + 1) % SeqMod
         /\ snd'.packet_count = IF accepted THEN Plus32(snd.packet_count, 1)
                                ELSE snd.packet_count
         /\ snd'.octet_count = IF accepted THEN Plus32(snd.octet_count, payload)
                               ELSE snd.octet_count
         /\ snd'.last_sender_report_time =
              IF accepted /\ snd.packet_count = 0 THEN clock
              ELSE snd.last_sender_report_time
<1> DEFINE r == Stamped(snd, stamp)
           s == [r EXCEPT !.sequence_number = (r.sequence_number + 1) % SeqMod]
<1>1. clock' = clock /\ snd' = Accounted(s, payload, accepted)
  BY DEF SendData
<1>2. /\ Timed(r)
      /\ r = [snd EXCEPT !.last_packet_time = clock, !.timestamp = r.timestamp]
  BY StampedEffect
<1>3. /\ r.last_packet_time = clock /\ r.sequence_number = snd.sequence_number
      /\ r.packet_count = snd.packet_count /\ r.octet_count = snd.octet_count
      /\ r.last_sender_report_time = snd.last_sender_report_time
  BY <1>2 DEF TypeOK, SenderType
<1>4. (r.sequence_number + 1) % SeqMod \in Seq16
  <2>1. SeqMod \in Nat \ {0} BY WidthAssumption
  <2>2. r.sequence_number + 1 \in Int BY <1>2, SenderFields DEF Timed
  <2> QED BY <2>1, <2>2, DivMod, Zenon DEF Seq16
<1>5. PICK q \in Seq16 : q = (r.sequence_number + 1) % SeqMod BY <1>4
<1> HIDE DEF r
<1>6. /\ Timed(s) /\ s.timestamp = r.timestamp
      /\ s.last_packet_time = clock
      /\ s.sequence_number = (snd.sequence_number + 1) % SeqMod
      /\ s.packet_count = snd.packet_count /\ s.octet_count = snd.octet_count
      /\ s.last_sender_report_time = snd.last_sender_report_time
  BY <1>2, <1>3, <1>5 DEF Timed, SenderType
<1>7. payload \in Nat /\ clock \in Nat BY SenderAssumption DEF TypeOK
<1> HIDE DEF s
<1> DEFINE t == Accounted(s, payload, accepted)
<1>8. /\ Timed(t) /\ t.last_packet_time = s.last_packet_time
      /\ t.timestamp = s.timestamp /\ t.sequence_number = s.sequence_number
      /\ t.packet_count = IF accepted THEN Plus32(s.packet_count, 1)
                          ELSE s.packet_count
      /\ t.octet_count = IF accepted THEN Plus32(s.octet_count, payload)
                         ELSE s.octet_count
      /\ t.last_sender_report_time = IF accepted /\ s.packet_count = 0 THEN clock
                                     ELSE s.last_sender_report_time
  BY ZenonT(30), <1>6, <1>7, AccountedEffect
<1>9. snd' = t BY <1>1
<1> HIDE DEF t
<1> QED BY <1>1, <1>6, <1>8, <1>9 DEF Timed, r

(* A poll leaves the totals alone; it stamps, and restarts the timer of    *)
(* the reports, exactly when a report is due.                              *)
LEMMA PollEffect ==
  ASSUME TypeOK, NEW stamp \in FirstStamps, Poll(stamp)
  PROVE  /\ clock' = clock
         /\ snd' \in SenderType /\ snd'.last_packet_time <= clock
         /\ snd'.last_sender_report_time <= clock /\ snd'.sb_time <= clock
         /\ snd'.sequence_number = snd.sequence_number
         /\ snd'.packet_count = snd.packet_count
         /\ snd'.octet_count = snd.octet_count
         /\ ReportDue(snd) =>
              /\ snd'.timestamp = Stamped(snd, stamp).timestamp
              /\ snd'.last_packet_time = clock
              /\ snd'.last_sender_report_time = clock
         /\ ~ReportDue(snd) =>
              /\ snd'.timestamp = snd.timestamp
              /\ snd'.last_packet_time = snd.last_packet_time
              /\ snd'.last_sender_report_time = snd.last_sender_report_time
<1>1. clock' = clock /\ clock \in Nat /\ Timed(snd)
  BY DEF Poll, TypeOK, Timed
<1>2. CASE ReportDue(snd)
  <2> DEFINE r == Reported(snd, stamp)
  <2>1. /\ Timed(r) /\ r.last_packet_time = clock
        /\ r.timestamp = Stamped(snd, stamp).timestamp
        /\ r.sequence_number = snd.sequence_number
        /\ r.packet_count = snd.packet_count /\ r.octet_count = snd.octet_count
        /\ r.last_sender_report_time = clock
    BY ReportedEffect
  <2>2. snd' = Averaged(r) BY <1>2 DEF Poll
  <2> HIDE DEF r
  <2> QED BY <1>1, <1>2, <2>1, <2>2, AveragedEffect DEF Timed
<1>3. CASE ~ReportDue(snd)
  <2>1. snd' = Averaged(snd) BY <1>3 DEF Poll
  <2> QED BY <1>1, <1>3, <2>1, AveragedEffect DEF Timed
<1> QED BY <1>2, <1>3

-----------------------------------------------------------------------------
(* The subflows of a sender keep their types. *)
LEMMA SubflowsTyped ==
  /\ NewSubflow(0) \in SubflowType
  /\ \A sf \in SubflowType, payload \in Nat, accepted \in BOOLEAN :
       SendTo(sf, payload, accepted) \in SubflowType
<1>1. NewSubflow(0) \in SubflowType
  <2>1. 0 \in 0..CIMAX BY SubflowAssumption
  <2> QED BY <2>1, WordIsNat DEF NewSubflow, SubflowType
<1>2. ASSUME NEW sf \in SubflowType, NEW payload \in Nat, NEW accepted \in BOOLEAN
      PROVE  SendTo(sf, payload, accepted) \in SubflowType
  <2>1. /\ sf.sequence_number \in Seq16 /\ sf.packet_count \in Word
        /\ sf.octet_count \in Word /\ sf.packet_count_tt \in Word
        /\ sf.octet_count_tt \in Word
    BY DEF SubflowType
  <2>2. PICK q \in Seq16 : q = (sf.sequence_number + 1) % SeqMod
    <3>1. SeqMod \in Nat \ {0} /\ sf.sequence_number + 1 \in Int
      BY <2>1, WidthAssumption, WordIsNat
    <3>2. (sf.sequence_number + 1) % SeqMod \in Seq16
      BY <3>1, DivMod, Zenon DEF Seq16
    <3> QED BY <3>2
  <2>3. PICK a \in Word, b \in Word, c \in Word, d \in Word :
          /\ a = Plus32(sf.packet_count, 1) /\ b = Plus32(sf.octet_count, payload)
          /\ c = Plus32(sf.packet_count_tt, 1) /\ d = Plus32(sf.octet_count_tt, payload)
    <3>1. /\ sf.packet_count \in Int /\ sf.octet_count \in Int
          /\ sf.packet_count_tt \in Int /\ sf.octet_count_tt \in Int
          /\ 1 \in Int /\ payload \in Int
      BY <2>1, WordIsNat
    <3>2. /\ Plus32(sf.packet_count, 1) \in Word /\ Plus32(sf.octet_count, payload) \in Word
          /\ Plus32(sf.packet_count_tt, 1) \in Word
          /\ Plus32(sf.octet_count_tt, payload) \in Word
      BY <3>1, Plus32Type, Zenon
    <3> QED BY <3>2, Zenon
  <2> QED BY <2>2, <2>3 DEF SendTo, SubflowType
<1> QED BY <1>1, <1>2

(* Every step keeps the types, and no time of the sender is in the future. *)
LEMMA TypeStep ==
  ASSUME TypeOK, [Next]_vars PROVE TypeOK'
<1>h. ASSUME NEW stamp \in FirstStamps, StampHistory(stamp)
      PROVE  steps' \in Nat /\ origin' \in [time : Nat, stamp : Word]
  <2>1. /\ stamp \in Word /\ clock \in Nat /\ steps \in Nat
        /\ origin \in [time : Nat, stamp : Word]
    BY SenderAssumption DEF TypeOK
  <2>2. CASE snd.packet_count = 0 BY <1>h, <2>1, <2>2 DEF StampHistory
  <2>3. CASE snd.packet_count # 0 BY <1>h, <2>1, <2>3 DEF StampHistory
  <2> QED BY <2>2, <2>3
<1>1. CASE Tick BY <1>1, SenderFields DEF Tick, TypeOK, history
<1>2. ASSUME NEW paths \in 0..MaxPaths, Connect(paths) PROVE TypeOK'
  <2>1. [i \in 1..paths |-> NewSubflow(0)] \in Seq(SubflowType)
    BY SubflowsTyped, SenderAssumption
  <2>2. sfs' \in Seq(SubflowType) BY <1>2, <2>1 DEF Connect, TypeOK
  <2> QED BY <1>2, <2>2 DEF Connect, TypeOK, history
<1>3. ASSUME NEW i \in DOMAIN sfs, NEW payload \in Payloads,
             NEW accepted \in BOOLEAN, NEW stamp \in FirstStamps,
             SendData(i, payload, accepted, stamp)
      PROVE  TypeOK'
  <2>1. sfs' \in Seq(SubflowType)
    <3>1. sfs \in Seq(SubflowType) /\ sfs[i] \in SubflowType /\ payload \in Nat
      BY SenderAssumption DEF TypeOK
    <3>2. SendTo(sfs[i], payload, accepted) \in SubflowType
      BY <3>1, SubflowsTyped
    <3> QED BY <1>3, <3>1, <3>2 DEF SendData
  <2>2. clock' = clock /\ StampHistory(stamp) /\ taken' \in BOOLEAN
    BY <1>3 DEF SendData, TypeOK
  <2>3. /\ snd' \in SenderType /\ snd'.last_packet_time <= clock
        /\ snd'.last_sender_report_time <= clock /\ snd'.sb_time <= clock
    <3>1. /\ snd' \in SenderType /\ snd'.last_packet_time = clock
          /\ snd'.last_sender_report_time <= clock /\ snd'.sb_time <= clock
      BY <1>3, SendEffect
    <3>2. clock <= clock BY DEF TypeOK
    <3> QED BY <3>1, <3>2
  <2> QED BY <1>h, <2>1, <2>2, <2>3 DEF TypeOK
<1>4. ASSUME NEW stamp \in FirstStamps, Poll(stamp) PROVE TypeOK'
  <2>1. /\ sfs' = sfs /\ clock' = clock /\ taken' = taken
        /\ StampHistory(stamp) \/ UNCHANGED <<origin, steps>>
    BY <1>4 DEF Poll
  <2>2. steps' \in Nat /\ origin' \in [time : Nat, stamp : Word]
    <3>1. CASE StampHistory(stamp) BY <1>h, <3>1
    <3>2. CASE UNCHANGED <<origin, steps>> BY <3>2 DEF TypeOK
    <3> QED BY <2>1, <3>1, <3>2
  <2>3. /\ snd' \in SenderType /\ snd'.last_packet_time <= clock
        /\ snd'.last_sender_report_time <= clock /\ snd'.sb_time <= clock
    BY <1>4, PollEffect
  <2> QED BY <2>1, <2>2, <2>3 DEF TypeOK
<1>5. CASE UNCHANGED vars BY <1>5 DEF vars, history, TypeOK
<1> QED BY <1>1, <1>2, <1>3, <1>4, <1>5 DEF Next

(* Every member stays within its width and no time is in the future. *)
THEOREM TypeCorrect == Spec => []TypeOK
<1>1. Init => TypeOK
  <2> SUFFICES ASSUME Init PROVE TypeOK
    OBVIOUS
  <2>1. 1 \in Word /\ <<1, Second>> \in Word \X (Nat \ {0})
    BY WidthAssumption, SenderAssumption DEF Word
  <2>2. snd \in SenderType
    <3>1. PICK rate \in Word \X (Nat \ {0}) : rate = <<1, Second>> BY <2>1
    <3>2. snd = [sequence_number |-> 0, timestamp |-> 0,
                 packet_count |-> 0, octet_count |-> 0,
                 last_packet_time |-> 0, last_sender_report_time |-> 0,
                 sb_size |-> 0, sb_time |-> 0, stream_bitrate |-> rate]
      BY <3>1 DEF Init
    <3> QED BY <3>2, WordIsNat DEF SenderType
  <2>3. /\ snd.last_packet_time = 0 /\ snd.last_sender_report_time = 0
        /\ snd.sb_time = 0 /\ clock = 1 /\ steps = 0 /\ taken = FALSE
        /\ 1 \in Nat \ {0} /\ 0 \in Nat
    BY DEF Init
  <2>4. sfs \in Seq(SubflowType) BY DEF Init
  <2>5. origin \in [time : Nat, stamp : Word] BY WordIsNat DEF Init
  <2>6. clock \in Nat \ {0} /\ steps \in Nat /\ taken \in BOOLEAN
    BY <2>3, Zenon
  <2>7. /\ snd.last_packet_time <= clock /\ snd.last_sender_report_time <= clock
        /\ snd.sb_time <= clock
    BY <2>3
  <2> QED BY <2>2, <2>4, <2>5, <2>6, <2>7, Zenon DEF TypeOK
<1>2. TypeOK /\ [Next]_vars => TypeOK' BY TypeStep
<1> QED BY <1>1, <1>2, PTL DEF Spec

-----------------------------------------------------------------------------
(* The timer of the reports runs from the first packet taken: a packet can *)
(* have been counted only if one was taken, and time begins at 1, so that  *)
(* a timer that is set is not zero.                                        *)
CountedWhenTaken == snd.packet_count # 0 => taken

(* Of sender::poll: no sender report goes out before a packet has been     *)
(* taken, and one packet suffices to start the timer.                      *)
THEOREM ReportsAlwaysStartWithPackets == Spec => []ReportsStartWithPackets
<1> DEFINE Inv == CountedWhenTaken /\ ReportsStartWithPackets
<1>1. Init => Inv BY DEF Init, CountedWhenTaken, ReportsStartWithPackets
<1>2. TypeOK /\ Inv /\ [Next]_vars => Inv'
  <2> SUFFICES ASSUME TypeOK, Inv, [Next]_vars PROVE Inv'
    OBVIOUS
  <2> USE DEF CountedWhenTaken, ReportsStartWithPackets
  <2>t. clock \in Nat \ {0} /\ snd.last_sender_report_time \in Nat
    BY SenderFields DEF TypeOK
  <2>1. CASE Tick BY <2>1 DEF Tick, history
  <2>2. ASSUME NEW paths \in 0..MaxPaths, Connect(paths) PROVE Inv'
    BY <2>2 DEF Connect, history
  <2>3. ASSUME NEW i \in DOMAIN sfs, NEW payload \in Payloads,
               NEW accepted \in BOOLEAN, NEW stamp \in FirstStamps,
               SendData(i, payload, accepted, stamp)
        PROVE  Inv'
    <3>1. taken' = (taken \/ accepted) BY <2>3 DEF SendData
    <3>2. /\ ~accepted => snd'.packet_count = snd.packet_count
          /\ snd'.last_sender_report_time =
               IF accepted /\ snd.packet_count = 0 THEN clock
               ELSE snd.last_sender_report_time
      BY <2>3, SendEffect
    <3>3. CASE accepted
      <4>1. taken' BY <3>1, <3>3
      <4>2. snd'.last_sender_report_time > 0 BY <2>t, <3>2, <3>3
      <4> QED BY <4>1, <4>2
    <3>4. CASE ~accepted
      <4>1. taken' <=> taken BY <3>1, <3>4
      <4> QED BY <3>2, <3>4, <4>1
    <3> QED BY <3>3, <3>4
  <2>4. ASSUME NEW stamp \in FirstStamps, Poll(stamp) PROVE Inv'
    <3>1. /\ snd'.packet_count = snd.packet_count
          /\ snd'.last_sender_report_time =
               IF ReportDue(snd) THEN clock ELSE snd.last_sender_report_time
      BY <2>4, PollEffect
    <3>2. taken' = taken BY <2>4 DEF Poll
    <3> QED BY <2>t, <3>1, <3>2 DEF ReportDue
  <2>5. CASE UNCHANGED vars BY <2>5 DEF vars, history
  <2> QED BY <2>1, <2>2, <2>3, <2>4, <2>5 DEF Next
<1> QED BY <1>1, <1>2, TypeCorrect, PTL DEF Spec

-----------------------------------------------------------------------------
(* Comparing whole seconds is off by less than one of them. *)
LEMMA SecondsApart ==
  ASSUME NEW a \in Nat, NEW b \in Nat
  PROVE  /\ Seconds(b) - Seconds(a) < ReportEvery => b - a < ReportEvery * Second
         /\ Seconds(b) - Seconds(a) >= ReportEvery =>
              b - a > (ReportEvery - 1) * Second
<1>1. PICK s \in Nat \ {0}, e \in Nat \ {0} : s = Second /\ e = ReportEvery
  BY SenderAssumption
<1>2. PICK p \in Int, q \in 0..(s - 1) : p = a \div s /\ a = s * p + q
  BY DivMod
<1>3. PICK x \in Int, y \in 0..(s - 1) : x = b \div s /\ b = s * x + y
  BY DivMod
<1>4. b - a = s * (x - p) + (y - q) BY <1>2, <1>3
<1>5. ASSUME x - p < e PROVE b - a < e * s
  <2>1. s * (x - p) <= s * (e - 1) BY <1>5
  <2>2. s * (e - 1) = e * s - s OBVIOUS
  <2> QED BY <1>4, <2>1, <2>2
<1>6. ASSUME x - p >= e PROVE b - a > (e - 1) * s
  <2>1. s * (x - p) >= s * e BY <1>6
  <2>2. (e - 1) * s = s * e - s OBVIOUS
  <2> QED BY <1>4, <2>1, <2>2
<1> QED BY <1>1, <1>2, <1>3, <1>5, <1>6 DEF Seconds

(* Reports keep their time, whenever poll is called. *)
THEOREM ReportsAlwaysKeepTime == Spec => ReportsKeepTime
<1>1. ASSUME TypeOK, NEW stamp \in FirstStamps, Poll(stamp),
             snd.last_sender_report_time > 0
      PROVE  /\ clock - snd'.last_sender_report_time < ReportEvery * Second
             /\ snd'.last_sender_report_time # snd.last_sender_report_time =>
                  clock - snd.last_sender_report_time > (ReportEvery - 1) * Second
  <2>1. clock \in Nat /\ snd.last_sender_report_time \in Nat
    BY <1>1, SenderFields DEF TypeOK
  <2>2. snd'.last_sender_report_time =
          IF ReportDue(snd) THEN clock ELSE snd.last_sender_report_time
    BY <1>1, PollEffect
  <2>3. /\ Seconds(clock) \in Int /\ Seconds(snd.last_sender_report_time) \in Int
        /\ ReportEvery \in Nat
    BY <2>1, SenderAssumption DEF Seconds
  <2>4. ReportDue(snd) <=>
          Seconds(clock) - Seconds(snd.last_sender_report_time) >= ReportEvery
    BY <1>1, <2>1 DEF ReportDue
  <2>5. ReportEvery * Second > 0 /\ clock - clock = 0
    BY <2>1, SenderAssumption
  <2>6. CASE ReportDue(snd)
    BY <2>1, <2>2, <2>4, <2>5, <2>6, SecondsApart
  <2>7. CASE ~ReportDue(snd)
    <3>1. Seconds(clock) - Seconds(snd.last_sender_report_time) < ReportEvery
      BY <2>3, <2>4, <2>7
    <3> QED BY <2>1, <2>2, <2>7, <3>1, SecondsApart
  <2> QED BY <2>6, <2>7
<1>2. TypeOK =>
        [ /\ \E stamp \in FirstStamps : Poll(stamp)
          /\ snd.last_sender_report_time > 0
          => /\ clock - snd'.last_sender_report_time < ReportEvery * Second
             /\ snd'.last_sender_report_time # snd.last_sender_report_time =>
                  clock - snd.last_sender_report_time > (ReportEvery - 1) * Second
        ]_vars
  BY <1>1
<1> QED BY <1>2, TypeCorrect, PTL DEF ReportsKeepTime

-----------------------------------------------------------------------------
(* The timestamps.  The invariant keeps the units that the timestamp has   *)
(* advanced by, laps included, no more of them than ticks have passed.     *)
Advanced(units) ==
  LET elapsed == 2 * (snd.last_packet_time - origin.time)
  IN  /\ snd.timestamp = Plus32(origin.stamp, units)
      /\ 2 * TsUnit * units - elapsed <= steps * TsUnit
      /\ elapsed - 2 * TsUnit * units <= steps * TsUnit

Stampings ==
  /\ origin.time <= snd.last_packet_time
  /\ \E units \in 0..(snd.last_packet_time - origin.time) : Advanced(units)

(* A random timestamp begins again, any other one adds at most half a unit *)
(* to the error.                                                           *)
LEMMA StampingsStep ==
  ASSUME TypeOK, Stampings, NEW stamp \in FirstStamps, StampHistory(stamp),
         snd'.timestamp = Stamped(snd, stamp).timestamp,
         snd'.last_packet_time = clock
  PROVE  Stampings'
<1>t. /\ TsUnit \in Nat \ {0} /\ steps \in Nat /\ clock \in Nat
      /\ origin.time \in Nat /\ origin.stamp \in Nat
      /\ snd.last_packet_time \in Nat /\ snd.last_packet_time <= clock
      /\ snd.timestamp \in Nat
  BY SenderAssumption, SenderFields, WordIsNat DEF TypeOK
<1>w. stamp \in Nat /\ stamp < WordMod /\ WordMod \in Nat \ {0}
  BY SenderAssumption, WidthAssumption DEF Word
<1>1. CASE snd.packet_count = 0
  <2>1. origin'.time = clock /\ origin'.stamp = stamp /\ steps' = 0
    BY <1>1 DEF StampHistory
  <2>2. snd'.timestamp = stamp BY <1>1, StampedEffect
  <2>3. Plus32(stamp, 0) = stamp BY <1>w DEF Plus32
  <2>4. Advanced(0)'
    BY <1>t, <2>1, <2>2, <2>3 DEF Advanced
  <2> QED BY <1>t, <2>1, <2>4 DEF Stampings
<1>2. CASE snd.packet_count # 0
  <2> DEFINE d == clock - snd.last_packet_time
  <2>1. d \in Nat BY <1>t
  <2>2. PICK u \in Nat : /\ u = Units(d) /\ u <= d
                         /\ 2 * TsUnit * u - 2 * d <= TsUnit
                         /\ 2 * d - 2 * TsUnit * u <= TsUnit
    <3> HIDE DEF d
    <3> QED BY <2>1, UnitsRound
  <2>3. PICK units \in 0..(snd.last_packet_time - origin.time) : Advanced(units)
    BY DEF Stampings
  <2>4. origin' = origin /\ steps' = steps + 1 BY <1>2 DEF StampHistory
  <2>5. snd'.timestamp = Plus32(snd.timestamp, u) BY <1>2, <2>2, StampedEffect
  <2>6. snd'.timestamp = Plus32(origin.stamp, units + u)
    <3>1. snd.timestamp = (origin.stamp + units) % WordMod
      BY <2>3 DEF Advanced, Plus32
    <3>2. origin.stamp + units \in Int /\ u \in Int BY <1>t
    <3>3. (((origin.stamp + units) % WordMod) + u) % WordMod
            = ((origin.stamp + units) + u) % WordMod
      BY <1>w, <3>2, ModAdd
    <3>4. (origin.stamp + units) + u = origin.stamp + (units + u) BY <1>t
    <3> QED BY <2>5, <3>1, <3>3, <3>4 DEF Plus32
  <2>7. units + u \in 0..(clock - origin.time) /\ origin.time <= clock
    BY <1>t, <2>2, <2>3
  <2>8. Advanced(units + u)'
    <3> DEFINE e == snd.last_packet_time - origin.time
    <3>1. e \in Int BY <1>t
    <3>2. PICK a \in Int, b \in Int, c \in Int :
            a = 2 * TsUnit * units /\ b = 2 * TsUnit * u /\ c = steps * TsUnit
      BY <1>t
    <3>3. /\ 2 * TsUnit * (units + u) = a + b
          /\ (steps + 1) * TsUnit = c + TsUnit
          /\ 2 * (clock - origin.time) = 2 * e + 2 * d
      BY <1>t, <3>2
    <3>4. a - 2 * e <= c /\ 2 * e - a <= c
      BY <2>3, <3>2 DEF Advanced
    <3>5. /\ (a + b) - (2 * e + 2 * d) <= c + TsUnit
          /\ (2 * e + 2 * d) - (a + b) <= c + TsUnit
      <4> HIDE DEF d, e
      <4> QED BY <1>t, <2>1, <2>2, <3>1, <3>2, <3>4
    <3> HIDE DEF d, e
    <3> QED BY <2>4, <2>6, <3>3, <3>5 DEF Advanced
  <2> QED BY <2>4, <2>7, <2>8 DEF Stampings
<1> QED BY <1>1, <1>2

(* Splitting the units into laps of the 32 bits gives the property. *)
LEMMA StampingsFollow ==
  ASSUME TypeOK, Stampings PROVE StampsFollowClock
<1>t. /\ clock \in Nat /\ origin.time \in Nat /\ origin.stamp \in Nat
      /\ snd.last_packet_time \in Nat /\ snd.last_packet_time <= clock
  BY SenderFields, WordIsNat DEF TypeOK
<1>1. PICK units \in 0..(snd.last_packet_time - origin.time) : Advanced(units)
  BY DEF Stampings
<1>w. WordMod \in Nat \ {0} BY WidthAssumption
<1>2. PICK laps \in Int, rest \in 0..(WordMod - 1) :
        units = WordMod * laps + rest
  <2>1. units \in Int BY <1>t, <1>1
  <2> QED BY <2>1, <1>w, Split
<1>3. laps \in 0..clock
  <2>1. laps >= 0
    <3> SUFFICES ASSUME laps < 0 PROVE FALSE
      OBVIOUS
    <3>1. WordMod * laps <= -WordMod BY <1>w
    <3> QED BY <1>1, <1>2, <1>w, <3>1
  <2>2. laps <= WordMod * laps BY <2>1, <1>w
  <2> QED BY <1>t, <1>2, <2>1, <2>2, <1>w
<1>4. Minus32(snd.timestamp, origin.stamp) = rest
  <2>1. snd.timestamp = (origin.stamp + units) % WordMod
    BY <1>1 DEF Advanced, Plus32
  <2>2. origin.stamp + units \in Int /\ -origin.stamp \in Int /\ units \in Int
    BY <1>t
  <2>3. (((origin.stamp + units) % WordMod) + (-origin.stamp)) % WordMod
          = ((origin.stamp + units) + (-origin.stamp)) % WordMod
    BY <1>w, <2>2, ModAdd
  <2>4. (origin.stamp + units) % WordMod \in Int BY <1>w, <2>2
  <2>5. /\ (origin.stamp + units) + (-origin.stamp) = units
        /\ ((origin.stamp + units) % WordMod) + (-origin.stamp)
             = ((origin.stamp + units) % WordMod) - origin.stamp
    BY <1>t, <2>4
  <2>6. units % WordMod = rest BY <1>2, <1>w, Unique
  <2> QED BY <2>1, <2>3, <2>5, <2>6 DEF Minus32
<1>5. laps * WordMod + Minus32(snd.timestamp, origin.stamp) = units
  <2>1. laps * WordMod + rest = units BY <1>2, <1>3, <1>w
  <2> QED BY <2>1, <1>4
<1> QED BY <1>1, <1>3, <1>5 DEF StampsFollowClock, Advanced

(* Timestamps follow the clock, for as long as a stream lasts. *)
THEOREM StampsAlwaysFollowClock == Spec => []StampsFollowClock
<1>1. Init => Stampings
  <2> SUFFICES ASSUME Init PROVE Stampings
    OBVIOUS
  <2>1. Plus32(0, 0) = 0 BY WidthAssumption DEF Plus32
  <2>2. Advanced(0)
    BY <2>1, SenderAssumption DEF Init, Advanced
  <2> QED BY <2>2 DEF Init, Stampings
<1>2. TypeOK /\ Stampings /\ [Next]_vars => Stampings'
  <2> SUFFICES ASSUME TypeOK, Stampings, [Next]_vars PROVE Stampings'
    OBVIOUS
  <2>0. ASSUME snd'.timestamp = snd.timestamp,
               snd'.last_packet_time = snd.last_packet_time,
               UNCHANGED <<origin, steps>>
        PROVE  Stampings'
    BY <2>0 DEF Stampings, Advanced
  <2>1. CASE Tick BY <2>0, <2>1 DEF Tick, history
  <2>2. ASSUME NEW paths \in 0..MaxPaths, Connect(paths) PROVE Stampings'
    BY <2>0, <2>2 DEF Connect, history
  <2>3. ASSUME NEW i \in DOMAIN sfs, NEW payload \in Payloads,
               NEW accepted \in BOOLEAN, NEW stamp \in FirstStamps,
               SendData(i, payload, accepted, stamp)
        PROVE  Stampings'
    <3>1. StampHistory(stamp) BY <2>3 DEF SendData
    <3> QED BY <2>3, <3>1, SendEffect, StampingsStep
  <2>4. ASSUME NEW stamp \in FirstStamps, Poll(stamp) PROVE Stampings'
    <3>1. CASE ReportDue(snd)
      <4>1. StampHistory(stamp) BY <2>4, <3>1 DEF Poll
      <4> QED BY <2>4, <3>1, <4>1, PollEffect, StampingsStep
    <3>2. CASE ~ReportDue(snd)
      <4>1. UNCHANGED <<origin, steps>> BY <2>4, <3>2 DEF Poll
      <4> QED BY <2>0, <2>4, <3>2, <4>1, PollEffect
    <3> QED BY <3>1, <3>2
  <2>5. CASE UNCHANGED vars BY <2>0, <2>5 DEF vars, history
  <2> QED BY <2>1, <2>2, <2>3, <2>4, <2>5 DEF Next
<1>3. TypeOK /\ Stampings => StampsFollowClock BY StampingsFollow
<1> QED BY <1>1, <1>2, <1>3, TypeCorrect, PTL DEF Spec

-----------------------------------------------------------------------------
(* The totals.  Each is the sum over the subflows of a counter of theirs.  *)
PacketsOf(q) == [i \in DOMAIN q |-> q[i].packet_count]
OctetsOf(q) == [i \in DOMAIN q |-> q[i].octet_count]
NumbersOf(q) == [i \in DOMAIN q |-> q[i].sequence_number]

(* The totals agree with the subflows exactly if they are the sums over    *)
(* them, up to the width of the fields.                                    *)
LEMMA TotalsAreSums ==
  TotalsAgree <=> /\ snd.packet_count = SumFunction(PacketsOf(sfs)) % WordMod
                  /\ snd.octet_count = SumFunction(OctetsOf(sfs)) % WordMod
                  /\ snd.sequence_number = SumFunction(NumbersOf(sfs)) % SeqMod
  BY DEF TotalsAgree, PacketsOf, OctetsOf, NumbersOf

(* Adding p to one counter, modulo w, adds p to the sum modulo w.  The two *)
(* operators keep the remainders out of the provers' sight.                *)
AddModulo(a, p, w) == (a + p) % w
SumModulo(f, w) == SumFunction(f) % w

(* If one member grows by p modulo w, the sum modulo w does. *)
LEMMA CountModulo ==
  ASSUME NEW S, IsFiniteSet(S), NEW f \in [S -> Nat], NEW e \in [S -> Nat],
         NEW i \in S, \A j \in S \ {i} : e[j] = f[j],
         NEW p \in Nat, NEW w \in Nat \ {0}, e[i] = AddModulo(f[i], p, w)
  PROVE  SumModulo(e, w) = AddModulo(SumModulo(f, w), p, w)
<1>1. PICK x \in Nat : x = f[i] OBVIOUS
<1>2. PICK v \in Nat : v = e[i] OBVIOUS
<1>3. v = (x + p) % w BY <1>1, <1>2 DEF AddModulo
<1>4. SumFunction(f) \in Nat /\ SumFunction(e) = SumFunction(f) - x + v
  BY <1>1, <1>2, SumChange
<1>5. PICK t \in Nat : t = SumFunction(f) BY <1>4, Zenon
<1>6. x + p \in Int /\ t - x \in Int /\ t \in Int /\ p \in Int OBVIOUS
<1>7. (((x + p) % w) + (t - x)) % w = ((x + p) + (t - x)) % w
  BY <1>6, ModAdd, Zenon
<1>8. (x + p) + (t - x) = t + p /\ t - x + v = v + (t - x) OBVIOUS
<1>9. ((t % w) + p) % w = (t + p) % w BY <1>6, ModAdd, Zenon
<1>10. (t - x + v) % w = ((t % w) + p) % w BY <1>3, <1>7, <1>8, <1>9
<1> QED BY <1>4, <1>5, <1>10 DEF AddModulo, SumModulo

(* The same, its hypotheses one predicate. *)
OneCounts(S, f, e, i, p, w) ==
  /\ IsFiniteSet(S) /\ i \in S /\ p \in Nat /\ w \in Nat \ {0}
  /\ f \in [S -> Nat] /\ e \in [S -> Nat]
  /\ \A j \in S \ {i} : e[j] = f[j]
  /\ e[i] = AddModulo(f[i], p, w)

(* The same with the facts as one condition, for citing. *)
LEMMA OneCountsModulo ==
  \A S, f, e, i, p, w : OneCounts(S, f, e, i, p, w)
    => SumModulo(e, w) = AddModulo(SumModulo(f, w), p, w)
<1> SUFFICES ASSUME NEW S, NEW f, NEW e, NEW i, NEW p, NEW w,
                    OneCounts(S, f, e, i, p, w)
             PROVE  SumModulo(e, w) = AddModulo(SumModulo(f, w), p, w)
  BY Zenon
<1> QED BY CountModulo DEF OneCounts

(* The counters of subflows are natural numbers, finitely many. *)
LEMMA PartTypes ==
  ASSUME NEW q \in Seq(SubflowType)
  PROVE  /\ IsFiniteSet(DOMAIN q)
         /\ PacketsOf(q) \in [DOMAIN q -> Nat]
         /\ OctetsOf(q) \in [DOMAIN q -> Nat]
         /\ NumbersOf(q) \in [DOMAIN q -> Nat]
<1>1. IsFiniteSet(DOMAIN q)
  <2>1. DOMAIN q = 1..Len(q) /\ Len(q) \in Int OBVIOUS
  <2>2. 1 \in Int OBVIOUS
  <2> QED BY <2>1, <2>2, FS_Interval, Zenon
<1>2. \A i \in DOMAIN q : /\ q[i].packet_count \in Word
                          /\ q[i].octet_count \in Word
                          /\ q[i].sequence_number \in Seq16
  <2>1. \A i \in DOMAIN q : q[i] \in SubflowType OBVIOUS
  <2> QED BY <2>1 DEF SubflowType
<1> QED BY <1>1, <1>2, WordIsNat DEF PacketsOf, OctetsOf, NumbersOf

(* A new subflow has counted nothing. *)
LEMMA ConnectTotals ==
  ASSUME TypeOK, NEW paths \in 0..MaxPaths, Connect(paths)
  PROVE  /\ SumFunction(PacketsOf(sfs')) = SumFunction(PacketsOf(sfs))
         /\ SumFunction(OctetsOf(sfs')) = SumFunction(OctetsOf(sfs))
         /\ SumFunction(NumbersOf(sfs')) = SumFunction(NumbersOf(sfs))
<1> DEFINE S == DOMAIN sfs
           R == 1..(Len(sfs) + paths)
<1>1. sfs \in Seq(SubflowType) /\ Len(sfs) \in Nat /\ S = 1..Len(sfs) /\ paths \in Nat
  BY SenderAssumption DEF TypeOK
<1>2. /\ DOMAIN sfs' = R /\ \A i \in S : sfs'[i] = sfs[i]
      /\ \A i \in R \ S : sfs'[i] = NewSubflow(0)
  BY <1>1 DEF Connect
<1>3. IsFiniteSet(R)
  <2>1. 1 \in Int /\ Len(sfs) + paths \in Int BY <1>1
  <2> QED BY <2>1, FS_Interval, Zenon
<1>4. S \in SUBSET R BY <1>1
<1>5. /\ PacketsOf(sfs) \in [S -> Nat] /\ OctetsOf(sfs) \in [S -> Nat]
      /\ NumbersOf(sfs) \in [S -> Nat]
  BY <1>1, PartTypes
<1> HIDE DEF R, S
<1>6. ASSUME NEW e, NEW f \in [S -> Nat], DOMAIN e = R, e = [i \in R |-> e[i]],
             \A i \in S : e[i] = f[i], \A i \in R \ S : e[i] = 0
      PROVE  SumFunction(e) = SumFunction(f)
  <2>1. \A i \in R : e[i] \in Nat BY <1>6
  <2>2. e \in [R -> Nat] BY <1>6, <2>1
  <2> QED BY <1>3, <1>4, <1>6, <2>2, SumPad
<1>7. /\ NewSubflow(0).packet_count = 0 /\ NewSubflow(0).octet_count = 0
      /\ NewSubflow(0).sequence_number = 0
  BY DEF NewSubflow
<1>8. SumFunction(PacketsOf(sfs')) = SumFunction(PacketsOf(sfs))
  <2>1. PacketsOf(sfs') = [i \in R |-> sfs'[i].packet_count] BY <1>2 DEF PacketsOf
  <2>2. /\ \A i \in S : PacketsOf(sfs')[i] = PacketsOf(sfs)[i]
        /\ \A i \in R \ S : PacketsOf(sfs')[i] = 0
    BY <1>2, <1>4, <1>7, <2>1 DEF PacketsOf, S
  <2>3. DOMAIN PacketsOf(sfs') = R /\ PacketsOf(sfs') = [i \in R |-> PacketsOf(sfs')[i]]
    BY <2>1
  <2> QED BY <1>5, <1>6, <2>2, <2>3
<1>9. SumFunction(OctetsOf(sfs')) = SumFunction(OctetsOf(sfs))
  <2>1. OctetsOf(sfs') = [i \in R |-> sfs'[i].octet_count] BY <1>2 DEF OctetsOf
  <2>2. /\ \A i \in S : OctetsOf(sfs')[i] = OctetsOf(sfs)[i]
        /\ \A i \in R \ S : OctetsOf(sfs')[i] = 0
    BY <1>2, <1>4, <1>7, <2>1 DEF OctetsOf, S
  <2>3. DOMAIN OctetsOf(sfs') = R /\ OctetsOf(sfs') = [i \in R |-> OctetsOf(sfs')[i]]
    BY <2>1
  <2> QED BY <1>5, <1>6, <2>2, <2>3
<1>10. SumFunction(NumbersOf(sfs')) = SumFunction(NumbersOf(sfs))
  <2>1. NumbersOf(sfs') = [i \in R |-> sfs'[i].sequence_number]
    BY <1>2 DEF NumbersOf
  <2>2. /\ \A i \in S : NumbersOf(sfs')[i] = NumbersOf(sfs)[i]
        /\ \A i \in R \ S : NumbersOf(sfs')[i] = 0
    BY <1>2, <1>4, <1>7, <2>1 DEF NumbersOf, S
  <2>3. DOMAIN NumbersOf(sfs') = R /\ NumbersOf(sfs') = [i \in R |-> NumbersOf(sfs')[i]]
    BY <2>1
  <2> QED BY <1>5, <1>6, <2>2, <2>3
<1> QED BY <1>8, <1>9, <1>10

(* Packet i of the subflows q has been sent, and r are the subflows after. *)
Sent(q, r, i, payload, accepted) ==
  /\ q \in Seq(SubflowType) /\ r \in Seq(SubflowType)
  /\ i \in DOMAIN q /\ payload \in Nat /\ accepted \in BOOLEAN
  /\ DOMAIN r = DOMAIN q
  /\ \A j \in DOMAIN q :
       r[j] = IF j = i THEN SendTo(q[i], payload, accepted) ELSE q[j]

(* A packet is counted by its subflow: one counter of each kind changes.   *)
LEMMA SendCounts ==
  ASSUME NEW q, NEW r, NEW i, NEW payload, NEW accepted,
         Sent(q, r, i, payload, accepted)
  PROVE  /\ OneCounts(DOMAIN q, NumbersOf(q), NumbersOf(r), i, 1, SeqMod)
         /\ accepted =>
              /\ OneCounts(DOMAIN q, PacketsOf(q), PacketsOf(r), i, 1, WordMod)
              /\ OneCounts(DOMAIN q, OctetsOf(q), OctetsOf(r), i, payload, WordMod)
         /\ ~accepted => /\ PacketsOf(r) = PacketsOf(q)
                         /\ OctetsOf(r) = OctetsOf(q)
<1>w. WordMod \in Nat \ {0} /\ SeqMod \in Nat \ {0} /\ 1 \in Nat
  BY WidthAssumption
<1>1. DOMAIN r = DOMAIN q /\ q[i] \in SubflowType /\ payload \in Nat BY DEF Sent
<1>2. \A j \in DOMAIN q : r[j] = IF j = i THEN SendTo(q[i], payload, accepted) ELSE q[j]
  BY DEF Sent
<1>3. /\ SendTo(q[i], payload, accepted).packet_count
           = IF accepted THEN AddModulo(q[i].packet_count, 1, WordMod)
             ELSE q[i].packet_count
      /\ SendTo(q[i], payload, accepted).octet_count
           = IF accepted THEN AddModulo(q[i].octet_count, payload, WordMod)
             ELSE q[i].octet_count
      /\ SendTo(q[i], payload, accepted).sequence_number
           = AddModulo(q[i].sequence_number, 1, SeqMod)
  BY <1>1 DEF SendTo, SubflowType, Plus32, AddModulo
<1>4. PICK S : S = DOMAIN q OBVIOUS
<1>5. /\ IsFiniteSet(S) /\ i \in S /\ DOMAIN r = S
      /\ PacketsOf(q) \in [S -> Nat] /\ PacketsOf(r) \in [S -> Nat]
      /\ OctetsOf(q) \in [S -> Nat] /\ OctetsOf(r) \in [S -> Nat]
      /\ NumbersOf(q) \in [S -> Nat] /\ NumbersOf(r) \in [S -> Nat]
  BY <1>1, <1>4, PartTypes DEF Sent
<1>6. OneCounts(S, NumbersOf(q), NumbersOf(r), i, 1, SeqMod)
  <2>1. /\ \A j \in S \ {i} : NumbersOf(r)[j] = NumbersOf(q)[j]
        /\ NumbersOf(r)[i] = AddModulo(NumbersOf(q)[i], 1, SeqMod)
    BY <1>1, <1>2, <1>3, <1>4, <1>5 DEF NumbersOf
  <2> QED BY <1>w, <1>5, <2>1, Zenon DEF OneCounts
<1>7. ASSUME accepted
      PROVE  /\ OneCounts(S, PacketsOf(q), PacketsOf(r), i, 1, WordMod)
             /\ OneCounts(S, OctetsOf(q), OctetsOf(r), i, payload, WordMod)
  <2>1. /\ \A j \in S \ {i} : PacketsOf(r)[j] = PacketsOf(q)[j]
        /\ PacketsOf(r)[i] = AddModulo(PacketsOf(q)[i], 1, WordMod)
    BY <1>1, <1>2, <1>3, <1>4, <1>5, <1>7 DEF PacketsOf
  <2>2. /\ \A j \in S \ {i} : OctetsOf(r)[j] = OctetsOf(q)[j]
        /\ OctetsOf(r)[i] = AddModulo(OctetsOf(q)[i], payload, WordMod)
    BY <1>1, <1>2, <1>3, <1>4, <1>5, <1>7 DEF OctetsOf
  <2>3. OneCounts(S, PacketsOf(q), PacketsOf(r), i, 1, WordMod)
    BY <1>w, <1>5, <2>1, Zenon DEF OneCounts
  <2>4. OneCounts(S, OctetsOf(q), OctetsOf(r), i, payload, WordMod)
    BY <1>1, <1>w, <1>5, <2>2, Zenon DEF OneCounts
  <2> QED BY <2>3, <2>4, Zenon
<1>8. ASSUME ~accepted PROVE PacketsOf(r) = PacketsOf(q) /\ OctetsOf(r) = OctetsOf(q)
  BY <1>1, <1>2, <1>3, <1>8 DEF PacketsOf, OctetsOf
<1> QED BY <1>4, <1>6, <1>7, <1>8, Zenon

(* What subflow::sendto adds to the three sums: a number in any case, a    *)
(* packet and its payload if the socket accepts it.                        *)
LEMMA SendTotals ==
  \A q, r, i, payload, accepted : Sent(q, r, i, payload, accepted) =>
     /\ SumModulo(NumbersOf(r), SeqMod)
          = AddModulo(SumModulo(NumbersOf(q), SeqMod), 1, SeqMod)
     /\ accepted =>
          /\ SumModulo(PacketsOf(r), WordMod)
               = AddModulo(SumModulo(PacketsOf(q), WordMod), 1, WordMod)
          /\ SumModulo(OctetsOf(r), WordMod)
               = AddModulo(SumModulo(OctetsOf(q), WordMod), payload, WordMod)
     /\ ~accepted => /\ PacketsOf(r) = PacketsOf(q)
                     /\ OctetsOf(r) = OctetsOf(q)
  BY SendCounts, OneCountsModulo

(* What a sender report says of the stream is the sum over its subflows.   *)
THEOREM TotalsAlwaysAgree == Spec => []TotalsAgree
<1> DEFINE Sums == /\ snd.packet_count = SumFunction(PacketsOf(sfs)) % WordMod
                   /\ snd.octet_count = SumFunction(OctetsOf(sfs)) % WordMod
                   /\ snd.sequence_number = SumFunction(NumbersOf(sfs)) % SeqMod
<1>w. WordMod \in Nat \ {0} /\ SeqMod \in Nat \ {0} BY WidthAssumption
<1>1. Init => Sums
  <2> SUFFICES ASSUME Init PROVE Sums
    OBVIOUS
  <2> DEFINE none == [i \in {} |-> 0]
  <2>1. SumFunction(none) = 0
    <3>1. IsFiniteSet({}) BY FS_EmptySet
    <3>2. none \in [{} -> Nat] /\ DOMAIN none = {} OBVIOUS
    <3> HIDE DEF none
    <3>3. PICK g : AddsUp(g, none, {}) /\ SumFunctionOnSet(none, {}) = g[{}]
      BY <3>1, <3>2, SumIsFold, Zenon
    <3>4. g[{}] = 0
      <4>1. g = [s \in SUBSET {} |-> SumStep(g, none, s)] BY <3>3 DEF AddsUp
      <4>2. g[{}] = SumStep(g, none, {}) BY <4>1
      <4> QED BY <4>2 DEF SumStep
    <3> QED BY <3>2, <3>3, <3>4 DEF SumFunction
  <2>2. PacketsOf(sfs) = none /\ OctetsOf(sfs) = none /\ NumbersOf(sfs) = none
    BY DEF Init, PacketsOf, OctetsOf, NumbersOf
  <2>3. 0 % WordMod = 0 /\ 0 % SeqMod = 0 BY <1>w
  <2>4. snd.packet_count = 0 /\ snd.octet_count = 0 /\ snd.sequence_number = 0
    BY DEF Init
  <2> QED BY <2>1, <2>2, <2>3, <2>4
<1>2. TypeOK /\ Sums /\ [Next]_vars => Sums'
  <2> SUFFICES ASSUME TypeOK, Sums, [Next]_vars PROVE Sums'
    OBVIOUS
  <2>0. ASSUME sfs' = sfs, snd'.packet_count = snd.packet_count,
               snd'.octet_count = snd.octet_count,
               snd'.sequence_number = snd.sequence_number
        PROVE  Sums'
    BY <2>0
  <2>1. CASE Tick BY <2>0, <2>1 DEF Tick
  <2>2. ASSUME NEW paths \in 0..MaxPaths, Connect(paths) PROVE Sums'
    <3>1. snd' = snd BY <2>2 DEF Connect
    <3> QED BY <2>2, <3>1, ConnectTotals
  <2>3. ASSUME NEW i \in DOMAIN sfs, NEW payload \in Payloads,
               NEW accepted \in BOOLEAN, NEW stamp \in FirstStamps,
               SendData(i, payload, accepted, stamp)
        PROVE  Sums'
    <3>1. payload \in Nat /\ sfs' = [sfs EXCEPT ![i] = SendTo(@, payload, accepted)]
      BY <2>3, SenderAssumption DEF SendData
    <3>2. TypeOK' BY TypeStep
    <3>3. /\ SumModulo(NumbersOf(sfs'), SeqMod)
              = AddModulo(SumModulo(NumbersOf(sfs), SeqMod), 1, SeqMod)
          /\ accepted =>
              /\ SumModulo(PacketsOf(sfs'), WordMod)
                   = AddModulo(SumModulo(PacketsOf(sfs), WordMod), 1, WordMod)
              /\ SumModulo(OctetsOf(sfs'), WordMod)
                   = AddModulo(SumModulo(OctetsOf(sfs), WordMod), payload, WordMod)
          /\ ~accepted => /\ PacketsOf(sfs') = PacketsOf(sfs)
                          /\ OctetsOf(sfs') = OctetsOf(sfs)
      <4>1. sfs \in Seq(SubflowType) /\ sfs' \in Seq(SubflowType)
        BY <3>2 DEF TypeOK
      <4>2. /\ DOMAIN sfs' = DOMAIN sfs
            /\ \A j \in DOMAIN sfs :
                 sfs'[j] = IF j = i THEN SendTo(sfs[i], payload, accepted) ELSE sfs[j]
        BY <3>1
      <4>3. Sent(sfs, sfs', i, payload, accepted) BY <3>1, <4>1, <4>2, Zenon DEF Sent
      <4> QED BY <4>3, SendTotals, Zenon
    <3>4. /\ snd'.sequence_number = AddModulo(snd.sequence_number, 1, SeqMod)
          /\ snd'.packet_count = IF accepted THEN AddModulo(snd.packet_count, 1, WordMod)
                                 ELSE snd.packet_count
          /\ snd'.octet_count = IF accepted THEN AddModulo(snd.octet_count, payload, WordMod)
                                ELSE snd.octet_count
      BY <2>3, SendEffect DEF Plus32, AddModulo
    <3>5. CASE accepted BY <3>3, <3>4, <3>5, Zenon DEF SumModulo
    <3>6. CASE ~accepted BY <3>3, <3>4, <3>6, Zenon DEF SumModulo
    <3> QED BY <3>5, <3>6
  <2>4. ASSUME NEW stamp \in FirstStamps, Poll(stamp) PROVE Sums'
    <3>1. sfs' = sfs BY <2>4 DEF Poll
    <3> QED BY <2>0, <2>4, <3>1, PollEffect
  <2>5. CASE UNCHANGED vars BY <2>0, <2>5 DEF vars
  <2> QED BY <2>1, <2>2, <2>3, <2>4, <2>5 DEF Next
<1>3. Sums => TotalsAgree BY TotalsAreSums
<1> QED BY <1>1, <1>2, <1>3, TypeCorrect, PTL DEF Spec
=============================================================================
