------------------------- MODULE DistributionProofs ------------------------
(***************************************************************************)
(* The properties of Distribution: for any number of subflows, any         *)
(* bitrates of the paths and of the stream, any steps of the draw.         *)
(*                                                                         *)
(* Shares are added up in the order of the subflows, fraction by fraction; *)
(* the argument about them brings them to a common denominator, so that it *)
(* can be had about sums of natural numbers.                               *)
(***************************************************************************)
EXTENDS Distribution, TLAPS, WellFoundedInduction

(* Induction and recursion, which the library states for predicates and    *)
(* operators, as parameters of the theorems; here they are about sets and  *)
(* functions, so that they can be cited.                                   *)

(* A set of natural numbers has a least one.                               *)
LEMMA LeastNumber ==
  ASSUME NEW T \in SUBSET Nat, T # {}
  PROVE  \E n \in T : \A m \in T : n <= m
<1>1. \E n \in T : \A m \in T : <<m, n>> \notin OpToRel(<, Nat)
  BY NatLessThanWellFounded, WFMin
<1>2. ASSUME NEW n \in T, NEW m \in T, <<m, n>> \notin OpToRel(<, Nat)
      PROVE  n <= m
  <2>1. ~(m < n) BY <1>2 DEF OpToRel
  <2> QED BY <2>1
<1> QED BY <1>1, <1>2

(* A set of numbers that a number is in when all smaller ones are is Nat.  *)
LEMMA NumberInduction ==
  ASSUME NEW T,
         \A n \in Nat : (\A m \in 0..(n - 1) : m \in T) => n \in T
  PROVE  \A n \in Nat : n \in T
<1> SUFFICES ASSUME Nat \ T # {} PROVE FALSE
  OBVIOUS
<1>1. PICK n \in Nat \ T : \A m \in Nat \ T : n <= m
  BY LeastNumber
<1>2. \A m \in 0..(n - 1) : m \in T
  BY <1>1
<1> QED BY <1>1, <1>2

(* The functions that obey the definition of f[i] by f[i - 1] up to n.     *)
Steps(X, z, G, n) ==
  {f \in [{0} \cup Paths -> X] :
     \A i \in {0} \cup Paths :
       i < n => f[i] = IF i = 0 THEN z ELSE G[<<i, f[i - 1]>>]}

(* The function f is the one with this definition.                         *)
Follows(f, z, G) ==
  f = [i \in {0} \cup Paths |-> IF i = 0 THEN z ELSE G[<<i, f[i - 1]>>]]

(* A function may be defined by what its first value is and how each       *)
(* follows from the one before: there is one.                              *)
LEMMA Recursion ==
  ASSUME NEW X, NEW z \in X, NEW G \in [Paths \X X -> X]
  PROVE  \E f \in [{0} \cup Paths -> X] : Follows(f, z, G)
<1> USE DistributionAssumption DEF Paths
<1> DEFINE D == {0} \cup Paths
           T == {n \in Nat : Steps(X, z, G, n) # {}}
<1>1. \A n \in Nat : n \in T
  <2> SUFFICES ASSUME NEW n \in Nat, \A m \in 0..(n - 1) : m \in T PROVE n \in T
    <3> HIDE DEF T
    <3> QED BY NumberInduction, Zenon
  <2>1. CASE n = 0
    <3>1. [i \in D |-> z] \in [D -> X] OBVIOUS
    <3>2. \A i \in D : ~(i < n) BY <2>1
    <3>3. [i \in D |-> z] \in Steps(X, z, G, n) BY <3>1, <3>2, Zenon DEF Steps
    <3> QED BY <3>3
  <2>2. CASE n # 0
    <3>1. n - 1 \in 0..(n - 1) BY <2>2
    <3>2. PICK f \in [D -> X] :
            \A i \in D : i < n - 1 => f[i] = IF i = 0 THEN z ELSE G[<<i, f[i - 1]>>]
      BY <3>1 DEF Steps
    <3>3. PICK h : h = [i \in D |-> IF i = 0 THEN z ELSE G[<<i, f[i - 1]>>]]
      OBVIOUS
    <3>4. ASSUME NEW i \in D, i # 0
          PROVE  i - 1 \in D /\ i \in Paths /\ f[i - 1] \in X /\ G[<<i, f[i - 1]>>] \in X
      <4>1. i \in Paths /\ i - 1 \in D BY <3>4
      <4>2. f[i - 1] \in X BY <4>1
      <4> QED BY <4>1, <4>2
    <3>5. h \in [D -> X] BY <3>3, <3>4
    <3>6. ASSUME NEW i \in D, i < n
          PROVE  h[i] = IF i = 0 THEN z ELSE G[<<i, h[i - 1]>>]
      <4>1. CASE i = 0 BY <3>3, <4>1
      <4>2. CASE i # 0
        <5>1. i - 1 \in D /\ i - 1 < n - 1 BY <3>4, <3>6, <4>2
        <5>2. f[i - 1] = IF i - 1 = 0 THEN z ELSE G[<<i - 1, f[(i - 1) - 1]>>]
          BY <3>2, <5>1
        <5>3. h[i - 1] = f[i - 1] BY <3>3, <5>1, <5>2
        <5> QED BY <3>3, <4>2, <5>3
      <4> QED BY <4>1, <4>2
    <3>7. h \in Steps(X, z, G, n) BY <3>5, <3>6, Zenon DEF Steps
    <3> QED BY <3>7
  <2> QED BY <2>1, <2>2
<1>2. N + 1 \in T BY <1>1
<1>3. PICK f \in [D -> X] :
        \A i \in D : i < N + 1 => f[i] = IF i = 0 THEN z ELSE G[<<i, f[i - 1]>>]
  BY <1>2 DEF Steps
<1>4. \A i \in D : i < N + 1 OBVIOUS
<1>5. f = [i \in D |-> IF i = 0 THEN z ELSE G[<<i, f[i - 1]>>]]
  BY <1>3, <1>4
<1> QED BY <1>5 DEF Follows

-----------------------------------------------------------------------------
(* Fractions. *)

Fractions == Nat \X (Nat \ {0})

(* The share x is a / D.                                                   *)
Is(x, a, D) == x \in Fractions /\ x[1] * D = a * x[2]

(* What every share is: NaN, or a number from zero to one.                 *)
ShareType == {NaN} \cup {x \in Fractions : x[1] <= x[2]}

(* A factor that is not zero may be cancelled.                             *)
LEMMA Cancel ==
  ASSUME NEW c \in Nat \ {0}, NEW a \in Nat, NEW b \in Nat
  PROVE  /\ c * a = c * b => a = b
         /\ c * a < c * b <=> a < b
         /\ c * a <= c * b <=> a <= b
<1>1. a < b => c * a < c * b
  <2> SUFFICES ASSUME a < b PROVE c * a < c * b OBVIOUS
  <2>1. PICK e \in Nat \ {0} : b = a + e
    <3>1. b - a \in Nat \ {0} /\ b = a + (b - a) OBVIOUS
    <3> QED BY <3>1
  <2>2. c * b = c * a + c * e BY <2>1
  <2>3. c * e > 0 OBVIOUS
  <2> QED BY <2>2, <2>3
<1>2. b < a => c * b < c * a
  <2> SUFFICES ASSUME b < a PROVE c * b < c * a OBVIOUS
  <2>1. PICK e \in Nat \ {0} : a = b + e
    <3>1. a - b \in Nat \ {0} /\ a = b + (a - b) OBVIOUS
    <3> QED BY <3>1
  <2>2. c * a = c * b + c * e BY <2>1
  <2>3. c * e > 0 OBVIOUS
  <2> QED BY <2>2, <2>3
<1>3. c * a \in Nat /\ c * b \in Nat OBVIOUS
<1> QED BY <1>1, <1>2, <1>3

(* Ratio is a fraction of the same value.                                  *)
LEMMA RatioIs ==
  ASSUME NEW n \in Nat, NEW d \in Nat \ {0}
  PROVE  Is(Ratio(n, d), n, d)
<1> DEFINE Z(i) == (n * i) % d = 0
           S == {i \in 1..d : Z(i)}
           P(i) == Z(i) /\ \A j \in 1..(i - 1) : ~Z(j)
<1>1. Z(d)
  <2>1. n * d = d * n /\ n * d \in Int OBVIOUS
  <2>2. \A x \in Int : (d * x) % d = 0 OBVIOUS
  <2> QED BY <2>1, <2>2
<1> HIDE DEF Z
<1>2. PICK m \in S : \A j \in S : m <= j
  <2>1. S \in SUBSET Nat /\ S # {} BY <1>1
  <2> HIDE DEF S
  <2> QED BY <2>1, LeastNumber, Zenon
<1>3. m \in 1..d /\ P(m)
  <2>1. ASSUME NEW j \in 1..(m - 1) PROVE ~Z(j)
    <3>1. j \in 1..d /\ ~(m <= j) OBVIOUS
    <3> QED BY <3>1, <1>2
  <2> QED BY <2>1
<1>4. PICK k : k = CHOOSE i \in 1..d : P(i)
  OBVIOUS
<1>5. k \in 1..d /\ P(k)
  <2> HIDE DEF P
  <2> QED BY <1>3, <1>4, Zenon
<1> USE DEF Z
<1>6. Ratio(n, d) = <<(n * k) \div d, k>> BY <1>4 DEF Ratio
<1>7. (n * k) \div d \in Nat /\ ((n * k) \div d) * d = n * k
  <2>1. PICK x \in Nat : x = n * k BY <1>5
  <2>2. x % d = 0 BY <1>5, <2>1
  <2>3. x \div d \in Nat /\ x = d * (x \div d) + (x % d) OBVIOUS
  <2> QED BY <2>1, <2>2, <2>3
<1> HIDE DEF P
<1>8. PICK q \in Nat : q = (n * k) \div d BY <1>7
<1>9. k \in Nat \ {0} BY <1>5
<1>10. <<q, k>> \in Fractions BY <1>9 DEF Fractions
<1> QED BY <1>6, <1>7, <1>8, <1>9, <1>10 DEF Is

(* One is the only share that is worth one.                                *)
LEMMA RatioOne ==
  ASSUME NEW n \in Nat \ {0}
  PROVE  Ratio(n, n) = One
<1>1. (n * 1) % n = 0 OBVIOUS
<1>2. PICK k : k = CHOOSE i \in 1..n : /\ (n * i) % n = 0
                                        /\ \A j \in 1..(i - 1) : (n * j) % n # 0
  OBVIOUS
<1>3. 1 \in 1..n /\ \A j \in 1..(1 - 1) : (n * j) % n # 0 OBVIOUS
<1>4. k \in 1..n /\ \A j \in 1..(k - 1) : (n * j) % n # 0 BY <1>1, <1>2, <1>3
<1>5. k = 1
  <2>1. CASE k > 1
    <3>1. 1 \in 1..(k - 1) BY <2>1, <1>4
    <3> QED BY <3>1, <1>4, <1>1
  <2> QED BY <2>1, <1>4
<1>6. Ratio(n, n) = <<(n * k) \div n, k>> BY <1>2 DEF Ratio
<1>7. (n * 1) \div n = 1 OBVIOUS
<1> QED BY <1>5, <1>6, <1>7 DEF One

(* Whatever the denominator, a quotient is a pair of numbers.              *)
LEMMA RatioType ==
  ASSUME NEW n \in Nat, NEW d \in Nat
  PROVE  Ratio(n, d) \in Nat \X Nat
<1>1. CASE d = 0 BY <1>1 DEF Ratio
<1>2. CASE d # 0 BY <1>2, RatioIs DEF Is, Fractions
<1> QED BY <1>1, <1>2

(* A quotient whose numerator and denominator stand in the ratio of m to D *)
(* is m / D.                                                               *)
LEMMA RatioAs ==
  ASSUME NEW n \in Nat, NEW d \in Nat \ {0}, NEW m \in Nat, NEW D \in Nat \ {0},
         n * D = m * d
  PROVE  Is(Ratio(n, d), m, D)
<1>1. PICK r \in Fractions : r = Ratio(n, d) BY RatioIs DEF Is
<1>2. PICK x \in Nat, y \in Nat \ {0} : x = r[1] /\ y = r[2] BY DEF Fractions
<1>3. x * d = n * y BY <1>1, <1>2, RatioIs DEF Is
<1>4. d * (x * D) = (x * d) * D OBVIOUS
<1>5. (n * y) * D = (n * D) * y OBVIOUS
<1>6. (m * d) * y = d * (m * y) OBVIOUS
<1>7. d * (x * D) = d * (m * y) BY <1>3, <1>4, <1>5, <1>6
<1>8. x * D \in Nat /\ m * y \in Nat OBVIOUS
<1>9. x * D = m * y BY <1>7, <1>8, Cancel
<1> QED BY <1>1, <1>2, <1>9 DEF Is

(* The parts of a fraction. *)
LEMMA Parts ==
  ASSUME NEW x, NEW a \in Nat, NEW D \in Nat \ {0}, Is(x, a, D)
  PROVE  /\ x \in Fractions
         /\ \E n \in Nat, d \in Nat \ {0} : x[1] = n /\ x[2] = d /\ n * D = a * d
  BY DEF Is, Fractions

(* Adding shares of the same denominator adds their numerators.            *)
LEMMA PlusIs ==
  ASSUME NEW x, NEW y, NEW a \in Nat, NEW b \in Nat, NEW D \in Nat \ {0},
         Is(x, a, D), Is(y, b, D)
  PROVE  Is(Plus(x, y), a + b, D)
<1>1. PICK n \in Nat, d \in Nat \ {0} : x[1] = n /\ x[2] = d /\ n * D = a * d
  BY Parts
<1>2. PICK m \in Nat, e \in Nat \ {0} : y[1] = m /\ y[2] = e /\ m * D = b * e
  BY Parts
<1>3. PICK num \in Nat : num = n * e + m * d
  <2>1. n * e + m * d \in Nat OBVIOUS
  <2> QED BY <2>1
<1>4. PICK den \in Nat \ {0} : den = d * e
  <2>1. d * e \in Nat \ {0} OBVIOUS
  <2> QED BY <2>1
<1>5. num * D = (a + b) * den
  <2>1. num * D = (n * D) * e + (m * D) * d BY <1>3
  <2>2. (a + b) * den = (a * d) * e + (b * e) * d BY <1>4
  <2> QED BY <2>1, <2>2, <1>1, <1>2
<1>6. Is(Ratio(num, den), a + b, D)
  <2>1. a + b \in Nat OBVIOUS
  <2> QED BY <1>5, <2>1, RatioAs
<1> QED BY <1>1, <1>2, <1>3, <1>4, <1>6 DEF Plus

(* Multiplying shares multiplies both.                                     *)
LEMMA TimesIs ==
  ASSUME NEW x, NEW y, NEW a \in Nat, NEW b \in Nat,
         NEW D \in Nat \ {0}, NEW E \in Nat \ {0}, Is(x, a, D), Is(y, b, E)
  PROVE  Is(Times(x, y), a * b, D * E)
<1>1. PICK n \in Nat, d \in Nat \ {0} : x[1] = n /\ x[2] = d /\ n * D = a * d
  BY Parts
<1>2. PICK m \in Nat, e \in Nat \ {0} : y[1] = m /\ y[2] = e /\ m * E = b * e
  BY Parts
<1>3. PICK num \in Nat : num = n * m
  <2>1. n * m \in Nat OBVIOUS
  <2> QED BY <2>1
<1>4. PICK den \in Nat \ {0} : den = d * e
  <2>1. d * e \in Nat \ {0} OBVIOUS
  <2> QED BY <2>1
<1>5. num * (D * E) = (a * b) * den
  <2>1. num * (D * E) = (n * D) * (m * E) BY <1>3
  <2>2. (a * b) * den = (a * d) * (b * e) BY <1>4
  <2> QED BY <2>1, <2>2, <1>1, <1>2
<1>6. Is(Ratio(num, den), a * b, D * E)
  <2>1. a * b \in Nat /\ D * E \in Nat \ {0} OBVIOUS
  <2> QED BY <1>5, <2>1, RatioAs
<1> QED BY <1>1, <1>2, <1>3, <1>4, <1>6 DEF Times

(* What is left of one.                                                    *)
LEMMA ComplementIs ==
  ASSUME NEW x, NEW a \in Nat, NEW D \in Nat \ {0}, Is(x, a, D), a <= D
  PROVE  Is(Complement(x), D - a, D)
<1>1. PICK n \in Nat, d \in Nat \ {0} : x[1] = n /\ x[2] = d /\ n * D = a * d
  BY Parts
<1>2. d - n \in Nat
  <2>1. D * n <= D * d
    <3>1. d * a <= d * D BY Cancel
    <3> QED BY <3>1, <1>1
  <2> QED BY <2>1, Cancel
<1>3. (d - n) * D = (D - a) * d BY <1>1
<1>4. D - a \in Nat OBVIOUS
<1>5. Is(Ratio(d - n, d), D - a, D) BY <1>2, <1>3, <1>4, RatioAs
<1> QED BY <1>1, <1>5 DEF Complement

(* Shares are compared by multiplying crosswise, whatever their terms.     *)
LEMMA LessIs ==
  ASSUME NEW x, NEW y, NEW a \in Nat, NEW b \in Nat,
         NEW D \in Nat \ {0}, NEW E \in Nat \ {0}, Is(x, a, D), Is(y, b, E)
  PROVE  Less(x, y) <=> a * E < b * D
<1>1. PICK n \in Nat, d \in Nat \ {0} : x[1] = n /\ x[2] = d /\ n * D = a * d
  BY Parts
<1>2. PICK m \in Nat, e \in Nat \ {0} : y[1] = m /\ y[2] = e /\ m * E = b * e
  BY Parts
<1>3. PICK p \in Nat : p = n * e OBVIOUS
<1>4. PICK q \in Nat : q = m * d OBVIOUS
<1>5. PICK u \in Nat : u = a * E OBVIOUS
<1>6. PICK v \in Nat : v = b * D OBVIOUS
<1>7. PICK g \in Nat \ {0} : g = D * E
  <2>1. D * E \in Nat \ {0} OBVIOUS
  <2> QED BY <2>1
<1>8. PICK h \in Nat \ {0} : h = d * e
  <2>1. d * e \in Nat \ {0} OBVIOUS
  <2> QED BY <2>1
<1>9. g * p = h * u
  <2>1. g * p = (n * D) * (e * E) BY <1>3, <1>7
  <2>2. h * u = (a * d) * (e * E) BY <1>5, <1>8
  <2> QED BY <2>1, <2>2, <1>1
<1>10. g * q = h * v
  <2>1. g * q = (m * E) * (d * D) BY <1>4, <1>7
  <2>2. h * v = (b * e) * (d * D) BY <1>6, <1>8
  <2> QED BY <2>1, <2>2, <1>2
<1>11. p < q <=> u < v
  <2>1. g * p < g * q <=> p < q BY Cancel
  <2>2. h * u < h * v <=> u < v BY Cancel
  <2> QED BY <2>1, <2>2, <1>9, <1>10
<1>12. Less(x, y) <=> p < q BY <1>1, <1>2, <1>3, <1>4 DEF Less
<1> QED BY <1>5, <1>6, <1>11, <1>12

(* The terms of a share may be multiplied by a number.                     *)
LEMMA Extended ==
  ASSUME NEW x, NEW a \in Nat, NEW D \in Nat \ {0}, NEW c \in Nat \ {0},
         Is(x, a, D)
  PROVE  Is(x, a * c, D * c)
<1>1. PICK n \in Nat, d \in Nat \ {0} : x[1] = n /\ x[2] = d /\ n * D = a * d
  BY Parts
<1>2. n * (D * c) = (n * D) * c OBVIOUS
<1>3. (a * c) * d = (a * d) * c OBVIOUS
<1>4. x \in Fractions BY DEF Is
<1> QED BY <1>1, <1>2, <1>3, <1>4 DEF Is

(* The constant fractions.                                                 *)
LEMMA ConstantsAre ==
  ASSUME NEW D \in Nat \ {0}
  PROVE  /\ Is(Zero, 0, D) /\ Is(One, D, D) /\ Is(Half, 1, 2)
         /\ Is(ThreeQuarters, 3, 4) /\ Is(Zero, 0, 1) /\ Is(One, 1, 1)
  BY DEF Is, Fractions, Zero, One, Half, ThreeQuarters

(* A sum that is worth one is One.                                         *)
LEMMA PlusOne ==
  ASSUME NEW x, NEW y, NEW a \in Nat, NEW b \in Nat, NEW D \in Nat \ {0},
         Is(x, a, D), Is(y, b, D), a + b = D
  PROVE  Plus(x, y) = One
<1>1. PICK n \in Nat, d \in Nat \ {0} : x[1] = n /\ x[2] = d /\ n * D = a * d
  BY Parts
<1>2. PICK m \in Nat, e \in Nat \ {0} : y[1] = m /\ y[2] = e /\ m * D = b * e
  BY Parts
<1>3. PICK num \in Nat : num = n * e + m * d
  <2>1. n * e + m * d \in Nat OBVIOUS
  <2> QED BY <2>1
<1>4. PICK den \in Nat \ {0} : den = d * e
  <2>1. d * e \in Nat \ {0} OBVIOUS
  <2> QED BY <2>1
<1>5. D * num = D * den
  <2>1. D * num = (n * D) * e + (m * D) * d BY <1>3
  <2>2. D * den = (a * d) * e + (b * e) * d BY <1>4
  <2> QED BY <2>1, <2>2, <1>1, <1>2
<1>6. num = den BY <1>5, Cancel
<1>7. Plus(x, y) = Ratio(num, den) BY <1>1, <1>2, <1>3, <1>4 DEF Plus
<1> QED BY <1>6, <1>7, RatioOne

(* NaN makes every sum NaN.                                                *)
LEMMA PlusNaN ==
  ASSUME NEW x \in Nat \X Nat
  PROVE  /\ Plus(x, NaN) = NaN /\ Plus(NaN, x) = NaN
         /\ ~Less(x, NaN) /\ ~Less(NaN, x)
<1>1. PICK n \in Nat, d \in Nat : x[1] = n /\ x[2] = d OBVIOUS
<1>2. n * 0 = 0 /\ 0 * n = 0 /\ d * 0 = 0 /\ 0 * d = 0 OBVIOUS
<1> QED BY <1>1, <1>2 DEF Plus, NaN, Ratio, Less

(* Every share is a pair of numbers; one that is not NaN is a fraction of  *)
(* at most one.                                                            *)
LEMMA ShareIs ==
  ASSUME NEW x \in ShareType
  PROVE  /\ x \in Nat \X Nat
         /\ x # NaN => \E a \in Nat, D \in Nat \ {0} : Is(x, a, D)
         /\ \A a \in Nat, D \in Nat \ {0} : Is(x, a, D) => a <= D
<1>1. x \in Nat \X Nat BY DEF ShareType, NaN, Fractions
<1>2. CASE x = NaN BY <1>1, <1>2 DEF NaN, Is, Fractions
<1>3. CASE x # NaN
  <2>1. PICK n \in Nat, d \in Nat \ {0} : x = <<n, d>> /\ n <= d
    BY <1>3 DEF ShareType, Fractions
  <2>2. Is(x, n, d) BY <2>1 DEF Is, Fractions
  <2>3. ASSUME NEW a \in Nat, NEW D \in Nat \ {0}, Is(x, a, D) PROVE a <= D
    <3>1. n * D = a * d BY <2>1, <2>3 DEF Is
    <3>2. D * n <= D * d BY <2>1, Cancel
    <3>3. d * a <= d * D BY <3>1, <3>2
    <3> QED BY <3>3, Cancel
  <2> QED BY <1>1, <2>2, <2>3
<1> QED BY <1>2, <1>3

(* A fraction of at most one is a share.                                   *)
LEMMA IsShare ==
  ASSUME NEW x, NEW a \in Nat, NEW D \in Nat \ {0}, Is(x, a, D), a <= D
  PROVE  x \in ShareType
<1>1. PICK n \in Nat, d \in Nat \ {0} : x[1] = n /\ x[2] = d /\ n * D = a * d
  BY Parts
<1>2. d * a <= d * D BY Cancel
<1>3. D * n <= D * d BY <1>1, <1>2
<1>4. n <= d BY <1>3, Cancel
<1> QED BY <1>1, <1>4 DEF ShareType, Is

-----------------------------------------------------------------------------
(* Sums over the subflows. *)

Places == {0} \cup Paths

(* The sequences of this module have one element for every subflow.        *)
LEMMA Length ==
  ASSUME NEW X, NEW f \in [Paths -> X]
  PROVE  Len(f) = N /\ DOMAIN f = Paths
<1>1. f \in Seq(X) BY DistributionAssumption DEF Paths
<1> QED BY <1>1, DistributionAssumption DEF Paths

(* The place before a subflow.                                             *)
LEMMA PlaceBefore ==
  \A i \in Paths : i \in Nat \ {0} /\ i - 1 \in Places /\ i - 1 < i
  BY DistributionAssumption DEF Places, Paths

(* What holds in place 0 and follows from the place before holds in all.   *)
LEMMA PlaceInduction ==
  ASSUME NEW T, 0 \in T, \A i \in Paths : i - 1 \in T => i \in T
  PROVE  Places \subseteq T
<1> DEFINE S == {n \in Nat : n \in Places => n \in T}
<1>1. \A n \in Nat : n \in S
  <2> SUFFICES ASSUME NEW n \in Nat, \A m \in 0..(n - 1) : m \in S PROVE n \in S
    <3> HIDE DEF S
    <3> QED BY NumberInduction, Zenon
  <2>1. CASE n \in Paths
    <3>1. n - 1 \in 0..(n - 1) /\ n - 1 \in Places BY <2>1, PlaceBefore
    <3> QED BY <2>1, <3>1
  <2>2. CASE n \notin Paths BY <2>2 DEF Places
  <2> QED BY <2>1, <2>2
<1>2. Places \subseteq Nat BY DistributionAssumption DEF Places, Paths
<1> QED BY <1>1, <1>2

SumLaw(s, f) ==
  s = [i \in {0} \cup DOMAIN f |-> IF i = 0 THEN 0 ELSE s[i - 1] + f[i]]
ShareLaw(s, x) ==
  s = [i \in {0} \cup DOMAIN x |-> IF i = 0 THEN Zero ELSE Plus(s[i - 1], x[i])]

(* The running sum exists and obeys its definition.                        *)
LEMMA RunningSumLaw ==
  ASSUME NEW f \in [Paths -> Nat]
  PROVE  /\ RunningSum(f) \in [Places -> Nat]
         /\ RunningSum(f)[0] = 0
         /\ \A i \in Paths : RunningSum(f)[i] = RunningSum(f)[i - 1] + f[i]
         /\ SumOf(f) = RunningSum(f)[N]
<1>1. \E s : SumLaw(s, f)
  <2> DEFINE G == [e \in Paths \X Nat |-> e[2] + f[e[1]]]
  <2>1. G \in [Paths \X Nat -> Nat] OBVIOUS
  <2>2. PICK s \in [{0} \cup Paths -> Nat] :
          Follows(s, 0, G)
    <3> HIDE DEF G
    <3>1. 0 \in Nat OBVIOUS
    <3> QED BY <2>1, <3>1, Recursion, Zenon
  <2>3. \A i \in Paths : G[<<i, s[i - 1]>>] = s[i - 1] + f[i]
    BY PlaceBefore DEF Places
  <2>4. s = [i \in {0} \cup Paths |-> IF i = 0 THEN 0 ELSE s[i - 1] + f[i]]
    <3> HIDE DEF G
    <3>1. \A i \in {0} \cup Paths :
            s[i] = IF i = 0 THEN 0 ELSE s[i - 1] + f[i]
      BY <2>2, <2>3 DEF Follows
    <3> QED BY <2>2, <3>1 DEF Follows
  <2> QED BY <2>4 DEF SumLaw
<1>2. RunningSum(f) = CHOOSE s : SumLaw(s, f) BY DEF RunningSum, SumLaw
<1>3. PICK s : s = RunningSum(f) OBVIOUS
<1>4. SumLaw(s, f) BY <1>1, <1>2, <1>3, Zenon
<1>5. /\ s = [i \in Places |-> IF i = 0 THEN 0 ELSE s[i - 1] + f[i]]
      /\ s[0] = 0 /\ \A i \in Paths : s[i] = s[i - 1] + f[i]
  BY <1>4, PlaceBefore DEF SumLaw, Places
<1>6. \A i \in Places : s[i] \in Nat
  <2> DEFINE T == {i \in Places : s[i] \in Nat}
  <2>1. 0 \in T BY <1>5 DEF Places
  <2>2. \A i \in Paths : i - 1 \in T => i \in T
    <3> SUFFICES ASSUME NEW i \in Paths, s[i - 1] \in Nat PROVE s[i] \in Nat
      BY DEF Places
    <3>1. s[i] = s[i - 1] + f[i] /\ f[i] \in Nat BY <1>5
    <3> QED BY <3>1
  <2>3. Places \subseteq T
    <3> HIDE DEF T
    <3> QED BY <2>1, <2>2, PlaceInduction, Zenon
  <2> QED BY <2>3
<1>7. SumOf(f) = s[N] BY <1>3, Length DEF SumOf
<1> QED BY <1>3, <1>5, <1>6, <1>7

(* The same for shares.                                                    *)
LEMMA RunningShareLaw ==
  ASSUME NEW x \in [Paths -> Nat \X Nat]
  PROVE  /\ RunningShare(x) \in [Places -> Nat \X Nat]
         /\ RunningShare(x)[0] = Zero
         /\ \A i \in Paths : RunningShare(x)[i] = Plus(RunningShare(x)[i - 1], x[i])
         /\ TotalOf(x) = RunningShare(x)[N]
<1>p. \A u, v \in Nat \X Nat : Plus(u, v) \in Nat \X Nat
  <2> SUFFICES ASSUME NEW u \in Nat \X Nat, NEW v \in Nat \X Nat
               PROVE  Plus(u, v) \in Nat \X Nat
    OBVIOUS
  <2>1. u[1] \in Nat /\ u[2] \in Nat /\ v[1] \in Nat /\ v[2] \in Nat OBVIOUS
  <2>2. PICK n \in Nat, d \in Nat : n = u[1] * v[2] + v[1] * u[2] /\ d = u[2] * v[2]
    <3>1. u[1] * v[2] + v[1] * u[2] \in Nat /\ u[2] * v[2] \in Nat BY <2>1
    <3> QED BY <3>1
  <2> QED BY <2>2, RatioType DEF Plus
<1>z. Zero \in Nat \X Nat BY DEF Zero
<1>1. \E s : ShareLaw(s, x)
  <2> DEFINE G == [e \in Paths \X (Nat \X Nat) |-> Plus(e[2], x[e[1]])]
  <2>1. G \in [Paths \X (Nat \X Nat) -> Nat \X Nat] BY <1>p
  <2>2. PICK s \in [{0} \cup Paths -> Nat \X Nat] :
          Follows(s, Zero, G)
    <3> HIDE DEF G
    <3> QED BY <2>1, <1>z, Recursion, Zenon
  <2>3. \A i \in Paths : G[<<i, s[i - 1]>>] = Plus(s[i - 1], x[i])
    BY PlaceBefore DEF Places
  <2>4. s = [i \in {0} \cup Paths |-> IF i = 0 THEN Zero ELSE Plus(s[i - 1], x[i])]
    <3> HIDE DEF G
    <3>1. \A i \in {0} \cup Paths :
            s[i] = IF i = 0 THEN Zero ELSE Plus(s[i - 1], x[i])
      BY <2>2, <2>3 DEF Follows
    <3> QED BY <2>2, <3>1 DEF Follows
  <2> QED BY <2>4 DEF ShareLaw
<1>2. RunningShare(x) = CHOOSE s : ShareLaw(s, x) BY DEF RunningShare, ShareLaw
<1>3. PICK s : s = RunningShare(x) OBVIOUS
<1>4. ShareLaw(s, x) BY <1>1, <1>2, <1>3, Zenon
<1>5. /\ s = [i \in Places |-> IF i = 0 THEN Zero ELSE Plus(s[i - 1], x[i])]
      /\ s[0] = Zero /\ \A i \in Paths : s[i] = Plus(s[i - 1], x[i])
  BY <1>4, PlaceBefore DEF ShareLaw, Places
<1>6. \A i \in Places : s[i] \in Nat \X Nat
  <2> DEFINE T == {i \in Places : s[i] \in Nat \X Nat}
  <2>1. 0 \in T BY <1>5, <1>z DEF Places
  <2>2. \A i \in Paths : i - 1 \in T => i \in T
    <3> SUFFICES ASSUME NEW i \in Paths, s[i - 1] \in Nat \X Nat
                 PROVE  s[i] \in Nat \X Nat
      BY DEF Places
    <3>1. s[i] = Plus(s[i - 1], x[i]) /\ x[i] \in Nat \X Nat BY <1>5
    <3> QED BY <1>p, <3>1
  <2>3. Places \subseteq T
    <3> HIDE DEF T
    <3> QED BY <2>1, <2>2, PlaceInduction, Zenon
  <2> QED BY <2>3
<1>7. TotalOf(x) = s[N] BY <1>3, Length DEF TotalOf
<1> QED BY <1>3, <1>5, <1>6, <1>7

(* In D, h is p times f and q times g; and p times f at most q times g.    *)
Combined(f, g, h, p, q, D) == \A i \in D : h[i] = p * f[i] + q * g[i]
Compared(f, g, p, q, D) == \A i \in D : p * f[i] <= q * g[i]

(* Running sums of the same combination of terms.                          *)
LEMMA SumsCombine ==
  ASSUME NEW f \in [Paths -> Nat], NEW g \in [Paths -> Nat],
         NEW h \in [Paths -> Nat], NEW p \in Nat, NEW q \in Nat,
         Combined(f, g, h, p, q, Paths)
  PROVE  Combined(RunningSum(f), RunningSum(g), RunningSum(h), p, q, Places)
<1> DEFINE T == {i \in Places :
                   RunningSum(h)[i] = p * RunningSum(f)[i] + q * RunningSum(g)[i]}
<1>1. 0 \in T
  <2>1. p * 0 + q * 0 = 0 OBVIOUS
  <2> QED BY <2>1, RunningSumLaw DEF Places
<1>2. ASSUME NEW i \in Paths, i - 1 \in T PROVE i \in T
  <2>1. PICK u \in Nat, v \in Nat, w \in Nat :
          /\ u = RunningSum(f)[i - 1] /\ v = RunningSum(g)[i - 1]
          /\ w = RunningSum(h)[i - 1]
    <3>1. i - 1 \in Places BY PlaceBefore
    <3>2. /\ RunningSum(f)[i - 1] \in Nat /\ RunningSum(g)[i - 1] \in Nat
          /\ RunningSum(h)[i - 1] \in Nat
      BY <3>1, RunningSumLaw
    <3> QED BY <3>2
  <2>2. PICK a \in Nat, b \in Nat, c \in Nat : a = f[i] /\ b = g[i] /\ c = h[i]
    OBVIOUS
  <2>3. w = p * u + q * v /\ c = p * a + q * b
    BY <1>2, <2>1, <2>2 DEF Combined
  <2>4. w + c = p * (u + a) + q * (v + b) BY <2>3
  <2>5. /\ RunningSum(f)[i] = u + a /\ RunningSum(g)[i] = v + b
        /\ RunningSum(h)[i] = w + c
    BY <2>1, <2>2, RunningSumLaw
  <2> QED BY <2>4, <2>5 DEF Places
<1>3. Places \subseteq T
  <2> HIDE DEF T
  <2> QED BY <1>1, <1>2, PlaceInduction, Zenon
<1> QED BY <1>3 DEF Combined

(* Running sums of terms of which one is always the larger.                *)
LEMMA SumsCompare ==
  ASSUME NEW f \in [Paths -> Nat], NEW g \in [Paths -> Nat],
         NEW p \in Nat, NEW q \in Nat,
         Compared(f, g, p, q, Paths)
  PROVE  Compared(RunningSum(f), RunningSum(g), p, q, Places)
<1> DEFINE T == {i \in Places : p * RunningSum(f)[i] <= q * RunningSum(g)[i]}
<1>1. 0 \in T
  <2>1. p * 0 <= q * 0 OBVIOUS
  <2> QED BY <2>1, RunningSumLaw DEF Places
<1>2. ASSUME NEW i \in Paths, i - 1 \in T PROVE i \in T
  <2>1. PICK u \in Nat, v \in Nat :
          u = RunningSum(f)[i - 1] /\ v = RunningSum(g)[i - 1]
    BY RunningSumLaw, PlaceBefore
  <2>2. PICK a \in Nat, b \in Nat : a = f[i] /\ b = g[i] OBVIOUS
  <2>3. p * u <= q * v /\ p * a <= q * b BY <1>2, <2>1, <2>2 DEF Compared
  <2>4. p * (u + a) <= q * (v + b)
    <3>1. p * (u + a) = p * u + p * a /\ q * (v + b) = q * v + q * b OBVIOUS
    <3> QED BY <2>3, <3>1
  <2>5. RunningSum(f)[i] = u + a /\ RunningSum(g)[i] = v + b
    BY <2>1, <2>2, RunningSumLaw
  <2> QED BY <2>4, <2>5 DEF Places
<1>3. Places \subseteq T
  <2> HIDE DEF T
  <2> QED BY <1>1, <1>2, PlaceInduction, Zenon
<1> QED BY <1>3 DEF Compared

(* A running sum never falls.                                              *)
LEMMA SumsGrow ==
  ASSUME NEW f \in [Paths -> Nat], NEW i \in Places, NEW j \in Places, i <= j
  PROVE  RunningSum(f)[i] <= RunningSum(f)[j]
<1> DEFINE T == {k \in Places : i <= k => RunningSum(f)[i] <= RunningSum(f)[k]}
<1>n. Places \subseteq Nat BY DistributionAssumption DEF Places, Paths
<1>1. 0 \in T
  <2>1. i <= 0 => i = 0 BY <1>n
  <2>2. RunningSum(f)[i] \in Nat BY RunningSumLaw
  <2> QED BY <2>1, <2>2 DEF Places
<1>2. ASSUME NEW k \in Paths, k - 1 \in T PROVE k \in T
  <2>1. /\ RunningSum(f)[k] \in Nat /\ RunningSum(f)[k - 1] \in Nat
        /\ RunningSum(f)[i] \in Nat /\ f[k] \in Nat
        /\ RunningSum(f)[k] = RunningSum(f)[k - 1] + f[k]
    BY RunningSumLaw, PlaceBefore DEF Places
  <2>2. i <= k => i = k \/ i <= k - 1 BY <1>n, PlaceBefore
  <2>3. k \in Places BY DEF Places
  <2> QED BY <1>2, <2>1, <2>2, <2>3
<1>3. Places \subseteq T
  <2> HIDE DEF T
  <2> QED BY <1>1, <1>2, PlaceInduction, Zenon
<1> QED BY <1>3

(* No term exceeds the sum; the sum is zero only when all terms are.       *)
LEMMA TermAndSum ==
  ASSUME NEW f \in [Paths -> Nat]
  PROVE  /\ SumOf(f) \in Nat
         /\ \A i \in Places : RunningSum(f)[i] <= SumOf(f)
         /\ \A i \in Paths : f[i] <= SumOf(f)
         /\ N \in Paths /\ SumOf(f) = RunningSum(f)[N]
<1>1. N \in Paths /\ N \in Places /\ \A i \in Places : i \in Nat /\ i <= N
  BY DistributionAssumption DEF Places, Paths
<1>2. ASSUME NEW i \in Places
      PROVE  RunningSum(f)[i] <= SumOf(f)
  BY <1>1, SumsGrow, RunningSumLaw
<1>3. SumOf(f) \in Nat BY <1>1, RunningSumLaw
<1>4. ASSUME NEW i \in Paths
      PROVE  f[i] <= SumOf(f)
  <2>1. i \in Places /\ i - 1 \in Places BY PlaceBefore DEF Places
  <2>2. RunningSum(f)[i] = RunningSum(f)[i - 1] + f[i] BY RunningSumLaw
  <2>3. RunningSum(f)[i - 1] \in Nat /\ RunningSum(f)[i] \in Nat /\ f[i] \in Nat
    BY <2>1, RunningSumLaw
  <2>4. RunningSum(f)[i] <= SumOf(f) BY <1>2, <2>1
  <2> QED BY <2>2, <2>3, <2>4, <1>3
<1> QED BY <1>1, <1>2, <1>3, <1>4, RunningSumLaw

(* Shares of a common denominator are added up by adding the numerators.   *)
LEMMA SharesSum ==
  ASSUME NEW x \in [Paths -> Nat \X Nat], NEW a \in [Paths -> Nat],
         NEW D \in Nat \ {0}, \A i \in Paths : Is(x[i], a[i], D)
  PROVE  /\ \A i \in Places : Is(RunningShare(x)[i], RunningSum(a)[i], D)
         /\ Is(TotalOf(x), SumOf(a), D)
         /\ SumOf(a) = D => TotalOf(x) = One
<1> DEFINE T == {i \in Places : Is(RunningShare(x)[i], RunningSum(a)[i], D)}
<1>1. 0 \in T BY RunningSumLaw, RunningShareLaw, ConstantsAre DEF Places
<1>2. ASSUME NEW i \in Paths, i - 1 \in T PROVE i \in T
  <2>1. PICK u \in Nat, v \in Nat : u = RunningSum(a)[i - 1] /\ v = a[i]
    BY RunningSumLaw, PlaceBefore
  <2>2. Is(Plus(RunningShare(x)[i - 1], x[i]), u + v, D)
    BY <1>2, <2>1, PlusIs
  <2>3. RunningShare(x)[i] = Plus(RunningShare(x)[i - 1], x[i])
    BY RunningShareLaw
  <2>4. RunningSum(a)[i] = u + v BY <2>1, RunningSumLaw
  <2> QED BY <2>2, <2>3, <2>4 DEF Places
<1>3. Places \subseteq T
  <2> HIDE DEF T
  <2> QED BY <1>1, <1>2, PlaceInduction, Zenon
<1>4. N \in Paths /\ N \in Places /\ N - 1 \in Places
  BY TermAndSum, PlaceBefore DEF Places
<1>5. Is(TotalOf(x), SumOf(a), D) BY <1>3, <1>4, RunningSumLaw, RunningShareLaw
<1>6. ASSUME SumOf(a) = D PROVE TotalOf(x) = One
  <2>1. PICK u \in Nat, v \in Nat : u = RunningSum(a)[N - 1] /\ v = a[N]
    BY <1>4, RunningSumLaw
  <2>2. Is(RunningShare(x)[N - 1], u, D) /\ Is(x[N], v, D)
    BY <1>3, <1>4, <2>1
  <2>3. u + v = D BY <1>4, <1>6, <2>1, RunningSumLaw
  <2>4. Plus(RunningShare(x)[N - 1], x[N]) = One BY <2>2, <2>3, PlusOne
  <2> QED BY <1>4, <2>4, RunningShareLaw
<1> QED BY <1>3, <1>5, <1>6

(* The places up to which x has a common denominator.                      *)
Common(x) ==
  {i \in Places : \E D \in Nat \ {0}, a \in [Paths -> Nat] :
                    \A j \in Paths : j <= i => Is(x[j], a[j], D)}

(* Fractions have a common denominator.                                    *)
LEMMA CommonDenominator ==
  ASSUME NEW x \in [Paths -> Fractions]
  PROVE  \E D \in Nat \ {0}, a \in [Paths -> Nat] :
           \A i \in Paths : Is(x[i], a[i], D)
<1>1. 0 \in Common(x)
  <2>1. 1 \in Nat \ {0} /\ [j \in Paths |-> 0] \in [Paths -> Nat] OBVIOUS
  <2>2. \A j \in Paths : ~(j <= 0) BY PlaceBefore
  <2>3. 0 \in Places BY DEF Places
  <2> QED BY <2>1, <2>2, <2>3, Zenon DEF Common
<1>2. ASSUME NEW i \in Paths, i - 1 \in Common(x) PROVE i \in Common(x)
  <2>1. PICK D \in Nat \ {0}, a \in [Paths -> Nat] :
          \A j \in Paths : j <= i - 1 => Is(x[j], a[j], D)
    BY <1>2, Zenon DEF Common
  <2>2. PICK n \in Nat, d \in Nat \ {0} : x[i] = <<n, d>> BY DEF Fractions
  <2>3. PICK E \in Nat \ {0} : E = D * d
    <3>1. D * d \in Nat \ {0} OBVIOUS
    <3> QED BY <3>1
  <2>4. PICK b \in [Paths -> Nat] :
          b = [j \in Paths |-> IF j = i THEN n * D ELSE a[j] * d]
    <3>1. \A j \in Paths : (IF j = i THEN n * D ELSE a[j] * d) \in Nat OBVIOUS
    <3> QED BY <3>1
  <2>5. ASSUME NEW j \in Paths, j <= i PROVE Is(x[j], b[j], E)
    <3>1. CASE j = i
      <4>1. n * (D * d) = (n * D) * d OBVIOUS
      <4> QED BY <2>2, <2>3, <2>4, <3>1, <4>1 DEF Is
    <3>2. CASE j # i
      <4>1. j <= i - 1 BY <2>5, <3>2, PlaceBefore
      <4>2. Is(x[j], a[j], D) BY <2>1, <4>1
      <4>3. Is(x[j], a[j] * d, D * d) BY <4>2, Extended
      <4> QED BY <2>3, <2>4, <3>2, <4>3
    <3> QED BY <3>1, <3>2
  <2>6. i \in Places BY DEF Places
  <2> QED BY <2>5, <2>6, Zenon DEF Common
<1>3. N \in Common(x) /\ N \in Paths
  <2>1. N \in Paths /\ N \in Places
    BY DistributionAssumption DEF Places, Paths
  <2>2. Places \subseteq Common(x) BY <1>1, <1>2, PlaceInduction, Zenon
  <2> QED BY <2>1, <2>2
<1>4. PICK D \in Nat \ {0}, a \in [Paths -> Nat] :
        \A j \in Paths : j <= N => Is(x[j], a[j], D)
  BY <1>3, Zenon DEF Common
<1>5. \A j \in Paths : j <= N BY DistributionAssumption DEF Paths
<1> QED BY <1>4, <1>5

(* A single share that is NaN makes the total NaN.                         *)
LEMMA NaNSpoils ==
  ASSUME NEW x \in [Paths -> Nat \X Nat], NEW i \in Paths, x[i] = NaN
  PROVE  TotalOf(x) = NaN
<1> DEFINE T == {j \in Places : i <= j => RunningShare(x)[j] = NaN}
<1>1. 0 \in T
  <2>1. ~(i <= 0) BY PlaceBefore
  <2> QED BY <2>1 DEF Places
<1>2. ASSUME NEW j \in Paths, j - 1 \in T PROVE j \in T
  <2>1. RunningShare(x)[j] = Plus(RunningShare(x)[j - 1], x[j])
    BY RunningShareLaw
  <2>2. RunningShare(x)[j - 1] \in Nat \X Nat BY RunningShareLaw, PlaceBefore
  <2>3. x[j] \in Nat \X Nat OBVIOUS
  <2>4. CASE i = j
    <3>1. RunningShare(x)[j] = NaN BY <2>1, <2>2, <2>4, PlusNaN
    <3> QED BY <3>1 DEF Places
  <2>5. CASE i # j
    <3>1. i <= j => i <= j - 1 BY <2>5, PlaceBefore
    <3>2. i <= j => RunningShare(x)[j] = NaN BY <1>2, <2>1, <2>3, <3>1, PlusNaN
    <3> QED BY <3>2 DEF Places
  <2> QED BY <2>4, <2>5
<1>3. Places \subseteq T
  <2> HIDE DEF T
  <2> QED BY <1>1, <1>2, PlaceInduction, Zenon
<1>4. N \in Places /\ i <= N BY DistributionAssumption DEF Places, Paths
<1> QED BY <1>3, <1>4, RunningShareLaw

-----------------------------------------------------------------------------
(* Draws. *)

(* The subflows at which the shares so far exceed the draw.                *)
Hit(x, k) == {i \in Paths : Less(<<k, Grain>>, RunningShare(x)[i])}

(* A draw meets the first of them, or the front subflow.                   *)
LEMMA SelectFirst ==
  ASSUME NEW X, NEW x \in [Paths -> X], NEW k
  PROVE  /\ Select(x, k) \in Paths
         /\ Hit(x, k) = {} => Select(x, k) = 1
         /\ Hit(x, k) # {} => Select(x, k) \in Hit(x, k)
         /\ \A j \in Hit(x, k) : Select(x, k) <= j
<1>1. Hit(x, k) \in SUBSET Paths BY DEF Hit
<1>2. Hit(x, k) = {i \in DOMAIN x : Less(<<k, Grain>>, RunningShare(x)[i])}
  BY DEF Hit
<1>3. Select(x, k) = IF Hit(x, k) = {} THEN 1
                     ELSE CHOOSE i \in Hit(x, k) : \A j \in Hit(x, k) : i <= j
  BY DOMAIN x = Paths DEF Select, Hit
<1>4. Hit(x, k) # {} => \E i \in Hit(x, k) : \A j \in Hit(x, k) : i <= j
  <2>1. Paths \subseteq Nat BY DistributionAssumption DEF Paths
  <2>2. Hit(x, k) \in SUBSET Nat BY <1>1, <2>1
  <2> QED BY <2>2, LeastNumber, Zenon
<1>5. PICK H : H = Hit(x, k) OBVIOUS
<1>6. 1 \in Paths BY DistributionAssumption DEF Paths
<1>7. CASE H = {} BY <1>3, <1>5, <1>6, <1>7
<1>8. CASE H # {}
  <2>1. /\ Select(x, k) \in H
        /\ \A j \in H : Select(x, k) <= j
    BY <1>3, <1>4, <1>5, <1>8, Zenon
  <2> QED BY <1>1, <1>5, <1>8, <2>1
<1> QED BY <1>7, <1>8

(* When the shares add up every draw but the last meets a subflow with a   *)
(* share, and when they add up to no more than one a subflow with at least *)
(* a step of the draw is met.                                              *)
LEMMA DrawsFollow ==
  ASSUME NEW x \in [Paths -> ShareType], NEW i \in Paths,
         TotalOf(x) # NaN, ~Less(One, TotalOf(x))
  PROVE  /\ TotalOf(x) = One /\ x[i] = Zero => \A k \in 0..(Grain - 1) : Select(x, k) # i
         /\ ~Less(x[i], <<1, Grain>>) => \E k \in 0..(Grain - 1) : Select(x, k) = i
<1>g. Grain \in Nat \ {0} BY GrainAssumption
<1>1. x \in [Paths -> Nat \X Nat] BY ShareIs
<1>2. x \in [Paths -> Fractions]
  <2>1. \A j \in Paths : x[j] # NaN BY <1>1, NaNSpoils
  <2> QED BY <2>1 DEF ShareType
<1>3. PICK D \in Nat \ {0}, a \in [Paths -> Nat] : \A j \in Paths : Is(x[j], a[j], D)
  BY <1>2, CommonDenominator, Zenon
<1>4. PICK S \in [Places -> Nat] : S = RunningSum(a) BY RunningSumLaw
<1>5. /\ \A j \in Places : Is(RunningShare(x)[j], S[j], D)
      /\ S[0] = 0 /\ S[N] <= D /\ N \in Paths
      /\ TotalOf(x) = One => S[N] = D
      /\ \A j \in Paths : S[j] = S[j - 1] + a[j]
      /\ \A j \in Places, k \in Places : j <= k => S[j] <= S[k]
  <2>1. \A j \in Places : Is(RunningShare(x)[j], S[j], D)
    BY <1>1, <1>3, <1>4, SharesSum
  <2>2. Is(TotalOf(x), SumOf(a), D) BY <1>1, <1>3, SharesSum
  <2>3. TotalOf(x) = One => SumOf(a) = D BY <2>2, TermAndSum DEF Is, One
  <2>4. SumOf(a) <= D
    <3>1. Is(One, 1, 1) BY ConstantsAre
    <3>2. SumOf(a) \in Nat BY TermAndSum
    <3>3. Less(One, TotalOf(x)) <=> 1 * D < SumOf(a) * 1
      BY <2>2, <3>1, <3>2, LessIs
    <3> QED BY <3>2, <3>3
  <2> QED BY <1>4, <2>1, <2>3, <2>4, TermAndSum, RunningSumLaw, SumsGrow
<1>6. \A k \in Nat, j \in Paths : j \in Hit(x, k) <=> k * D < S[j] * Grain
  <2> SUFFICES ASSUME NEW k \in Nat, NEW j \in Paths
               PROVE  Less(<<k, Grain>>, RunningShare(x)[j]) <=> k * D < S[j] * Grain
    BY DEF Hit
  <2>1. Is(<<k, Grain>>, k, Grain) BY <1>g DEF Is, Fractions
  <2>2. j \in Places /\ S[j] \in Nat BY DEF Places
  <2> QED BY <1>5, <1>g, <2>1, <2>2, LessIs
<1>7. i \in Places /\ i - 1 \in Places /\ i \in Nat \ {0} BY PlaceBefore DEF Places
<1>8. PICK s \in Nat, b \in Nat : s = S[i - 1] /\ b = a[i] /\ S[i] = s + b
  BY <1>5, <1>7
<1>9. ASSUME TotalOf(x) = One, x[i] = Zero, NEW k \in 0..(Grain - 1), Select(x, k) = i PROVE FALSE
  <2>1. k \in Nat BY <1>g
  <2>2. k * D < D * Grain
    <3>1. D * k < D * Grain BY <2>1, <1>g, Cancel
    <3> QED BY <3>1, <2>1
  <2>3. i \in Hit(x, k) BY <1>5, <1>6, <1>9, <2>1, <2>2, SelectFirst
  <2>4. b = 0
    <3>1. Is(Zero, b, D) BY <1>3, <1>8, <1>9
    <3> QED BY <3>1 DEF Is, Zero
  <2>5. k * D < s * Grain BY <1>6, <1>8, <2>1, <2>3, <2>4
  <2>6. i - 1 # 0
    <3>1. s = 0 => s * Grain = 0 BY <1>g
    <3>2. k * D \in Nat BY <2>1
    <3> QED BY <1>5, <1>8, <2>5, <3>1, <3>2
  <2>7. i - 1 \in Paths BY <1>7, <2>6 DEF Places
  <2>8. i - 1 \in Hit(x, k) BY <1>6, <1>8, <2>1, <2>5, <2>7
  <2>9. i <= i - 1 BY <1>9, <2>8, SelectFirst
  <2> QED BY <1>7, <2>9
<1>10. ASSUME ~Less(x[i], <<1, Grain>>)
       PROVE  \E k \in 0..(Grain - 1) : Select(x, k) = i
  <2>1. D <= b * Grain
    <3>1. Is(<<1, Grain>>, 1, Grain) BY <1>g DEF Is, Fractions
    <3>2. Less(x[i], <<1, Grain>>) <=> b * Grain < 1 * D
      BY <1>3, <1>8, <1>g, <3>1, LessIs
    <3>3. b * Grain \in Nat BY <1>g
    <3> QED BY <1>10, <3>2, <3>3
  <2> DEFINE T == {k \in Nat : s * Grain <= k * D}
  <2>2. s * Grain \in Nat /\ b * Grain \in Nat BY <1>g
  <2>3. PICK k \in T : \A j \in T : k <= j
    <3>1. s * Grain \in T
      <4>1. PICK w \in Nat : w = s * Grain BY <2>2
      <4>2. w <= w * D
        <5>1. PICK e \in Nat : D = 1 + e
          <6>1. D - 1 \in Nat /\ D = 1 + (D - 1) OBVIOUS
          <6> QED BY <6>1
        <5>2. w * D = w + w * e BY <5>1
        <5> QED BY <5>2
      <4> QED BY <4>1, <4>2
    <3>2. T \in SUBSET Nat /\ T # {} BY <3>1
    <3> HIDE DEF T
    <3> QED BY <3>2, LeastNumber, Zenon
  <2>4. k \in Nat /\ s * Grain <= k * D /\ k * D \in Nat OBVIOUS
  <2>5. k * D < s * Grain + D
    <3>1. CASE k = 0 BY <2>2, <2>4, <3>1
    <3>2. CASE k # 0
      <4>1. k - 1 \in Nat /\ ~(k <= k - 1) BY <2>4, <3>2
      <4>2. k - 1 \notin T BY <2>3, <4>1
      <4>3. (k - 1) * D < s * Grain
        <5>1. (k - 1) * D \in Nat BY <4>1
        <5> QED BY <4>1, <4>2, <5>1, <2>2
      <4>4. k * D = (k - 1) * D + D BY <2>4
      <4>5. (k - 1) * D \in Nat BY <4>1
      <4> QED BY <4>3, <4>4, <4>5, <2>2
    <3> QED BY <3>1, <3>2
  <2>6. k * D < S[i] * Grain
    <3>1. (s + b) * Grain = s * Grain + b * Grain BY <1>g
    <3> QED BY <1>8, <2>1, <2>2, <2>4, <2>5, <3>1
  <2>7. i \in Hit(x, k) BY <1>6, <2>4, <2>6
  <2>8. k \in 0..(Grain - 1)
    <3>1. S[i] <= D
      <4>1. N \in Places /\ i <= N
        BY <1>5, DistributionAssumption DEF Places, Paths
      <4> QED BY <1>5, <1>7, <4>1
    <3>2. Grain * S[i] <= Grain * D BY <1>g, <1>7, <3>1, Cancel
    <3>3. D * k < D * Grain
      <4>1. PICK t \in Nat : t = S[i] BY <1>7
      <4> QED BY <2>4, <2>6, <3>2, <1>g, <4>1
    <3>4. k < Grain BY <2>4, <1>g, <3>3, Cancel
    <3> QED BY <2>4, <1>g, <3>4
  <2>9. \A j \in Hit(x, k) : i <= j
    <3> SUFFICES ASSUME NEW j \in Paths, j <= i - 1, j \in Hit(x, k) PROVE FALSE
      BY <1>7, PlaceBefore DEF Hit
    <3>1. j \in Places BY DEF Places
    <3>2. S[j] <= s /\ S[j] \in Nat BY <1>5, <1>7, <1>8, <3>1
    <3>3. Grain * S[j] <= Grain * s BY <1>g, <3>2, Cancel
    <3>4. k * D < S[j] * Grain BY <1>6, <2>4
    <3>5. S[j] * Grain = Grain * S[j] /\ s * Grain = Grain * s BY <1>g, <3>2
    <3>6. Grain * S[j] \in Nat /\ Grain * s \in Nat BY <1>g, <3>2
    <3> QED BY <2>4, <3>3, <3>4, <3>5, <3>6
  <2>10. Select(x, k) = i
    <3>1. Select(x, k) <= i /\ i <= Select(x, k) BY <2>7, <2>9, SelectFirst
    <3>2. Select(x, k) \in Paths BY SelectFirst
    <3> QED BY <3>1, <3>2, PlaceBefore
  <2> QED BY <2>8, <2>10
<1> QED BY <1>9, <1>10

(* A draw of zero meets the front subflow if it has any share.             *)
LEMMA FrontDraw ==
  ASSUME NEW x \in [Paths -> ShareType], Less(Zero, x[1])
  PROVE  1 \in Selectable(x)
<1>1. 1 \in Paths /\ 1 - 1 = 0 BY DistributionAssumption DEF Paths
<1>2. x \in [Paths -> Nat \X Nat] BY ShareIs
<1>3. PICK n \in Nat, d \in Nat \ {0} : x[1] = <<n, d>>
  <2>1. x[1] # NaN BY DEF Less, Zero, NaN
  <2>2. x[1] \in ShareType BY <1>1
  <2>3. PICK y \in Fractions : y = x[1] BY <2>1, <2>2 DEF ShareType
  <2>4. \E n \in Nat, d \in Nat \ {0} : y = <<n, d>> BY DEF Fractions
  <2> QED BY <2>3, <2>4, Zenon
<1>4. RunningShare(x)[1] = Plus(Zero, x[1])
  BY <1>1, <1>2, RunningShareLaw
<1>5. Is(RunningShare(x)[1], n, d)
  <2>1. Is(Zero, 0, d) BY ConstantsAre
  <2>2. Is(x[1], n, d) BY <1>3 DEF Is, Fractions
  <2>3. 0 \in Nat /\ 0 + n = n OBVIOUS
  <2>4. Is(Plus(Zero, x[1]), 0 + n, d) BY <2>1, <2>2, <2>3, PlusIs
  <2> QED BY <1>4, <2>3, <2>4
<1>6. Less(<<0, Grain>>, RunningShare(x)[1])
  <2>1. Is(<<0, Grain>>, 0, Grain) BY GrainAssumption DEF Is, Fractions
  <2>2. n > 0 BY <1>3 DEF Less, Zero
  <2>3. n * Grain > 0 * d BY <2>2, GrainAssumption
  <2> QED BY <1>5, <2>1, <2>3, GrainAssumption, LessIs
<1>7. 1 \in Hit(x, 0) BY <1>1, <1>6 DEF Hit
<1>8. Select(x, 0) \in Paths /\ Select(x, 0) <= 1 BY <1>7, SelectFirst
<1>9. Select(x, 0) = 1 BY <1>8, DistributionAssumption DEF Paths
<1> QED BY <1>1, <1>9, GrainAssumption DEF Selectable, Draws

(* While all shares are one half only the first three subflows are met,    *)
(* and each of them is.                                                    *)
LEMMA HalfDraws ==
  ASSUME NEW x, x = [i \in Paths |-> Half]
  PROVE  /\ \A k \in Draws : Select(x, k) <= 3
         /\ N <= 3 /\ Grain > 1 => Selectable(x) = Paths
<1>g. Grain \in Nat \ {0} /\ N \in Nat \ {0} /\ Draws = 0..Grain
  BY GrainAssumption, DistributionAssumption DEF Draws
<1>h. Half \in Nat \X Nat /\ x \in [Paths -> Nat \X Nat] BY DEF Half
<1>1. PICK a \in [Paths -> Nat] : a = [i \in Paths |-> 1] OBVIOUS
<1>2. PICK S \in [Places -> Nat] : S = RunningSum(a) BY RunningSumLaw
<1>3. \A j \in Places : Is(RunningShare(x)[j], S[j], 2)
  <2>1. \A i \in Paths : Is(x[i], a[i], 2) BY <1>1, ConstantsAre
  <2>2. 2 \in Nat \ {0} OBVIOUS
  <2> QED BY <1>h, <1>2, <2>1, <2>2, SharesSum
<1>4. \A j \in Paths : j <= 3 => S[j] = j
  <2>1. S[0] = 0 /\ \A j \in Paths : S[j] = S[j - 1] + 1
    BY <1>1, <1>2, RunningSumLaw
  <2>2. 1 \in Paths /\ (3 \in Paths => 2 \in Paths) BY <1>g DEF Paths
  <2>3. S[1] = 1
    <3>1. S[1] = S[1 - 1] + 1 /\ 1 - 1 = 0 BY <2>1, <2>2
    <3> QED BY <2>1, <3>1
  <2>4. ASSUME 2 \in Paths PROVE S[2] = 2
    <3>1. S[2] = S[2 - 1] + 1 /\ 2 - 1 = 1 BY <2>1, <2>4
    <3> QED BY <2>3, <3>1
  <2>5. ASSUME 3 \in Paths PROVE S[3] = 3
    <3>1. S[3] = S[3 - 1] + 1 /\ 3 - 1 = 2 BY <2>1, <2>5
    <3> QED BY <2>2, <2>4, <2>5, <3>1
  <2>6. \A j \in Paths : j <= 3 => j = 1 \/ j = 2 \/ j = 3 BY <1>g DEF Paths
  <2> QED BY <2>3, <2>4, <2>5, <2>6
<1>5. \A k \in Draws, j \in Paths : j <= 3 => (j \in Hit(x, k) <=> k * 2 < j * Grain)
  <2> SUFFICES ASSUME NEW k \in Draws, NEW j \in Paths, j <= 3
               PROVE  Less(<<k, Grain>>, RunningShare(x)[j]) <=> k * 2 < j * Grain
    BY DEF Hit
  <2>1. k \in Nat /\ j \in Nat /\ j \in Places BY <1>g DEF Places, Paths
  <2>2. Is(<<k, Grain>>, k, Grain) BY <1>g, <2>1 DEF Is, Fractions
  <2>3. Is(RunningShare(x)[j], j, 2) BY <1>3, <1>4, <2>1
  <2>4. 2 \in Nat \ {0} OBVIOUS
  <2> QED BY <1>g, <2>1, <2>2, <2>3, <2>4, LessIs
<1>6. \A k \in Draws : Select(x, k) \in Paths /\ Select(x, k) \in Nat
  <2>1. Paths \subseteq Nat BY <1>g DEF Paths
  <2> QED BY <1>h, <2>1, SelectFirst
<1>7. ASSUME NEW k \in Draws PROVE Select(x, k) <= 3
  <2>1. CASE 3 \in Paths
    <3>1. k * 2 < 3 * Grain BY <1>g
    <3>2. 3 \in Hit(x, k) BY <1>5, <2>1, <3>1
    <3> QED BY <1>h, <3>2, SelectFirst
  <2>2. CASE 3 \notin Paths
    <3>1. Select(x, k) \in 1..N BY <1>6 DEF Paths
    <3>2. N < 3 BY <1>g, <2>2 DEF Paths
    <3> QED BY <1>g, <3>1, <3>2
  <2> QED BY <2>1, <2>2
<1>8. ASSUME N <= 3, Grain > 1, NEW i \in Paths
      PROVE  \E k \in Draws : Select(x, k) = i
  <2>1. CASE i = 1
    <3>1. 0 \in Draws /\ 1 \in Hit(x, 0)
      <4>1. 0 \in Draws /\ 1 <= 3 /\ 0 * 2 < 1 * Grain BY <1>g
      <4> QED BY <1>5, <2>1, <4>1
    <3>2. Select(x, 0) <= 1 BY <1>h, <3>1, SelectFirst
    <3>3. Select(x, 0) = 1
      <4>1. Select(x, 0) \in 1..N BY <1>6, <3>1 DEF Paths
      <4> QED BY <1>g, <3>2, <4>1
    <3> QED BY <2>1, <3>1, <3>3
  <2>2. CASE i = 2
    <3>1. Grain - 1 \in Draws /\ 1 \in Paths BY <1>g DEF Paths
    <3>2. 2 \in Hit(x, Grain - 1) /\ 1 \notin Hit(x, Grain - 1)
      <4>1. /\ 2 \in Hit(x, Grain - 1) <=> (Grain - 1) * 2 < 2 * Grain
            /\ 1 \in Hit(x, Grain - 1) <=> (Grain - 1) * 2 < 1 * Grain
        <5>1. 1 <= 3 /\ 2 <= 3 OBVIOUS
        <5>2. PICK k \in Draws : k = Grain - 1 BY <3>1
        <5>3. 2 \in Hit(x, k) <=> k * 2 < 2 * Grain BY <1>5, <2>2, <5>1, Zenon
        <5>4. 1 \in Hit(x, k) <=> k * 2 < 1 * Grain BY <1>5, <3>1, <5>1, Zenon
        <5> QED BY <5>2, <5>3, <5>4, Zenon
      <4> QED BY <4>1, <1>8, <1>g
    <3>3. Select(x, Grain - 1) <= 2 /\ Select(x, Grain - 1) # 1
      BY <1>h, <3>2, SelectFirst
    <3>4. Select(x, Grain - 1) = 2
      <4>1. Select(x, Grain - 1) \in 1..N BY <1>6, <3>1 DEF Paths
      <4> QED BY <1>g, <3>3, <4>1
    <3> QED BY <2>2, <3>1, <3>4
  <2>3. CASE i = 3
    <3>1. Grain \in Draws /\ 1 \in Paths /\ 2 \in Paths BY <1>g, <2>3 DEF Paths
    <3>2. 3 \in Hit(x, Grain) /\ 2 \notin Hit(x, Grain) /\ 1 \notin Hit(x, Grain)
      <4>1. /\ 3 \in Hit(x, Grain) <=> Grain * 2 < 3 * Grain
            /\ 2 \in Hit(x, Grain) <=> Grain * 2 < 2 * Grain
            /\ 1 \in Hit(x, Grain) <=> Grain * 2 < 1 * Grain
        <5>1. 1 <= 3 /\ 2 <= 3 /\ 3 <= 3 OBVIOUS
        <5> QED BY <1>5, <2>3, <3>1, <5>1
      <4> QED BY <4>1, <1>g
    <3>3. Select(x, Grain) <= 3 /\ Select(x, Grain) # 1 /\ Select(x, Grain) # 2
      BY <1>h, <3>2, SelectFirst
    <3>4. Select(x, Grain) = 3
      <4>1. Select(x, Grain) \in 1..N BY <1>6, <3>1 DEF Paths
      <4> QED BY <1>g, <3>3, <4>1
    <3> QED BY <2>3, <3>1, <3>4
  <2>4. i = 1 \/ i = 2 \/ i = 3
    <3>1. i \in 1..N BY DEF Paths
    <3> QED BY <1>8, <1>g, <3>1
  <2> QED BY <2>1, <2>2, <2>3, <2>4
<1>9. Selectable(x) \subseteq Paths BY <1>6 DEF Selectable
<1> QED BY <1>7, <1>8, <1>9 DEF Selectable

-----------------------------------------------------------------------------
(* Reports. *)

(* A bitrate that is measured, smoothed or scaled down is a number.        *)
LEMMA RateType ==
  ASSUME NEW i \in BOOLEAN, NEW old \in Nat, NEW b \in Nat
  PROVE  Initial(b) \in Nat /\ Raised(i, old, b) \in Nat
<1>1. AlphaNum \in Nat /\ AlphaDen \in Nat \ {0} /\ AlphaDen - AlphaNum \in Nat
  BY SubflowAssumption
<1>2. PICK u \in Nat : u = AlphaNum * b BY <1>1
<1>3. PICK v \in Nat : v = AlphaNum * old + (AlphaDen - AlphaNum) * b
  <2>1. AlphaNum * old \in Nat /\ (AlphaDen - AlphaNum) * b \in Nat BY <1>1
  <2> QED BY <2>1
<1>4. u \div AlphaDen \in Nat /\ v \div AlphaDen \in Nat BY <1>1
<1> QED BY <1>2, <1>3, <1>4 DEF Initial, Raised, Smooth

(* While the indicator is above zero the two rates are one: the loss that  *)
(* raised it has set both, and reports without loss follow with both.      *)
Consistent(s) ==
  s.congestion_indicator > 0 =>
    s.TB_initialized /\ s.CB_initialized /\ s.TB = s.CB

(* What a report does to a subflow.                                        *)
LEMMA ReportedEffect ==
  ASSUME NEW s \in SubflowType, NEW loss \in BOOLEAN, NEW b \in Nat,
         NEW aged \in BOOLEAN, Consistent(s)
  PROVE  LET t == Reported(s, loss, b, aged)
         IN  /\ t \in SubflowType /\ Consistent(t)
             /\ t.packet_count_tt = 0
             /\ s.ready => t.ready
             /\ s.packet_count_tt = 0 => t.ready = s.ready
<1>1. PICK now : now = IF aged THEN CIMAX * TO + 1 ELSE 0 OBVIOUS
<1>2. now \in Nat
  <2>1. CIMAX * TO \in Nat BY SubflowAssumption
  <2> QED BY <1>1, <2>1
<1>0. 0 \in Word BY WidthAssumption DEF Word
<1>3. ASSUME NEW u \in SubflowType, Consistent(u)
      PROVE  LET t == [u EXCEPT !.packet_count_tt = 0, !.reported = TRUE,
                                !.congestion_time = 0]
             IN  t \in SubflowType /\ Consistent(t) /\ t.ready = u.ready
                 /\ t.packet_count_tt = 0
  BY <1>0, <1>3 DEF SubflowType, Consistent
<1>4. CASE ~Measures(s)
  <2>1. Reported(s, loss, b, aged) =
          [s EXCEPT !.packet_count_tt = 0, !.reported = TRUE, !.congestion_time = 0]
    BY <1>4 DEF Reported
  <2> QED BY <1>3, <2>1
<1>5. CASE Measures(s)
  <2>1. CleanReport(s, b, now) \in SubflowType /\ Consistent(CleanReport(s, b, now))
    <3> DEFINE tb == Raised(s.TB_initialized, s.TB, b)
               cb == IF s.congestion_indicator > 0
                     THEN Raised(s.CB_initialized, s.CB, b) ELSE s.CB
               ci == IF Decays(s, now) THEN s.congestion_indicator - 1
                                       ELSE s.congestion_indicator
               ct == IF Decays(s, now) THEN now ELSE s.congestion_time
               cbi == s.CB_initialized \/ s.congestion_indicator > 0
    <3>1. tb \in Nat /\ cb \in Nat /\ ct \in Nat
      BY <1>2, RateType DEF SubflowType
    <3>2. ci \in 0..CIMAX BY SubflowAssumption DEF SubflowType, Decays
    <3>3. cbi \in BOOLEAN OBVIOUS
    <3>4. CleanReport(s, b, now) =
            [s EXCEPT !.TB = tb, !.TB_initialized = TRUE,
                      !.congestion_indicator = ci, !.congestion_time = ct,
                      !.CB = cb, !.CB_initialized = cbi]
      BY DEF CleanReport
    <3>5. ci > 0 => tb = cb /\ cbi
      <4>1. s.congestion_indicator \in 0..CIMAX BY DEF SubflowType
      <4>2. ci > 0 => s.congestion_indicator > 0 BY <4>1, SubflowAssumption
      <4> QED BY <4>2 DEF Consistent
    <3> HIDE DEF tb, cb, ci, ct, cbi
    <3>6. CleanReport(s, b, now) \in SubflowType
      BY ZenonT(30), <3>1, <3>2, <3>3, <3>4 DEF SubflowType
    <3>7. Consistent(CleanReport(s, b, now))
      BY <3>4, <3>5 DEF Consistent, SubflowType
    <3> QED BY <3>6, <3>7
  <2>2. LossReport(s, b, now) \in SubflowType /\ Consistent(LossReport(s, b, now))
    <3> DEFINE tb == Initial(b)
               ci == IF s.congestion_indicator < CIMAX
                     THEN s.congestion_indicator + 1 ELSE s.congestion_indicator
    <3>1. tb \in Nat BY RateType
    <3>2. ci \in 0..CIMAX BY SubflowAssumption DEF SubflowType
    <3>3. LossReport(s, b, now) =
            [s EXCEPT !.TB = tb, !.TB_initialized = TRUE,
                      !.CB = tb, !.CB_initialized = TRUE,
                      !.congestion_indicator = ci, !.congestion_time = now]
      BY DEF LossReport
    <3> HIDE DEF tb, ci
    <3>4. LossReport(s, b, now) \in SubflowType
      BY ZenonT(30), <1>2, <3>1, <3>2, <3>3 DEF SubflowType
    <3>5. Consistent(LossReport(s, b, now))
      BY <3>3 DEF Consistent, SubflowType
    <3> QED BY <3>4, <3>5
  <2>3. PICK m : m = IF loss THEN LossReport(s, b, now) ELSE CleanReport(s, b, now)
    OBVIOUS
  <2>4. m \in SubflowType /\ Consistent(m) BY <2>1, <2>2, <2>3
  <2>5. [m EXCEPT !.ready = TRUE] \in SubflowType
        /\ Consistent([m EXCEPT !.ready = TRUE])
        /\ [m EXCEPT !.ready = TRUE].ready
    BY <2>4 DEF SubflowType, Consistent
  <2>6. Reported(s, loss, b, aged) =
          [[m EXCEPT !.ready = TRUE] EXCEPT !.packet_count_tt = 0,
                                            !.reported = TRUE, !.congestion_time = 0]
    BY <1>1, <1>5, <2>3, Zenon DEF Reported
  <2>7. PICK u \in SubflowType : u = [m EXCEPT !.ready = TRUE] BY <2>5
  <2>8. s.packet_count_tt # 0 BY <1>5 DEF Measures
  <2> QED BY <1>3, <2>5, <2>6, <2>7, <2>8
<1> QED BY <1>4, <1>5

-----------------------------------------------------------------------------
(* Shares computed anew. *)

Tested(s, S) == [i \in DOMAIN s |-> IF i \in S THEN s[i].TB ELSE 0]
Worth(s, i) == Ratio(s[i].TB, TBSum(s, Paths))

(* The sum of the tested rates of some subflows is a sum of numbers, in    *)
(* which each of them is contained.                                        *)
LEMMA TestedSum ==
  ASSUME NEW s \in [Paths -> SubflowType], NEW S \in SUBSET Paths
  PROVE  /\ Tested(s, S) \in [Paths -> Nat]
         /\ TBSum(s, S) = SumOf(Tested(s, S)) /\ TBSum(s, S) \in Nat
         /\ \A i \in S : s[i].TB \in Nat /\ s[i].TB <= TBSum(s, S)
         /\ \A i \in Paths : s[i].TB \in Nat /\ s[i].CB \in Nat
<1>1. \A i \in Paths : s[i].TB \in Nat /\ s[i].CB \in Nat BY DEF SubflowType
<1>2. PICK f : f = Tested(s, S) OBVIOUS
<1>3. f \in [Paths -> Nat] /\ \A i \in S : f[i] = s[i].TB
  BY <1>1, <1>2 DEF Tested
<1>4. TBSum(s, S) = SumOf(f) BY <1>2 DEF TBSum, Tested
<1>5. SumOf(f) \in Nat /\ \A i \in Paths : f[i] <= SumOf(f)
  BY <1>3, TermAndSum
<1> QED BY <1>1, <1>2, <1>3, <1>4, <1>5

(* Of the paths with and those without loss together.                      *)
LEMMA TestedParts ==
  ASSUME NEW s \in [Paths -> SubflowType], NEW S \in SUBSET Paths
  PROVE  TBSum(s, Paths) = TBSum(s, S) + SumOf(Tested(s, Paths \ S))
<1>1. PICK f \in [Paths -> Nat] : f = Tested(s, S) BY TestedSum
<1>2. PICK g \in [Paths -> Nat] : g = Tested(s, Paths \ S) BY TestedSum
<1>3. PICK h \in [Paths -> Nat] : h = Tested(s, Paths) BY TestedSum
<1>4. PICK p \in Nat : p = 1 OBVIOUS
<1>5. Combined(f, g, h, p, p, Paths)
  <2>1. \A i \in Paths : s[i].TB \in Nat BY TestedSum
  <2> QED BY <1>1, <1>2, <1>3, <1>4, <2>1 DEF Tested, Combined
<1>6. Combined(RunningSum(f), RunningSum(g), RunningSum(h), p, p, Places)
  BY <1>5, SumsCombine
<1>7. N \in Places BY DistributionAssumption DEF Places, Paths
<1>8. /\ SumOf(h) = RunningSum(h)[N] /\ SumOf(f) = RunningSum(f)[N]
      /\ SumOf(g) = RunningSum(g)[N]
      /\ SumOf(f) \in Nat /\ SumOf(g) \in Nat
  BY TermAndSum
<1>9. SumOf(h) = SumOf(f) + SumOf(g) BY <1>4, <1>6, <1>7, <1>8 DEF Combined
<1>10. TBSum(s, Paths) = SumOf(h) /\ TBSum(s, S) = SumOf(f)
  BY <1>1, <1>3, TestedSum
<1> QED BY <1>2, <1>9, <1>10

(* A limited path gets a fraction of at most what its rate is worth, for   *)
(* every bitrate of the stream; if no path has a rate, NaN.                *)
LEMMA Limits ==
  ASSUME NEW s \in [Paths -> SubflowType], NEW i \in Paths, NEW SB \in Nat,
         NEW factor \in {Half, ThreeQuarters}
  PROVE  LET L == Limited(s, i, factor, SB)
         IN  /\ TBSum(s, Paths) > 0 => L \in Fractions /\ ~Less(Worth(s, i), L)
             /\ TBSum(s, Paths) = 0 => L = NaN
<1>1. PICK T \in Nat : T = TBSum(s, Paths) BY TestedSum
<1>2. PICK t \in Nat, c \in Nat : t = s[i].TB /\ c = s[i].CB /\ t <= T
  BY <1>1, TestedSum
<1>3. PICK w : w = Ratio(t, T) OBVIOUS
<1>4. PICK f \in Nat \ {0}, g \in Nat \ {0} :
        factor[1] = f /\ factor[2] = g /\ Is(factor, f, g)
  BY DEF Half, ThreeQuarters, Is, Fractions
<1>5. PICK y : y = Times(factor, Ratio(c, SB)) OBVIOUS
<1>6. Worth(s, i) = w BY <1>1, <1>2, <1>3 DEF Worth
<1>7. Limited(s, i, factor, SB) = IF Less(y, w) THEN y ELSE w
  BY <1>1, <1>2, <1>3, <1>5 DEF Limited, Min2
<1>8. SB = 0 => y \in {<<0, 0>>, <<1, 0>>}
  <2> SUFFICES ASSUME SB = 0 PROVE y \in {<<0, 0>>, <<1, 0>>} OBVIOUS
  <2>1. f * 0 = 0 /\ g * 0 = 0 /\ f * 1 # 0 BY <1>4
  <2>2. Ratio(c, SB) \in {<<0, 0>>, <<1, 0>>} BY DEF Ratio
  <2> QED BY <1>4, <1>5, <2>1, <2>2 DEF Times, Ratio
<1>9. y \in Nat \X Nat
  <2>1. PICK p \in Nat, q \in Nat : Ratio(c, SB) = <<p, q>>
    <3>1. Ratio(c, SB) \in Nat \X Nat BY RatioType
    <3> QED BY <3>1
  <2>2. f * p \in Nat /\ g * q \in Nat OBVIOUS
  <2> QED BY <1>4, <1>5, <2>1, <2>2, RatioType DEF Times
<1>10. ASSUME T > 0
       PROVE  LET L == IF Less(y, w) THEN y ELSE w
              IN  L \in Fractions /\ ~Less(w, L)
  <2>1. Is(w, t, T) BY <1>3, <1>10, RatioIs
  <2>2. w \in Fractions /\ ~Less(w, w)
    <3>1. PICK n \in Nat, d \in Nat \ {0} : w = <<n, d>>
      BY <2>1 DEF Is, Fractions
    <3>2. n * d \in Nat OBVIOUS
    <3> QED BY <2>1, <3>1, <3>2 DEF Is, Less
  <2>3. CASE SB = 0
    <3>1. PICK n \in Nat, d \in Nat \ {0} : w[1] = n /\ w[2] = d
      BY <2>2 DEF Fractions
    <3>2. n * 0 = 0 /\ 0 * d = 0 /\ 1 * d \in Nat OBVIOUS
    <3>3. ~Less(y, w) BY <1>8, <2>3, <3>1, <3>2 DEF Less
    <3> QED BY <2>2, <3>3
  <2>4. CASE SB # 0
    <3>1. Is(Ratio(c, SB), c, SB) BY <2>4, RatioIs
    <3>2. PICK a \in Nat : a = f * c
      <4>1. f * c \in Nat OBVIOUS
      <4> QED BY <4>1
    <3>3. PICK D \in Nat \ {0} : D = g * SB
      <4>1. g * SB \in Nat \ {0} BY <2>4
      <4> QED BY <4>1
    <3>4. Is(y, a, D) BY <1>4, <1>5, <2>4, <3>1, <3>2, <3>3, TimesIs
    <3>5. Less(y, w) <=> a * T < t * D BY <1>10, <2>1, <3>4, LessIs
    <3>6. Less(w, y) <=> t * D < a * T BY <1>10, <2>1, <3>4, LessIs
    <3>7. a * T \in Nat /\ t * D \in Nat OBVIOUS
    <3>8. y \in Fractions BY <3>4 DEF Is
    <3> QED BY <2>2, <3>5, <3>6, <3>7, <3>8
  <2> QED BY <2>3, <2>4
<1>11. ASSUME T = 0 PROVE (IF Less(y, w) THEN y ELSE w) = NaN
  <2>1. w = NaN BY <1>2, <1>3, <1>11 DEF Ratio, NaN
  <2> QED BY <1>9, <2>1, PlusNaN
<1> QED BY <1>1, <1>6, <1>7, <1>10, <1>11

(* A quotient of a number above zero is above zero.                        *)
LEMMA RatioAbove ==
  ASSUME NEW t \in Nat \ {0}, NEW T \in Nat \ {0}
  PROVE  Less(Zero, Ratio(t, T))
<1>1. Is(Zero, 0, 1) BY ConstantsAre DEF Is, Zero, Fractions
<1>2. Is(Ratio(t, T), t, T) BY RatioIs
<1>3. Less(Zero, Ratio(t, T)) <=> 0 * T < t * 1 BY <1>1, <1>2, LessIs
<1>4. 0 * T = 0 /\ t * 1 = t OBVIOUS
<1> QED BY <1>3, <1>4

(* The limit on a path with a rate is above zero, for every bitrate of the *)
(* stream, an idle one's included.                                         *)
LEMMA LimitAbove ==
  ASSUME NEW s \in [Paths -> SubflowType], NEW i \in Paths, NEW SB \in Nat,
         NEW factor \in {Half, ThreeQuarters}, s[i].TB > 0, s[i].CB > 0
  PROVE  Less(Zero, Limited(s, i, factor, SB))
<1>1. PICK T \in Nat : T = TBSum(s, Paths) BY TestedSum
<1>2. PICK t \in Nat \ {0}, c \in Nat \ {0} : t = s[i].TB /\ c = s[i].CB
  <2>1. s[i].TB \in Nat \ {0} /\ s[i].CB \in Nat \ {0} BY TestedSum
  <2> QED BY <2>1
<1>3. T \in Nat \ {0} BY <1>1, <1>2, TestedSum
<1>4. PICK w : w = Ratio(t, T) OBVIOUS
<1>5. Less(Zero, w) BY <1>3, <1>4, RatioAbove
<1>6. PICK f \in Nat \ {0}, g \in Nat \ {0} :
        factor[1] = f /\ factor[2] = g /\ Is(factor, f, g)
  BY DEF Half, ThreeQuarters, Is, Fractions
<1>7. PICK y : y = Times(factor, Ratio(c, SB)) OBVIOUS
<1>8. Less(Zero, y)
  <2>1. CASE SB = 0
    <3>1. f * 1 = f /\ g * 0 = 0 BY <1>6
    <3>2. Ratio(c, SB) = <<1, 0>> BY <1>2, <2>1 DEF Ratio
    <3>3. y = <<1, 0>> BY <1>6, <1>7, <3>1, <3>2 DEF Times, Ratio
    <3> QED BY <3>3 DEF Less, Zero
  <2>2. CASE SB # 0
    <3>1. Is(Ratio(c, SB), c, SB) BY <2>2, RatioIs
    <3>2. PICK a \in Nat \ {0} : a = f * c
      <4>1. f * c \in Nat \ {0} OBVIOUS
      <4> QED BY <4>1
    <3>3. PICK D \in Nat \ {0} : D = g * SB
      <4>1. g * SB \in Nat \ {0} BY <2>2
      <4> QED BY <4>1
    <3>4. Is(y, a, D) BY <1>6, <1>7, <2>2, <3>1, <3>2, <3>3, TimesIs
    <3>5. Is(Zero, 0, 1) BY DEF Is, Zero, Fractions
    <3>6. Less(Zero, y) <=> 0 * D < a * 1 BY <3>4, <3>5, LessIs
    <3>7. 0 * D = 0 /\ a * 1 = a OBVIOUS
    <3> QED BY <3>6, <3>7
  <2> QED BY <2>1, <2>2
<1>9. Limited(s, i, factor, SB) = IF Less(y, w) THEN y ELSE w
  <2>1. DOMAIN s = Paths OBVIOUS
  <2> QED BY <1>1, <1>2, <1>4, <1>7, <2>1 DEF Limited, Min2
<1> QED BY <1>5, <1>8, <1>9

(* The division by tested rates.                                           *)
LEMMA TestedDivision ==
  ASSUME NEW s \in [Paths -> SubflowType]
  PROVE  LET new == ByTestedRate(s)
         IN  /\ new \in [Paths -> ShareType]
             /\ \A i \in Paths : new[i] = Worth(s, i) /\ ~Less(new[i], new[i])
             /\ IF TBSum(s, Paths) > 0 THEN TotalOf(new) = One
                                       ELSE TotalOf(new) = NaN
<1>1. PICK T \in Nat : T = TBSum(s, Paths) BY TestedSum
<1>2. PICK a : a = Tested(s, Paths) OBVIOUS
<1>3. /\ a \in [Paths -> Nat] /\ SumOf(a) = T
      /\ \A i \in Paths : a[i] = s[i].TB /\ a[i] <= T
  BY <1>1, <1>2, TestedSum DEF Tested
<1>4. PICK new : new = ByTestedRate(s) OBVIOUS
<1>5. /\ new = [i \in Paths |-> Ratio(a[i], T)]
      /\ \A i \in Paths : Worth(s, i) = Ratio(a[i], T)
  BY <1>1, <1>3, <1>4 DEF ByTestedRate, Worth
<1>6. \A i \in Paths : ~Less(new[i], new[i])
  <2> SUFFICES ASSUME NEW i \in Paths PROVE ~Less(new[i], new[i]) OBVIOUS
  <2>1. PICK n \in Nat, d \in Nat : Ratio(a[i], T) = <<n, d>>
    <3>1. a[i] \in Nat BY <1>3
    <3>2. Ratio(a[i], T) \in Nat \X Nat BY <3>1, RatioType
    <3> QED BY <3>2
  <2>2. n * d \in Nat OBVIOUS
  <2> QED BY <1>5, <2>1, <2>2 DEF Less
<1>7. CASE T > 0
  <2>1. \A i \in Paths : Is(new[i], a[i], T) BY <1>3, <1>5, <1>7, RatioIs
  <2>2. \A i \in Paths : new[i] \in ShareType BY <1>3, <1>7, <2>1, IsShare
  <2>3. new \in [Paths -> Nat \X Nat] BY <1>5, <2>2, ShareIs
  <2>4. TotalOf(new) = One BY <1>3, <1>7, <2>1, <2>3, SharesSum
  <2> QED BY <1>1, <1>4, <1>5, <1>6, <1>7, <2>2, <2>4
<1>8. CASE T = 0
  <2>1. \A i \in Paths : a[i] = 0 BY <1>3, <1>8
  <2>2. \A i \in Paths : new[i] = NaN BY <1>5, <1>8, <2>1 DEF Ratio, NaN
  <2>3. NaN \in ShareType /\ NaN \in Nat \X Nat BY DEF ShareType, NaN
  <2>4. new \in [Paths -> Nat \X Nat] /\ N \in Paths
    BY <1>5, <2>2, <2>3, DistributionAssumption DEF Paths
  <2>5. TotalOf(new) = NaN BY <2>2, <2>4, NaNSpoils
  <2> QED BY <1>1, <1>4, <1>5, <1>6, <1>8, <2>2, <2>3, <2>5
<1> QED BY <1>7, <1>8

(* What SharesAddUp and LossNeverPays say once the shares answer to the    *)
(* reports.                                                                *)
Divided(s, p) ==
  /\ (\E i \in CleanOnes(s) : s[i].TB > 0) => TotalOf(p) = One
  /\ CleanOnes(s) = {} => ~Less(One, TotalOf(p))
Deserved(s, p) ==
  \A i \in Paths :
    /\ i \notin CleanOnes(s) => ~Less(Worth(s, i), p[i])
    /\ i \in CleanOnes(s) /\ s[i].TB > 0 => ~Less(p[i], Worth(s, i))

(* The limits that Stepwise adds up to AP. *)
LimitOf(s, SB, i) ==
  Limited(s, i, IF IsCongested(s[i]) THEN Half ELSE ThreeQuarters, SB)
LimitsOf(s, SB) ==
  [i \in Paths |-> IF i \in CleanOnes(s) THEN Zero ELSE LimitOf(s, SB, i)]

(* The division by steps, in these terms.                                  *)
LEMMA StepwiseIs ==
  ASSUME NEW s \in [Paths -> SubflowType], NEW old, NEW SB
  PROVE  /\ CleanOnes(s) \in SUBSET Paths
         /\ Stepwise(s, old, SB) = [i \in Paths |->
              IF i \notin CleanOnes(s) THEN LimitOf(s, SB, i)
              ELSE IF TBSum(s, CleanOnes(s)) = 0 THEN old[i]
              ELSE Times(Ratio(s[i].TB, TBSum(s, CleanOnes(s))),
                         Complement(TotalOf(LimitsOf(s, SB))))]
<1>1. DOMAIN s = Paths OBVIOUS
<1>2. CleanOnes(s) \in SUBSET Paths BY <1>1 DEF CleanOnes
<1> DEFINE clean == CleanOnes(s)
           limit == [i \in DOMAIN s |-> IF i \in clean THEN Zero ELSE LimitOf(s, SB, i)]
           AP == TotalOf(limit)
           rest(i) == Times(Ratio(s[i].TB, TBSum(s, clean)), Complement(AP))
<1>3. Stepwise(s, old, SB) =
        [i \in DOMAIN s |-> IF i \notin clean THEN limit[i]
                            ELSE IF TBSum(s, clean) = 0 THEN old[i] ELSE rest(i)]
  BY DEF Stepwise, LimitOf
<1>4. limit = LimitsOf(s, SB) BY <1>1, Zenon DEF LimitsOf
<1>5. \A i \in Paths : i \notin clean => limit[i] = LimitOf(s, SB, i) BY <1>1
<1>6. PICK L : L = limit OBVIOUS
<1>7. PICK C : C = clean OBVIOUS
<1>8. /\ Stepwise(s, old, SB) =
            [i \in Paths |-> IF i \notin C THEN L[i]
                             ELSE IF TBSum(s, C) = 0 THEN old[i]
                             ELSE Times(Ratio(s[i].TB, TBSum(s, C)), Complement(TotalOf(L)))]
      /\ \A i \in Paths : i \notin C => L[i] = LimitOf(s, SB, i)
  BY <1>1, <1>3, <1>5, <1>6, <1>7, Zenon
<1>9. Stepwise(s, old, SB) =
        [i \in Paths |-> IF i \notin C THEN LimitOf(s, SB, i)
                         ELSE IF TBSum(s, C) = 0 THEN old[i]
                         ELSE Times(Ratio(s[i].TB, TBSum(s, C)), Complement(TotalOf(L)))]
  BY <1>8
<1> QED BY <1>2, <1>4, <1>6, <1>7, <1>9, Zenon

(* What the limited paths get together leaves the clean ones what their    *)
(* tested rates are worth, and as much as is not given out.                *)
LEMMA StepwiseFair ==
  ASSUME NEW s \in [Paths -> SubflowType], NEW old \in [Paths -> ShareType],
         NEW SB \in Nat
  PROVE  LET new == Stepwise(s, old, SB)
         IN  new \in [Paths -> ShareType] /\ Divided(s, new) /\ Deserved(s, new)
<1>1. PICK new : new = Stepwise(s, old, SB) OBVIOUS
<1>2. PICK C \in SUBSET Paths : C = CleanOnes(s) BY StepwiseIs
<1>3. PICK T \in Nat : T = TBSum(s, Paths) BY TestedSum
<1>4. PICK CT \in Nat : CT = TBSum(s, C) BY TestedSum
<1>5. PICK c \in [Paths -> Nat] : c = Tested(s, C) BY TestedSum
<1>6. PICK n \in [Paths -> Nat] : n = Tested(s, Paths \ C) BY TestedSum
<1>7. T = CT + SumOf(n) /\ SumOf(c) = CT /\ SumOf(n) \in Nat
  BY <1>3, <1>4, <1>5, <1>6, TestedParts, TestedSum, TermAndSum
<1>8. \A i \in Paths : /\ s[i].TB \in Nat /\ s[i].TB <= T
                       /\ i \in C => s[i].TB <= CT /\ c[i] = s[i].TB /\ n[i] = 0
                       /\ i \notin C => c[i] = 0 /\ n[i] = s[i].TB
  BY <1>3, <1>4, <1>5, <1>6, TestedSum DEF Tested
<1>9. PICK L : L = LimitsOf(s, SB) OBVIOUS
<1>10. /\ DOMAIN L = Paths
       /\ \A i \in Paths : L[i] = IF i \in C THEN Zero ELSE LimitOf(s, SB, i)
  BY <1>2, <1>9 DEF LimitsOf
<1>11. new = [i \in Paths |->
                IF i \notin C THEN L[i]
                ELSE IF CT = 0 THEN old[i]
                ELSE Times(Ratio(s[i].TB, CT), Complement(TotalOf(L)))]
  BY <1>1, <1>2, <1>4, <1>9, <1>10, StepwiseIs
<1>12. \A i \in Paths :
         /\ T > 0 => LimitOf(s, SB, i) \in Fractions
                       /\ ~Less(Ratio(s[i].TB, T), LimitOf(s, SB, i))
         /\ T = 0 => LimitOf(s, SB, i) = NaN
  <2> SUFFICES ASSUME NEW i \in Paths
               PROVE /\ T > 0 => LimitOf(s, SB, i) \in Fractions
                              /\ ~Less(Ratio(s[i].TB, T), LimitOf(s, SB, i))
                     /\ T = 0 => LimitOf(s, SB, i) = NaN
    OBVIOUS
  <2>1. PICK factor \in {Half, ThreeQuarters} :
          factor = IF IsCongested(s[i]) THEN Half ELSE ThreeQuarters
    OBVIOUS
  <2> QED BY <1>3, <2>1, Limits DEF LimitOf, Worth
<1>13. CASE T = 0
  <2>1. CT = 0 BY <1>7, <1>13
  <2>2. NaN \in ShareType /\ NaN \in Nat \X Nat BY DEF ShareType, NaN
  <2>3. \A i \in Paths : new[i] = IF i \in C THEN old[i] ELSE NaN
    BY <1>10, <1>11, <1>12, <1>13, <2>1
  <2>4. new \in [Paths -> ShareType] BY <1>11, <2>2, <2>3
  <2>5. Divided(s, new)
    <3>1. \A i \in C : ~(s[i].TB > 0) BY <1>8, <1>13
    <3>2. ASSUME C = {} PROVE ~Less(One, TotalOf(new))
      <4>1. N \in Paths BY DistributionAssumption DEF Paths
      <4>2. new[N] = NaN BY <2>3, <3>2, <4>1
      <4>3. new \in [Paths -> Nat \X Nat] BY <2>4, ShareIs
      <4>4. TotalOf(new) = NaN BY <4>1, <4>2, <4>3, NaNSpoils
      <4>5. One \in Nat \X Nat BY DEF One
      <4> QED BY <4>4, <4>5, PlusNaN
    <3> QED BY <1>2, <3>1, <3>2 DEF Divided
  <2>6. Deserved(s, new)
    <3>1. \A i \in Paths : Worth(s, i) \in Nat \X Nat
      <4> SUFFICES ASSUME NEW i \in Paths PROVE Ratio(s[i].TB, T) \in Nat \X Nat
        BY <1>3 DEF Worth
      <4>1. s[i].TB \in Nat BY <1>8
      <4> QED BY <4>1, RatioType
    <3>2. \A i \in Paths : i \notin C => ~Less(Worth(s, i), new[i])
      BY <2>3, <3>1, PlusNaN
    <3>3. \A i \in C : ~(s[i].TB > 0) BY <1>8, <1>13
    <3> QED BY <1>2, <3>2, <3>3 DEF Deserved
  <2> QED BY <1>1, <2>4, <2>5, <2>6
<1>14. CASE T # 0
  <2>t. T \in Nat \ {0} BY <1>14
  <2>1. L \in [Paths -> Fractions] /\ L \in [Paths -> Nat \X Nat]
    <3>1. Zero \in Fractions BY DEF Zero, Fractions
    <3>2. \A i \in Paths : L[i] \in Fractions BY <1>10, <1>12, <2>t, <3>1
    <3>3. L = [i \in Paths |-> IF i \in C THEN Zero ELSE LimitOf(s, SB, i)]
      BY <1>2, <1>9 DEF LimitsOf
    <3>4. Fractions \subseteq Nat \X Nat BY DEF Fractions
    <3> QED BY <3>2, <3>3, <3>4
  <2>2. PICK D \in Nat \ {0}, a \in [Paths -> Nat] : \A i \in Paths : Is(L[i], a[i], D)
    BY <2>1, CommonDenominator, Zenon
  <2>3. PICK A \in Nat : A = SumOf(a) BY TermAndSum
  <2>4. Is(TotalOf(L), A, D) BY <2>1, <2>2, <2>3, SharesSum
  <2>5. Compared(a, n, T, D, Paths)
    <3> SUFFICES ASSUME NEW i \in Paths PROVE T * a[i] <= D * n[i]
      BY DEF Compared
    <3>1. PICK x \in Nat : x = a[i] OBVIOUS
    <3>2. PICK t \in Nat : t = s[i].TB BY <1>8
    <3>3. CASE i \in C
      <4>1. Is(Zero, x, D) BY <1>10, <2>2, <3>1, <3>3
      <4>2. x = 0 BY <4>1 DEF Is, Zero
      <4>3. T * 0 = 0 /\ D * 0 = 0 OBVIOUS
      <4> QED BY <1>8, <3>1, <3>3, <4>2, <4>3
    <3>4. CASE i \notin C
      <4>1. Is(Ratio(t, T), t, T) BY <2>t, RatioIs
      <4>2. ~Less(Ratio(t, T), L[i]) BY <1>10, <1>12, <2>t, <3>2, <3>4
      <4>3. ~(t * D < x * T) BY <2>2, <2>t, <3>1, <4>1, <4>2, LessIs
      <4>4. t * D \in Nat /\ x * T \in Nat /\ t * D = D * t /\ x * T = T * x OBVIOUS
      <4>5. n[i] = t BY <1>8, <3>2, <3>4
      <4> QED BY <3>1, <4>3, <4>4, <4>5
    <3> QED BY <3>3, <3>4
  <2>6. PICK M \in Nat : M = SumOf(n) /\ T = CT + M BY <1>7
  <2>7. T * A <= D * M
    <3>1. Compared(RunningSum(a), RunningSum(n), T, D, Places)
      BY <2>5, SumsCompare
    <3>2. N \in Places BY DistributionAssumption DEF Places, Paths
    <3>3. SumOf(a) = RunningSum(a)[N] /\ SumOf(n) = RunningSum(n)[N] BY TermAndSum
    <3> QED BY <2>3, <2>6, <3>1, <3>2, <3>3 DEF Compared
  <2>8. A <= D
    <3>1. T * D = D * CT + D * M BY <2>6
    <3>2. D * CT \in Nat /\ D * M \in Nat /\ T * A \in Nat OBVIOUS
    <3>3. T * A <= T * D BY <2>7, <3>1, <3>2
    <3> QED BY <2>t, <3>3, Cancel
  <2>9. \A i \in Paths : i \notin C => L[i] \in ShareType /\ ~Less(Worth(s, i), L[i])
    <3> SUFFICES ASSUME NEW i \in Paths, i \notin C
                 PROVE  L[i] \in ShareType /\ ~Less(Worth(s, i), L[i])
      OBVIOUS
    <3>1. a[i] \in Nat /\ a[i] <= A BY <2>3, TermAndSum
    <3>2. a[i] <= D BY <2>8, <3>1
    <3>3. L[i] \in ShareType BY <2>2, <3>1, <3>2, IsShare
    <3>4. ~Less(Worth(s, i), L[i]) BY <1>3, <1>10, <1>12, <2>t DEF Worth
    <3> QED BY <3>3, <3>4
  <2>10. CASE CT = 0
    <3>1. \A i \in Paths : new[i] = IF i \in C THEN old[i] ELSE L[i]
      BY <1>11, <2>10
    <3>2. new \in [Paths -> ShareType] BY <1>11, <2>9, <3>1
    <3>3. \A i \in C : ~(s[i].TB > 0) BY <1>8, <2>10
    <3>4. Deserved(s, new) BY <1>2, <2>9, <3>1, <3>3 DEF Deserved
    <3>5. ASSUME C = {} PROVE ~Less(One, TotalOf(new))
      <4>1. new = L BY <1>10, <1>11, <2>1, <3>1, <3>5
      <4>2. Is(One, D, D) BY ConstantsAre
      <4>3. Less(One, TotalOf(L)) <=> D * D < A * D BY <2>4, <4>2, LessIs
      <4>4. D * A <= D * D BY <2>8, Cancel
      <4>5. D * A = A * D /\ D * A \in Nat /\ D * D \in Nat OBVIOUS
      <4> QED BY <4>1, <4>3, <4>4, <4>5
    <3>6. Divided(s, new) BY <1>2, <3>3, <3>5 DEF Divided
    <3> QED BY <1>1, <3>2, <3>4, <3>6
  <2>11. CASE CT # 0
    <3>c. CT \in Nat \ {0} BY <2>11
    <3>1. PICK K \in Nat : K = D - A /\ K <= D BY <2>8
    <3>2. PICK E \in Nat \ {0} : E = CT * D
      <4>1. CT * D \in Nat \ {0} BY <3>c
      <4> QED BY <4>1
    <3>3. Is(Complement(TotalOf(L)), K, D) BY <2>4, <2>8, <3>1, ComplementIs
    <3>4. PICK b \in [Paths -> Nat] : b = [i \in Paths |-> CT * a[i] + K * c[i]]
      <4>1. \A i \in Paths : CT * a[i] + K * c[i] \in Nat OBVIOUS
      <4> QED BY <4>1
    <3>5. \A i \in Paths : i \notin C => new[i] = L[i] /\ Is(new[i], b[i], E)
      <4> SUFFICES ASSUME NEW i \in Paths, i \notin C
                   PROVE  new[i] = L[i] /\ Is(new[i], b[i], E)
        OBVIOUS
      <4>1. new[i] = L[i] BY <1>11
      <4>2. PICK x \in Nat : x = a[i] OBVIOUS
      <4>3. Is(L[i], x * CT, D * CT) BY <2>2, <3>c, <4>2, Extended
      <4>4. c[i] = 0 BY <1>8
      <4>5. x * CT = CT * x + K * 0 /\ D * CT = CT * D OBVIOUS
      <4>6. b[i] = x * CT BY <3>4, <4>2, <4>4, <4>5
      <4>7. D * CT = E BY <3>2, <4>5
      <4> QED BY <4>1, <4>3, <4>6, <4>7
    <3>6. \A i \in C : Is(new[i], b[i], E) /\ b[i] <= E /\ ~Less(new[i], Worth(s, i))
      <4> SUFFICES ASSUME NEW i \in C
                   PROVE  Is(new[i], b[i], E) /\ b[i] <= E /\ ~Less(new[i], Worth(s, i))
        OBVIOUS
      <4>i. i \in Paths OBVIOUS
      <4>1. PICK t \in Nat : t = s[i].TB /\ t <= CT /\ c[i] = t BY <1>8, <4>i
      <4>2. Is(Ratio(t, CT), t, CT) BY <3>c, RatioIs
      <4>3. new[i] = Times(Ratio(t, CT), Complement(TotalOf(L)))
        BY <1>11, <2>11, <4>i, <4>1
      <4>4. Is(new[i], t * K, E) BY <3>2, <3>3, <3>c, <4>2, <4>3, TimesIs
      <4>5. PICK x \in Nat : x = a[i] BY <4>i
      <4>6. x = 0
        <5>1. Is(Zero, x, D) BY <1>10, <2>2, <4>5, <4>i
        <5> QED BY <5>1 DEF Is, Zero
      <4>7. CT * 0 + K * t = t * K /\ t * K \in Nat OBVIOUS
      <4>8. b[i] = t * K BY <3>4, <4>1, <4>5, <4>6, <4>7, <4>i
      <4>9. t * K <= E
        <5>1. K * t <= K * CT
          <6>1. CASE K = 0
            <7>1. 0 * t = 0 /\ 0 * CT = 0 OBVIOUS
            <7> QED BY <6>1, <7>1
          <6>2. CASE K # 0 BY <4>1, <6>2, Cancel
          <6> QED BY <6>1, <6>2
        <5>2. CT * K <= CT * D BY <3>1, <3>c, Cancel
        <5>3. K * CT = CT * K /\ K * t = t * K /\ t * K \in Nat /\ CT * K \in Nat
          OBVIOUS
        <5> QED BY <3>2, <5>1, <5>2, <5>3
      <4>10. ~Less(new[i], Worth(s, i))
        <5>1. Is(Worth(s, i), t, T) BY <1>3, <2>t, <4>1, RatioIs DEF Worth
        <5>2. Less(new[i], Worth(s, i)) <=> (t * K) * T < t * E
          BY <2>t, <4>4, <4>7, <5>1, LessIs
        <5>3. E <= K * T
          <6>1. T * D = CT * D + M * D BY <2>6
          <6>2. K * T = T * D - T * A BY <3>1
          <6>3. D * M = M * D /\ CT * D \in Nat /\ M * D \in Nat /\ T * A \in Nat
            OBVIOUS
          <6> QED BY <2>7, <3>2, <6>1, <6>2, <6>3
        <5>4. t * E <= t * (K * T)
          <6>1. K * T \in Nat OBVIOUS
          <6>2. CASE t = 0
            <7>1. 0 * E = 0 /\ 0 * (K * T) = 0 BY <6>1
            <7> QED BY <6>2, <7>1
          <6>3. CASE t # 0 BY <5>3, <6>1, <6>3, Cancel
          <6> QED BY <6>2, <6>3
        <5>5. t * (K * T) = (t * K) * T /\ (t * K) * T \in Nat /\ t * E \in Nat
          OBVIOUS
        <5> QED BY <5>2, <5>4, <5>5
      <4> QED BY <4>4, <4>8, <4>9, <4>10
    <3>7. \A i \in Paths : Is(new[i], b[i], E) BY <3>5, <3>6
    <3>8. new \in [Paths -> ShareType]
      <4>1. \A i \in Paths : new[i] \in ShareType
        <5>1. \A i \in C : new[i] \in ShareType BY <3>6, IsShare
        <5> QED BY <2>9, <3>5, <5>1
      <4> QED BY <1>11, <4>1
    <3>9. SumOf(b) = E
      <4>1. Combined(a, c, b, CT, K, Paths) BY <3>4 DEF Combined
      <4>2. Combined(RunningSum(a), RunningSum(c), RunningSum(b), CT, K, Places)
        BY <4>1, SumsCombine
      <4>3. N \in Places BY DistributionAssumption DEF Places, Paths
      <4>4. /\ SumOf(a) = RunningSum(a)[N] /\ SumOf(b) = RunningSum(b)[N]
            /\ SumOf(c) = RunningSum(c)[N]
        BY TermAndSum
      <4>5. SumOf(b) = CT * A + K * CT
        BY <1>7, <2>3, <4>2, <4>3, <4>4 DEF Combined
      <4>6. CT * A + K * CT = CT * D BY <3>1
      <4> QED BY <3>2, <4>5, <4>6
    <3>10. TotalOf(new) = One
      <4>1. new \in [Paths -> Nat \X Nat] BY <3>8, ShareIs
      <4> QED BY <3>7, <3>9, <4>1, SharesSum
    <3>11. Divided(s, new)
      <4>1. One \in Fractions /\ ~Less(One, One) BY DEF One, Less, Fractions
      <4> QED BY <3>10, <4>1 DEF Divided
    <3>12. Deserved(s, new) BY <1>2, <2>9, <3>5, <3>6 DEF Deserved
    <3> QED BY <1>1, <3>8, <3>11, <3>12
  <2> QED BY <2>10, <2>11
<1> QED BY <1>13, <1>14

(* The shares that a poll leaves when every path has been measured.        *)
LEMMA RecalculatedFair ==
  ASSUME NEW s \in [Paths -> SubflowType], NEW old \in [Paths -> ShareType],
         NEW SB \in Nat, \A i \in Paths : Consistent(s[i]), AllReady(s)
  PROVE  LET new == Recalculated(s, old, SB)
         IN  new \in [Paths -> ShareType] /\ Divided(s, new) /\ Deserved(s, new)
<1>1. PICK new : new = Recalculated(s, old, SB) OBVIOUS
<1>2. DOMAIN s = Paths OBVIOUS
<1>3. CASE CongestedOnes(s) = Paths
  <2>1. \A i \in Paths : s[i].congestion_indicator = CIMAX
    BY <1>2, <1>3 DEF CongestedOnes, IsCongested
  <2>2. \A i \in Paths : s[i].CB = s[i].TB
    BY <2>1, SubflowAssumption DEF Consistent
  <2>3. CleanOnes(s) = {} BY <1>2, <1>3 DEF CleanOnes
  <2>4. CBSum(s, Paths) = TBSum(s, Paths)
    <3>1. [i \in DOMAIN s |-> IF i \in Paths THEN s[i].CB ELSE 0]
            = [i \in DOMAIN s |-> IF i \in Paths THEN s[i].TB ELSE 0]
      BY <2>2
    <3> QED BY <3>1, Zenon DEF CBSum, TBSum
  <2>5. new = ByCongestedRate(s) BY <1>1, <1>2, <1>3 DEF Recalculated
  <2>6. ByCongestedRate(s) = ByTestedRate(s)
    <3>1. PICK C : C = CBSum(s, Paths) OBVIOUS
    <3>2. ByCongestedRate(s) = [i \in Paths |-> Ratio(s[i].CB, C)]
      BY <1>2, <3>1 DEF ByCongestedRate
    <3>3. ByTestedRate(s) = [i \in Paths |-> Ratio(s[i].TB, C)]
      BY <1>2, <2>4, <3>1 DEF ByTestedRate
    <3>4. \A i \in Paths : Ratio(s[i].CB, C) = Ratio(s[i].TB, C)
      BY <2>2
    <3> QED BY <3>2, <3>3, <3>4
  <2>7. /\ new \in [Paths -> ShareType]
        /\ \A i \in Paths : new[i] = Worth(s, i) /\ ~Less(new[i], new[i])
        /\ TotalOf(new) = One \/ TotalOf(new) = NaN
    BY <2>5, <2>6, TestedDivision
  <2>8. ~Less(One, One) /\ ~Less(One, NaN) BY DEF Less, One, NaN
  <2>9. Divided(s, new) BY <2>3, <2>7, <2>8 DEF Divided
  <2>10. Deserved(s, new) BY <2>3, <2>7 DEF Deserved
  <2> QED BY <1>1, <2>7, <2>9, <2>10
<1>4. CASE CongestedOnes(s) # Paths
  <2>1. PICK shares : shares = IF CongestedOnes(s) = {} THEN ByTestedRate(s) ELSE old
    OBVIOUS
  <2>2. shares \in [Paths -> ShareType] BY <2>1, TestedDivision
  <2>3. new = Stepwise(s, shares, SB)
    BY <1>1, <1>2, <1>4, <2>1, Zenon DEF Recalculated
  <2> QED BY <1>1, <2>2, <2>3, StepwiseFair
<1> QED BY <1>3, <1>4

(* A path with a tested rate is never left without packets: neither limit  *)
(* nor division makes its share zero, so that it is still measured when it *)
(* has recovered.                                                          *)
Served(s, p) == \A i \in Paths : s[i].TB > 0 => Less(Zero, p[i])

(* What recalc_subflow_percentage computes serves every rated path.        *)
LEMMA RecalculatedServes ==
  ASSUME NEW s \in [Paths -> SubflowType], NEW old \in [Paths -> ShareType],
         NEW SB \in Nat, \A i \in Paths : Consistent(s[i]), AllReady(s)
  PROVE  Served(s, Recalculated(s, old, SB))
<1>1. PICK new : new = Recalculated(s, old, SB) OBVIOUS
<1>2. new \in [Paths -> ShareType] /\ Divided(s, new) /\ Deserved(s, new)
  BY <1>1, RecalculatedFair
<1>3. DOMAIN s = Paths OBVIOUS
<1>4. PICK T \in Nat : T = TBSum(s, Paths) BY TestedSum
<1> SUFFICES ASSUME NEW i \in Paths, s[i].TB > 0 PROVE Less(Zero, new[i])
  BY <1>1 DEF Served
<1>5. PICK t \in Nat \ {0} : t = s[i].TB
  <2>1. s[i].TB \in Nat \ {0} BY TestedSum
  <2> QED BY <2>1
<1>6. T \in Nat \ {0} BY <1>4, <1>5, TestedSum
<1>7. Worth(s, i) = Ratio(t, T) BY <1>4, <1>5 DEF Worth
<1>8. CASE i \in CleanOnes(s)
  <2>1. TotalOf(new) = One BY <1>2, <1>8 DEF Divided
  <2>2. new \in [Paths -> Nat \X Nat] BY <1>2, ShareIs
  <2>3. new[i] # NaN
    <3>1. new[i] = NaN => TotalOf(new) = NaN BY <2>2, NaNSpoils
    <3> QED BY <2>1, <3>1 DEF One, NaN
  <2>4. PICK n \in Nat, d \in Nat \ {0} : new[i] = <<n, d>>
    BY <1>2, <2>3 DEF ShareType, Fractions
  <2>5. Is(new[i], n, d) BY <2>4 DEF Is, Fractions
  <2>6. Is(Worth(s, i), t, T) BY <1>6, <1>7, RatioIs
  <2>7. ~(n * T < t * d)
    <3>1. ~Less(new[i], Worth(s, i)) BY <1>2, <1>8 DEF Deserved
    <3>2. Less(new[i], Worth(s, i)) <=> n * T < t * d
      BY <1>6, <2>5, <2>6, LessIs
    <3> QED BY <3>1, <3>2
  <2>8. n # 0
    <3>1. 0 * T = 0 /\ t * d > 0 BY <1>6
    <3> QED BY <2>7, <3>1
  <2> QED BY <2>4, <2>8 DEF Less, Zero
<1>9. CASE i \notin CleanOnes(s)
  <2>1. s[i].congestion_indicator > 0
    <3>1. IsCongested(s[i]) \/ IsLossy(s[i])
      BY <1>3, <1>9 DEF CleanOnes, CongestedOnes, LossyOnes
    <3> QED BY <3>1, SubflowAssumption DEF IsCongested, IsLossy
  <2>2. s[i].CB > 0 /\ s[i].CB = s[i].TB BY <2>1 DEF Consistent
  <2>3. CASE CongestedOnes(s) = Paths
    <3>1. new = ByCongestedRate(s) BY <1>1, <1>3, <2>3 DEF Recalculated
    <3>2. \A j \in Paths : s[j].CB = s[j].TB
      BY <1>3, <2>3, SubflowAssumption DEF CongestedOnes, IsCongested, Consistent
    <3>3. CBSum(s, Paths) = T
      <4>1. [j \in DOMAIN s |-> IF j \in Paths THEN s[j].CB ELSE 0]
              = [j \in DOMAIN s |-> IF j \in Paths THEN s[j].TB ELSE 0]
        BY <3>2
      <4> QED BY <1>4, <4>1, Zenon DEF CBSum, TBSum
    <3>4. new[i] = Ratio(t, T)
      BY <1>3, <1>5, <2>2, <3>1, <3>3 DEF ByCongestedRate
    <3> QED BY <1>6, <3>4, RatioAbove
  <2>4. CASE CongestedOnes(s) # Paths
    <3>1. PICK shares : shares = IF CongestedOnes(s) = {} THEN ByTestedRate(s) ELSE old
      OBVIOUS
    <3>2. new = Stepwise(s, shares, SB)
      BY <1>1, <1>3, <2>4, <3>1, Zenon DEF Recalculated
    <3>3. new[i] = LimitOf(s, SB, i) BY <1>9, <3>2, StepwiseIs
    <3>4. PICK factor \in {Half, ThreeQuarters} :
            factor = IF IsCongested(s[i]) THEN Half ELSE ThreeQuarters
      OBVIOUS
    <3>5. Less(Zero, Limited(s, i, factor, SB)) BY <2>2, LimitAbove
    <3> QED BY <3>3, <3>4, <3>5 DEF LimitOf
  <2> QED BY <2>3, <2>4
<1> QED BY <1>8, <1>9

(* Subflows with the same tested rates and indicators deserve the same.    *)
LEMMA SameRates ==
  ASSUME NEW s \in [Paths -> SubflowType], NEW t \in [Paths -> SubflowType], NEW p,
         \A i \in Paths : /\ t[i].TB = s[i].TB
                          /\ t[i].congestion_indicator = s[i].congestion_indicator
  PROVE  /\ Divided(s, p) => Divided(t, p)
         /\ Deserved(s, p) => Deserved(t, p)
<1>1. DOMAIN s = Paths /\ DOMAIN t = Paths OBVIOUS
<1>2. CongestedOnes(t) = CongestedOnes(s) /\ LossyOnes(t) = LossyOnes(s)
  BY <1>1 DEF CongestedOnes, LossyOnes, IsCongested, IsLossy
<1>3. CleanOnes(t) = CleanOnes(s) /\ CleanOnes(s) \subseteq Paths
  BY <1>1, <1>2 DEF CleanOnes
<1>4. TBSum(t, Paths) = TBSum(s, Paths)
  <2>1. [i \in DOMAIN t |-> IF i \in Paths THEN t[i].TB ELSE 0]
          = [i \in DOMAIN s |-> IF i \in Paths THEN s[i].TB ELSE 0]
    BY <1>1
  <2> QED BY <2>1, Zenon DEF TBSum
<1>5. \A i \in Paths : Worth(t, i) = Worth(s, i) BY <1>4 DEF Worth
<1>6. Divided(s, p) => Divided(t, p) BY <1>3 DEF Divided
<1>7. Deserved(s, p) => Deserved(t, p) BY <1>3, <1>5 DEF Deserved
<1> QED BY <1>6, <1>7

-----------------------------------------------------------------------------
(* The invariant. *)

DistributionInv ==
  /\ sfs \in [Paths -> SubflowType]
  /\ percentage \in [Paths -> ShareType]
  /\ recalc \in BOOLEAN
  /\ \A i \in Paths : Consistent(sfs[i])
  /\ ~AllReady(sfs) => percentage = [i \in Paths |-> Half]
  /\ UpToDate => Divided(sfs, percentage) /\ Deserved(sfs, percentage)

(* It holds of new subflows, of which none is ready.                       *)
LEMMA InvInit == Init => DistributionInv
<1> SUFFICES ASSUME Init PROVE DistributionInv OBVIOUS
<1>1. NewSubflow(0) \in SubflowType /\ Consistent(NewSubflow(0)) /\ ~NewSubflow(0).ready
  BY WidthAssumption, SubflowAssumption
  DEF NewSubflow, SubflowType, Seq16, Word, Consistent
<1>2. Half \in ShareType BY DEF Half, ShareType, Fractions
<1>3. sfs = [i \in Paths |-> NewSubflow(0)] /\ percentage = [i \in Paths |-> Half]
      /\ recalc = FALSE
  BY DEF Init
<1>4. 1 \in Paths BY DistributionAssumption DEF Paths
<1>5. ~AllReady(sfs) BY <1>1, <1>3, <1>4 DEF AllReady
<1>6. /\ sfs \in [Paths -> SubflowType]
      /\ percentage \in [Paths -> ShareType]
      /\ \A i \in Paths : Consistent(sfs[i])
  BY <1>1, <1>2, <1>3
<1> QED BY <1>3, <1>5, <1>6 DEF DistributionInv, UpToDate

(* A packet is counted on the subflow it is sent on, and nothing else.     *)
LEMMA SendEffect ==
  ASSUME DistributionInv, NEW k, SendData(k)
  PROVE  /\ sfs' \in [Paths -> SubflowType]
         /\ \A i \in Paths : /\ sfs'[i].TB = sfs[i].TB
                             /\ sfs'[i].congestion_indicator = sfs[i].congestion_indicator
                             /\ sfs'[i].ready = sfs[i].ready
                             /\ Consistent(sfs'[i])
                             /\ i # Select(percentage, k) => sfs'[i] = sfs[i]
         /\ AllReady(sfs') = AllReady(sfs)
<1>1. PICK j : j = Select(percentage, k) OBVIOUS
<1>2. j \in Paths BY <1>1, SelectFirst DEF DistributionInv
<1>3. 1 \in Word BY WidthAssumption DEF Word
<1>4. sfs' = [sfs EXCEPT ![j] = [sfs[j] EXCEPT !.packet_count_tt = 1]]
  BY <1>1 DEF SendData
<1>5. sfs \in [Paths -> SubflowType] /\ \A i \in Paths : Consistent(sfs[i])
  BY DEF DistributionInv
<1>6. PICK u : u = [sfs[j] EXCEPT !.packet_count_tt = 1] OBVIOUS
<1>7. /\ u \in SubflowType /\ u.TB = sfs[j].TB
      /\ u.congestion_indicator = sfs[j].congestion_indicator
      /\ u.ready = sfs[j].ready /\ Consistent(u)
  BY <1>2, <1>3, <1>5, <1>6 DEF SubflowType, Consistent
<1>8. /\ sfs' \in [Paths -> SubflowType]
      /\ \A i \in Paths : sfs'[i] = IF i = j THEN u ELSE sfs[i]
  BY <1>4, <1>5, <1>6, <1>7
<1>9. DOMAIN sfs = Paths /\ DOMAIN sfs' = Paths BY <1>5, <1>8
<1>10. \A i \in Paths : sfs'[i].ready = sfs[i].ready BY <1>7, <1>8
<1>11. AllReady(sfs') = AllReady(sfs) BY <1>9, <1>10 DEF AllReady
<1> QED BY <1>1, <1>5, <1>7, <1>8, <1>11

(* Nothing disturbs it.                                                    *)
LEMMA InvNext == DistributionInv /\ [Next]_vars => DistributionInv'
<1> SUFFICES ASSUME DistributionInv, [Next]_vars PROVE DistributionInv'
  OBVIOUS
<1>1. ASSUME NEW k \in Draws, SendData(k) PROVE DistributionInv'
  <2>1. percentage' = percentage /\ recalc' = recalc BY <1>1 DEF SendData
  <2>2. UpToDate' => UpToDate BY <1>1, <2>1, SendEffect DEF UpToDate
  <2>3. UpToDate' => Divided(sfs', percentage') /\ Deserved(sfs', percentage')
    BY <1>1, <2>1, <2>2, SendEffect, SameRates DEF DistributionInv
  <2>4. ~AllReady(sfs') => percentage' = [i \in Paths |-> Half]
    BY <1>1, <2>1, SendEffect DEF DistributionInv
  <2>5. sfs' \in [Paths -> SubflowType] /\ \A i \in Paths : Consistent(sfs'[i])
    BY <1>1, SendEffect
  <2>6. percentage' \in [Paths -> ShareType] /\ recalc' \in BOOLEAN
    BY <2>1 DEF DistributionInv
  <2> QED BY <2>3, <2>4, <2>5, <2>6 DEF DistributionInv
<1>2. ASSUME NEW j \in Paths, NEW loss \in BOOLEAN, NEW b \in Bitrates,
             NEW aged \in BOOLEAN, OnRR(j, loss, b, aged)
      PROVE  DistributionInv'
  <2>1. PICK u : u = Reported(sfs[j], loss, b, aged) OBVIOUS
  <2>2. b \in Nat BY DistributionAssumption
  <2>3. sfs[j] \in SubflowType /\ Consistent(sfs[j]) BY DEF DistributionInv
  <2>4. u \in SubflowType /\ Consistent(u) /\ (sfs[j].ready => u.ready)
    BY <2>1, <2>2, <2>3, ReportedEffect
  <2>5. sfs' = [sfs EXCEPT ![j] = u] /\ recalc' = TRUE /\ percentage' = percentage
    BY <1>2, <2>1 DEF OnRR
  <2>6. /\ sfs' \in [Paths -> SubflowType]
        /\ \A i \in Paths : sfs'[i] = IF i = j THEN u ELSE sfs[i]
        /\ DOMAIN sfs = Paths
    BY <2>4, <2>5 DEF DistributionInv
  <2>7. \A i \in Paths : Consistent(sfs'[i]) BY <2>4, <2>6 DEF DistributionInv
  <2>8. AllReady(sfs) => AllReady(sfs') BY <2>4, <2>6 DEF AllReady
  <2>9. ~UpToDate' BY <2>5 DEF UpToDate
  <2> QED BY <2>5, <2>6, <2>7, <2>8, <2>9 DEF DistributionInv
<1>3. ASSUME NEW SB \in SBs, Poll(SB) PROVE DistributionInv'
  <2>1. sfs' = sfs /\ recalc' = FALSE /\ percentage' = Recalculated(sfs, percentage, SB)
    BY <1>3 DEF Poll
  <2>2. SB \in Nat BY DistributionAssumption
  <2>3. CASE AllReady(sfs)
    <3>1. /\ percentage' \in [Paths -> ShareType]
          /\ Divided(sfs, percentage') /\ Deserved(sfs, percentage')
      BY <2>1, <2>2, <2>3, RecalculatedFair DEF DistributionInv
    <3> QED BY <2>1, <2>3, <3>1 DEF DistributionInv
  <2>4. CASE ~AllReady(sfs)
    <3>1. percentage' = percentage BY <2>1, <2>4 DEF Recalculated
    <3>2. ~UpToDate' BY <2>1, <2>4 DEF UpToDate
    <3> QED BY <2>1, <3>1, <3>2 DEF DistributionInv
  <2> QED BY <2>3, <2>4
<1>4. CASE UNCHANGED vars
  BY <1>4 DEF vars, DistributionInv, UpToDate
<1> QED BY <1>1, <1>2, <1>3, <1>4 DEF Next

-----------------------------------------------------------------------------
(* The theorems. *)

(* Every share that select_subflow adds up is a number from zero to one,   *)
(* or NaN, whatever recalc_subflow_percentage divided by.                  *)
THEOREM TypeCorrect == Spec => []TypeOK
<1>1. DistributionInv => TypeOK
  <2>1. ASSUME NEW x \in ShareType
        PROVE  x = NaN \/ (~Less(x, Zero) /\ ~Less(One, x))
    <3>1. CASE x = NaN BY <3>1
    <3>2. CASE x # NaN
      <4>1. PICK n \in Nat, d \in Nat \ {0} : x = <<n, d>> /\ n <= d
        BY <3>2 DEF ShareType, Fractions
      <4> QED BY <4>1 DEF Less, Zero, One
    <3> QED BY <3>1, <3>2
  <2> QED BY <2>1 DEF DistributionInv, TypeOK
<1>2. QED BY <1>1, InvInit, InvNext, PTL DEF Spec

(* After recalc_subflow_percentage the shares add up to one when a path    *)
(* without loss has a tested rate, and to no more than one when there is   *)
(* no path without loss.                                                   *)
THEOREM SharesDivideEverything == Spec => []SharesAddUp
<1>1. DistributionInv => SharesAddUp
  BY DEF DistributionInv, SharesAddUp, Divided, Total, Clean
<1>2. QED BY <1>1, InvInit, InvNext, PTL DEF Spec

(* Nor does recalc_subflow_percentage ever give a path that lost packets   *)
(* more than its tested rate is worth, or one that did not less.           *)
THEOREM LossIsNeverRewarded == Spec => []LossNeverPays
<1>1. DistributionInv => LossNeverPays
  BY DEF DistributionInv, LossNeverPays, Deserved, Worth, Clean
<1>2. QED BY <1>1, InvInit, InvNext, PTL DEF Spec

(* As long as the shares add up, the draws of select_subflow follow them.  *)
THEOREM DrawsAreFair == Spec => []DrawsFollowShares
<1>1. DistributionInv => DrawsFollowShares
  <2> SUFFICES ASSUME DistributionInv, Total = One, NEW i \in Paths
               PROVE  LET drawn == {Select(percentage, k) : k \in 0..(Grain - 1)}
                      IN  /\ percentage[i] = Zero => i \notin drawn
                          /\ ~Less(percentage[i], <<1, Grain>>) => i \in drawn
    BY DEF DrawsFollowShares
  <2>1. /\ percentage \in [Paths -> ShareType]
        /\ One # NaN /\ ~Less(One, One)
    BY DEF DistributionInv, One, NaN, Less
  <2>2. /\ percentage[i] = Zero => \A k \in 0..(Grain - 1) : Select(percentage, k) # i
        /\ ~Less(percentage[i], <<1, Grain>>)
             => \E k \in 0..(Grain - 1) : Select(percentage, k) = i
    BY <2>1, DrawsFollow DEF Total
  <2> QED BY <2>2
<1>2. QED BY <1>1, InvInit, InvNext, PTL DEF Spec

(* With up to three subflows and at least two steps of the draw (there are *)
(* 100) every path can be drawn until all have been measured, by the       *)
(* shares of one half that they start with.                                *)
THEOREM ThreePathsAreProbed ==
  ASSUME N <= 3, Grain > 1
  PROVE  Spec => []AllDrawnUntilReady
<1>1. DistributionInv => AllDrawnUntilReady
  BY HalfDraws DEF DistributionInv, AllDrawnUntilReady
<1>2. QED BY <1>1, InvInit, InvNext, PTL DEF Spec

(* Neither recalc_subflow_percentage nor select_subflow ever cuts off a    *)
(* path that has shown a rate and could recover.                           *)
THEOREM RatedPathsStayServed == Spec => []RatedPathsKeepShares
<1> DEFINE Inv == DistributionInv /\ (UpToDate => Served(sfs, percentage))
<1>1. Init => Inv
  <2> SUFFICES ASSUME Init PROVE ~AllReady(sfs) BY InvInit DEF UpToDate
  <2>1. 1 \in Paths BY DistributionAssumption DEF Paths
  <2>2. sfs[1] = NewSubflow(0) /\ DOMAIN sfs = Paths BY <2>1 DEF Init
  <2> QED BY <2>1, <2>2 DEF AllReady, NewSubflow
<1>2. Inv => RatedPathsKeepShares
  <2> SUFFICES ASSUME Inv, UpToDate, NEW i \in Paths, sfs[i].TB > 0
               PROVE  /\ Less(Zero, percentage[i])
                      /\ i = 1 => i \in Selectable(percentage)
                      /\ Total # NaN /\ ~Less(One, Total)
                           /\ ~Less(percentage[i], <<1, Grain>>)
                           => i \in Selectable(percentage)
    BY DEF RatedPathsKeepShares
  <2>1. Less(Zero, percentage[i]) BY DEF Served
  <2>2. ASSUME Total # NaN, ~Less(One, Total), ~Less(percentage[i], <<1, Grain>>)
        PROVE  i \in Selectable(percentage)
    <3>1. \E k \in 0..(Grain - 1) : Select(percentage, k) = i
      BY <2>2, DrawsFollow DEF Total, DistributionInv
    <3> QED BY <3>1, GrainAssumption DEF Selectable, Draws
  <2>3. ASSUME i = 1 PROVE i \in Selectable(percentage)
    BY <2>1, <2>3, FrontDraw DEF DistributionInv
  <2> QED BY <2>1, <2>2, <2>3
<1>3. Inv /\ [Next]_vars => Inv'
  <2> SUFFICES ASSUME Inv, [Next]_vars, UpToDate'
               PROVE  Served(sfs', percentage')
    BY InvNext
  <2>1. ASSUME NEW k \in Draws, SendData(k) PROVE Served(sfs', percentage')
    <3>1. percentage' = percentage /\ recalc' = recalc BY <2>1 DEF SendData
    <3>2. UpToDate BY <2>1, <3>1, SendEffect DEF UpToDate
    <3> QED BY <2>1, <3>1, <3>2, SendEffect DEF Served
  <2>2. ASSUME NEW j \in Paths, NEW loss \in BOOLEAN, NEW b \in Bitrates,
               NEW aged \in BOOLEAN, OnRR(j, loss, b, aged)
        PROVE  FALSE
    BY <2>2 DEF OnRR, UpToDate
  <2>3. ASSUME NEW SB \in SBs, Poll(SB) PROVE Served(sfs', percentage')
    <3>1. sfs' = sfs /\ percentage' = Recalculated(sfs, percentage, SB)
      BY <2>3 DEF Poll
    <3>2. AllReady(sfs) /\ SB \in Nat BY <3>1, DistributionAssumption DEF UpToDate
    <3> QED BY <3>1, <3>2, RecalculatedServes DEF DistributionInv
  <2>4. CASE UNCHANGED vars BY <2>4 DEF vars, UpToDate
  <2> QED BY <2>1, <2>2, <2>3, <2>4 DEF Next
<1> HIDE DEF Inv
<1>4. QED BY <1>1, <1>2, <1>3, PTL DEF Spec

(* A report, about whichever subflow, makes none that sent nothing readier.*)
LEMMA ReportOfNothing ==
  ASSUME DistributionInv, NEW j \in Paths, NEW loss \in BOOLEAN, NEW b \in Bitrates,
         NEW aged \in BOOLEAN, OnRR(j, loss, b, aged),
         NEW i \in Paths, sfs[i].packet_count_tt = 0
  PROVE  sfs'[i].packet_count_tt = 0 /\ sfs'[i].ready = sfs[i].ready
<1>1. PICK u : u = Reported(sfs[j], loss, b, aged) OBVIOUS
<1>2. b \in Nat BY DistributionAssumption
<1>3. sfs[j] \in SubflowType /\ Consistent(sfs[j]) BY DEF DistributionInv
<1>4. /\ u.packet_count_tt = 0
      /\ sfs[j].packet_count_tt = 0 => u.ready = sfs[j].ready
  BY <1>1, <1>2, <1>3, ReportedEffect
<1>5. sfs' = [sfs EXCEPT ![j] = u] BY <1>1 DEF OnRR
<1>6. sfs'[i] = IF i = j THEN u ELSE sfs[i] BY <1>5 DEF DistributionInv
<1> QED BY <1>4, <1>6

(* The shares are still the initial ones, and not every path is measured.  *)
NeverStarts == ~AllReady(sfs) /\ \A i \in Paths : percentage[i] = Half

(* With more than three subflows the shares are never computed: no draw of *)
(* select_subflow meets the fourth one, so that it sends nothing and no    *)
(* report measures it, and recalc_subflow_percentage waits for all of them.*)
THEOREM FourPathsNeverStart ==
  ASSUME N > 3
  PROVE  Spec => []NeverStarts
<1> DEFINE Inv == DistributionInv /\ sfs[4].packet_count_tt = 0 /\ ~sfs[4].ready
<1>f. 4 \in Paths BY N > 3, DistributionAssumption DEF Paths
<1>1. Init => Inv
  <2> SUFFICES ASSUME Init PROVE sfs[4].packet_count_tt = 0 /\ ~sfs[4].ready
    BY InvInit
  <2>1. sfs[4] = NewSubflow(0) BY <1>f DEF Init
  <2> QED BY <2>1 DEF NewSubflow
<1>2. Inv => NeverStarts
  <2> SUFFICES ASSUME Inv PROVE NeverStarts OBVIOUS
  <2>1. ~AllReady(sfs) BY <1>f DEF AllReady, DistributionInv
  <2>2. percentage = [i \in Paths |-> Half] BY <2>1 DEF DistributionInv
  <2> QED BY <2>1, <2>2 DEF NeverStarts
<1>3. Inv /\ [Next]_vars => Inv'
  <2> SUFFICES ASSUME Inv, [Next]_vars
               PROVE  sfs'[4].packet_count_tt = 0 /\ ~sfs'[4].ready
    BY InvNext
  <2>1. ASSUME NEW k \in Draws, SendData(k)
        PROVE  sfs'[4].packet_count_tt = 0 /\ ~sfs'[4].ready
    <3>1. percentage = [i \in Paths |-> Half]
      <4>1. ~AllReady(sfs) BY <1>f DEF AllReady, DistributionInv
      <4> QED BY <4>1 DEF DistributionInv
    <3>2. Select(percentage, k) <= 3 BY <3>1, HalfDraws
    <3>3. 4 # Select(percentage, k)
      <4>1. ~(4 <= 3) OBVIOUS
      <4> QED BY <3>2, <4>1
    <3>4. sfs'[4] = sfs[4] BY <1>f, <2>1, <3>3, SendEffect
    <3> QED BY <3>4
  <2>2. ASSUME NEW j \in Paths, NEW loss \in BOOLEAN, NEW b \in Bitrates,
               NEW aged \in BOOLEAN, OnRR(j, loss, b, aged)
        PROVE  sfs'[4].packet_count_tt = 0 /\ ~sfs'[4].ready
    BY <1>f, <2>2, ReportOfNothing
  <2>3. ASSUME NEW SB \in SBs, Poll(SB)
        PROVE  sfs'[4].packet_count_tt = 0 /\ ~sfs'[4].ready
    BY <2>3 DEF Poll
  <2>4. CASE UNCHANGED vars BY <2>4 DEF vars
  <2> QED BY <2>1, <2>2, <2>3, <2>4 DEF Next
<1> HIDE DEF Inv
<1>4. QED BY <1>1, <1>2, <1>3, PTL DEF Spec
=============================================================================
