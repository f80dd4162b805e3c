------------------------------- MODULE Shares ------------------------------
(***************************************************************************)
(* How a sender divides its packets among its subflows: the shares that    *)
(* recalc_subflow_percentage computes from their bitrates, and the subflow *)
(* that select_subflow draws by them.                                      *)
(*                                                                         *)
(* A share is a double in the code and a fraction <<n, d>> here, d >= 0.   *)
(* As in the code one may divide by zero: <<n, 0>> is infinite and <<0, 0>>*)
(* is NaN, which is less than nothing and which nothing is less than.      *)
(***************************************************************************)
EXTENDS Subflow, Sequences

CONSTANT Grain   \* steps in which a draw goes from zero to one: 100 in the code

ASSUME GrainAssumption == Grain \in Nat \ {0}

(* n / d in lowest terms. *)
Ratio(n, d) ==
  IF d = 0 THEN <<IF n = 0 THEN 0 ELSE 1, 0>>
  ELSE LET k == CHOOSE k \in 1..d : /\ (n * k) % d = 0
                                    /\ \A j \in 1..(k - 1) : (n * j) % d # 0
       IN  <<(n * k) \div d, k>>

NaN == <<0, 0>>
Zero == <<0, 1>>
One == <<1, 1>>
Half == <<1, 2>>          \* beta, and the share a subflow starts with
ThreeQuarters == <<3, 4>> \* gamma

Plus(x, y) == Ratio(x[1] * y[2] + y[1] * x[2], x[2] * y[2])
Times(x, y) == Ratio(x[1] * y[1], x[2] * y[2])
Complement(x) == Ratio(x[2] - x[1], x[2])
Less(x, y) == x[1] * y[2] < y[1] * x[2]
Min2(x, y) == IF Less(y, x) THEN y ELSE x         \* std::min

(* The sums of the first 0, 1, 2, ... of numbers and of shares.            *)
RunningSum(f) ==
  LET sum[i \in {0} \cup DOMAIN f] == IF i = 0 THEN 0 ELSE sum[i - 1] + f[i]
  IN  sum
RunningShare(shares) ==
  LET sum[i \in {0} \cup DOMAIN shares] ==
        IF i = 0 THEN Zero ELSE Plus(sum[i - 1], shares[i])
  IN  sum

SumOf(f) == RunningSum(f)[Len(f)]
TotalOf(shares) == RunningShare(shares)[Len(shares)]

-----------------------------------------------------------------------------
(* recalc_subflow_percentage for the subflows sfs[1], sfs[2], ..., the     *)
(* shares they had, and the stream's bitrate SB.                           *)

CongestedOnes(sfs) == {i \in DOMAIN sfs : IsCongested(sfs[i])}
LossyOnes(sfs) == {i \in DOMAIN sfs : IsLossy(sfs[i])}
CleanOnes(sfs) == DOMAIN sfs \ (CongestedOnes(sfs) \cup LossyOnes(sfs))
AllReady(sfs) == \A i \in DOMAIN sfs : sfs[i].ready

TBSum(sfs, S) == SumOf([i \in DOMAIN sfs |-> IF i \in S THEN sfs[i].TB ELSE 0])
CBSum(sfs, S) == SumOf([i \in DOMAIN sfs |-> IF i \in S THEN sfs[i].CB ELSE 0])

ByTestedRate(sfs) ==
  [i \in DOMAIN sfs |-> Ratio(sfs[i].TB, TBSum(sfs, DOMAIN sfs))]
ByCongestedRate(sfs) ==
  [i \in DOMAIN sfs |-> Ratio(sfs[i].CB, CBSum(sfs, DOMAIN sfs))]

(* A faulty variant: a limited path gets the fraction of its congested     *)
(* rate even when that is more than its tested rate is worth.              *)
LimitedUncapped(sfs, i, factor, SB) ==
  Times(factor, Ratio(sfs[i].CB, SB))

(* Another: a congested path is left out altogether.                       *)
LimitedToNothing(sfs, i, factor, SB) ==
  IF IsCongested(sfs[i]) THEN Zero
  ELSE Min2(Ratio(sfs[i].TB, TBSum(sfs, DOMAIN sfs)),
            Times(factor, Ratio(sfs[i].CB, SB)))

(* The share of a path that lost packets: what its tested rate is worth,   *)
(* but not more than a fraction of its congested rate.                     *)
Limited(sfs, i, factor, SB) ==
  Min2(Ratio(sfs[i].TB, TBSum(sfs, DOMAIN sfs)),
       Times(factor, Ratio(sfs[i].CB, SB)))

(* A faulty variant: the clean paths divide the whole among themselves.    *)
StepwiseWhole(sfs, shares, SB) ==
  [i \in DOMAIN sfs |->
     IF IsCongested(sfs[i]) THEN Limited(sfs, i, Half, SB)
     ELSE IF IsLossy(sfs[i]) THEN Limited(sfs, i, ThreeQuarters, SB)
     ELSE IF TBSum(sfs, CleanOnes(sfs)) # 0
          THEN Ratio(sfs[i].TB, TBSum(sfs, CleanOnes(sfs)))
          ELSE shares[i]]

(* Paths that lost packets are limited; the others divide the rest by      *)
(* their tested rates, or keep their shares when those are all zero.       *)
Stepwise(sfs, shares, SB) ==
  LET clean == CleanOnes(sfs)
      limit == [i \in DOMAIN sfs |->
                  IF i \in clean THEN Zero
                  ELSE Limited(sfs, i, IF IsCongested(sfs[i]) THEN Half
                                                             ELSE ThreeQuarters, SB)]
      AP == TotalOf(limit)
  IN  [i \in DOMAIN sfs |->
         IF i \notin clean THEN limit[i]
         ELSE IF TBSum(sfs, clean) = 0 THEN shares[i]
         ELSE Times(Ratio(sfs[i].TB, TBSum(sfs, clean)), Complement(AP))]

(* A faulty variant: one ready path is enough to start. *)
RecalculatedEarly(sfs, shares, SB) ==
  IF \A i \in DOMAIN sfs : ~sfs[i].ready THEN shares
  ELSE IF CongestedOnes(sfs) = DOMAIN sfs THEN ByCongestedRate(sfs)
  ELSE Stepwise(sfs, IF CongestedOnes(sfs) = {} THEN ByTestedRate(sfs) ELSE shares, SB)

(* Another: while no path is congested the shares are left as they are. *)
RecalculatedIfCongested(sfs, shares, SB) ==
  IF ~AllReady(sfs) \/ CongestedOnes(sfs) = {} THEN shares
  ELSE IF CongestedOnes(sfs) = DOMAIN sfs THEN ByCongestedRate(sfs)
  ELSE Stepwise(sfs, shares, SB)

(* Nothing happens until every path has been measured.  The division by    *)
(* tested rates when no path is congested is followed, for want of an      *)
(* else, by the stepwise one, which overwrites it.                         *)
Recalculated(sfs, shares, SB) ==
  IF ~AllReady(sfs) THEN shares
  ELSE IF CongestedOnes(sfs) = DOMAIN sfs THEN ByCongestedRate(sfs)
  ELSE Stepwise(sfs, IF CongestedOnes(sfs) = {} THEN ByTestedRate(sfs) ELSE shares, SB)

-----------------------------------------------------------------------------
(* select_subflow for the draw k = rand() % 101. *)

Draws == 0..Grain

(* A faulty variant: the draw is compared before the share is added.       *)
SelectSwapped(shares, k) ==
  LET hit == {i \in DOMAIN shares : Less(<<k, Grain>>, RunningShare(shares)[i - 1])}
  IN  IF hit = {} THEN 1 ELSE CHOOSE i \in hit : \A j \in hit : i <= j

(* The first subflow at which the shares so far exceed the draw, or else   *)
(* the front one.                                                          *)
Select(shares, k) ==
  LET hit == {i \in DOMAIN shares : Less(<<k, Grain>>, RunningShare(shares)[i])}
  IN  IF hit = {} THEN 1 ELSE CHOOSE i \in hit : \A j \in hit : i <= j

Selectable(shares) == {Select(shares, k) : k \in Draws}
=============================================================================
