----------------------------- MODULE Floatings -----------------------------
(***************************************************************************)
(* floatings_are_equal (include/fuzzyjson.h): two doubles are the same     *)
(* when their distance is at most a fraction of the larger magnitude.      *)
(*                                                                         *)
(* A double is a finite multiple n of some small unit, an infinity (n is   *)
(* its sign) or NaN. Rounding of the three arithmetic operations is        *)
(* abstracted away; what IEEE 754 does with infinities and NaN is not.     *)
(* The precision is the fraction num/den.                                  *)
(***************************************************************************)
EXTENDS Integers

Finite(n) == [kind |-> "finite", n |-> n]
Infinity(sign) == [kind |-> "inf", n |-> sign]
NaN == [kind |-> "nan", n |-> 0]

Double == [kind : {"finite"}, n : Int] \cup {Infinity(1), Infinity(-1), NaN}
Fraction == [num : Int, den : Nat \ {0}]

Abs(n) == IF n < 0 THEN -n ELSE n

\* std::fabs
Fabs(x) == [x EXCEPT !.n = Abs(@)]

\* std::fmax of two magnitudes; a NaN loses to the other argument.
Fmax(x, y) ==
  CASE x.kind = "nan" -> y
    [] x.kind = "inf" \/ (x.kind = "finite" /\ y.kind = "nan") -> x
    [] x.kind = "finite" /\ y.kind = "inf" -> y
    [] x.kind = "finite" /\ y.kind = "finite" -> IF x.n < y.n THEN y ELSE x

\* x - y: infinities of one sign cancel into NaN, any other one absorbs.
Minus(x, y) ==
  CASE "nan" \in {x.kind, y.kind} \/ (x.kind = "inf" /\ y = x) -> NaN
    [] x.kind = "inf" /\ y.kind # "nan" /\ y # x -> x
    [] x.kind = "finite" /\ y.kind = "inf" -> Infinity(-y.n)
    [] x.kind = "finite" /\ y.kind = "finite" -> Finite(x.n - y.n)

\* diff <= precision*biggest, for magnitudes diff and biggest. A comparison
\* with NaN is false, and a fraction of infinity is infinity if positive.
Within(diff, precision, biggest) ==
  /\ diff.kind # "nan"
  /\ biggest.kind # "nan"
  /\ IF biggest.kind = "inf"
       THEN precision.num > 0
       ELSE /\ diff.kind = "finite"
            /\ diff.n * precision.den <= precision.num * biggest.n

\* Four plausible bugs (mutants): a fraction of the leader, a distance that
\* may be negative, the distance of the magnitudes, a shortcut.
FractionOfFirst(x, y, precision) ==
  Within(Fabs(Minus(x, y)), precision, Fabs(x))
SignedDistance(x, y, precision) ==
  Within(Minus(x, y), precision, Fmax(Fabs(x), Fabs(y)))
DistanceOfMagnitudes(x, y, precision) ==
  Within(Fabs(Minus(Fabs(x), Fabs(y))), precision, Fmax(Fabs(x), Fabs(y)))
SameOrWithin(x, y, precision) ==
  x = y \/ Within(Fabs(Minus(x, y)), precision, Fmax(Fabs(x), Fabs(y)))

FloatingsAreEqual(x, y, precision) ==
  Within(Fabs(Minus(x, y)), precision, Fmax(Fabs(x), Fabs(y)))
=============================================================================
