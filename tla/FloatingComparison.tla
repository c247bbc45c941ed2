------------------------- MODULE FloatingComparison -------------------------
(***************************************************************************)
(* What floatings_are_equal means for compare_parsing, which compares the  *)
(* double the leader shows with that of each other parser, but never those *)
(* of two others. A state is one choice of three doubles and a precision.  *)
(***************************************************************************)
EXTENDS Floatings

CONSTANTS
  Shown,      \* the doubles parsers show
  Precisions  \* settings.floating_precision

ASSUME ShownAssumption == Shown \subseteq Double
ASSUME PrecisionAssumption == Precisions \subseteq Fraction

VARIABLES leader, other, third, precision

compared == <<leader, other, third, precision>>

Choose ==
  /\ leader \in Shown /\ other \in Shown /\ third \in Shown
  /\ precision \in Precisions

Stay == UNCHANGED compared

ComparisonSpec == Choose /\ [][Stay]_compared

\* A sensible precision is a fraction below 1; the code takes any.
Proper == 0 <= precision.num /\ precision.num < precision.den

AllFinite == \A x \in {leader, other, third} : x.kind = "finite"

-----------------------------------------------------------------------------
(***************************************************************************)
(* Properties.                                                             *)
(***************************************************************************)

\* Which of two parsers was added first does not matter: the leader differs
\* from the other one exactly if the other one differs from it.
Symmetric ==
  FloatingsAreEqual(leader, other, precision) <=>
    FloatingsAreEqual(other, leader, precision)

\* Two parsers that both agree with the leader, and are never compared with
\* each other, differ by at most twice the precision.
SlackOfStar ==
  /\ AllFinite
  /\ Proper
  /\ FloatingsAreEqual(leader, other, precision)
  /\ FloatingsAreEqual(leader, third, precision)
  => FloatingsAreEqual(other, third, [precision EXCEPT !.num = 2 * @])

\* A wrong sign is never tolerated, nor anything but zero for zero.
SignsAgree ==
  /\ AllFinite
  /\ Proper
  /\ FloatingsAreEqual(leader, other, precision)
  => \/ leader.n < 0 /\ other.n < 0
     \/ leader.n > 0 /\ other.n > 0
     \/ leader.n = 0 /\ other.n = 0

\* An infinity is taken for every double but itself and NaN: their distance
\* is infinite and so is the fraction of the larger one, while the distance
\* of an infinity from itself is NaN.
InfinityInverted ==
  leader.kind = "inf" /\ precision.num > 0 =>
    (FloatingsAreEqual(leader, other, precision) <=>
       other # leader /\ other # NaN)
=============================================================================
