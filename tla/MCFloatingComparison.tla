------------------------ MODULE MCFloatingComparison ------------------------
(***************************************************************************)
(* Values of the constants of FloatingComparison for model checking:       *)
(* doubles on both sides of zero and of every threshold.                   *)
(***************************************************************************)
EXTENDS FloatingComparison

MCShown ==
  {Finite(n) : n \in {-12, -10, -1, 0, 1, 7, 8, 9, 10, 11, 12}}
    \cup {Infinity(1), Infinity(-1), NaN}
MCPrecisions ==
  {[num |-> num, den |-> 10] : num \in {-1, 0, 1, 2, 9, 10}}
=============================================================================
