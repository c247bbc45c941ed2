---------------------------- MODULE MCFuzzyFarm ----------------------------
(***************************************************************************)
(* Values of the constants of FuzzyFarm for model checking.                *)
(***************************************************************************)
EXTENDS FuzzyFarm, TLC

CONSTANTS p, q

\* Two processes with the same id, or with one each.
MCStarted == {p :> 0 @@ q :> 0, p :> 0 @@ q :> 1}
=============================================================================
