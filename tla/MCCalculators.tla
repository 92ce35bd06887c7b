---------------------------- MODULE MCCalculators ----------------------------
(* The instance of Calculators that TLC checks: the first of dop's values  *)
(* and one more, so that a run of dop can fail half-way.                   *)
EXTENDS Calculators
North == 0
East  == 1
NT    == 4
MCHands   == {North, East}
MCStrains == {NT}
=============================================================================
