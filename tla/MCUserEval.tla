----------------------------- MODULE MCUserEval -----------------------------
(* The instances of UserEvalIPC that TLC checks.                           *)
EXTENDS UserEvalIPC

\* Tags: Bergen fills the first six entries only, KnR the detail as well,
\* and 81 is 'Q'.
Bergen == 0
KnR    == 7
QuitQ  == 81

Basic  == 0
Detail == 6

MCTags   == {Bergen, KnR, QuitQ}
MCSlots  == {Basic, Detail}
MCWrites == [t \in MCTags |-> IF t = KnR THEN MCSlots ELSE {Basic}]
=============================================================================
