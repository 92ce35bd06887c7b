----------------------------- MODULE MCDDSCache -----------------------------
(* The instances of DDSCache that TLC checks.                              *)
EXTENDS DDSCache

North == 0
South == 2
Clubs == 0
NT    == 4

MCHands   == {North, South}
MCStrains == {Clubs, NT}
MCFirst   == <<North, Clubs>>
MCLast    == <<South, NT>>
MCMasks   == {{South}, {North, South}}
=============================================================================
