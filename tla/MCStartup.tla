----------------------------- MODULE MCStartup -----------------------------
(* The instances of Startup that TLC checks: a library of five records     *)
(* whose last block is 2, seeds below, before and past it, limits above and below *)
(* the library's size.                                                     *)
EXTENDS Startup

MCSwitches ==
  {<<"g", 0>>, <<"g", 9>>, <<"p", 7>>, <<"s", 0>>, <<"s", 4>>, <<"s", -3>>, <<"T", "t1">>,
   <<"T", "">>,
   <<"O", "E">>, <<"x", 2>>, <<"P", 0>>, <<"M", 2>>, <<"M", 3>>, <<"R", 4>>,
   <<"R", 11>>, <<"L", "=">>, <<"?", 0>>}

MCStatements ==
  {<<"generate", 0>>, <<"generate", 3>>, <<"produce", 2>>, <<"seed", 1>>,
   <<"title", "t2">>, <<"opener", "S">>, <<"average", 0>>}
=============================================================================
