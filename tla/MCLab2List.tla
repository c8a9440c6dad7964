----------------------------- MODULE MCLab2List -----------------------------
(***************************************************************************)
(* Lab2List for TLC: <<threads, iterations, lists>>.                       *)
(***************************************************************************)
EXTENDS Lab2List

MCSyncSizes == {<<2, 2, 1>>, <<2, 1, 2>>, <<0, 1, 1>>, <<1, 0, 1>>}
MCRaceSizes == {<<2, 1, 1>>, <<2, 1, 2>>, <<1, 3, 1>>}
MCWaitSizes == {<<2, 1, 1>>}

=============================================================================
