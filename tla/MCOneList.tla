----------------------------- MODULE MCOneList -----------------------------
(***************************************************************************)
(* OneList for TLC: <<threads, iterations, lists>>.                        *)
(***************************************************************************)
EXTENDS OneList

MCSizes == {<<2, 1, 1>>, <<1, 2, 1>>, <<1, 0, 1>>, <<0, 1, 1>>}

=============================================================================
