----------------------------- MODULE MCLab2Add -----------------------------
(***************************************************************************)
(* Lab2Add for TLC: up to three threads with up to two iterations each,    *)
(* and ints of four bits, so that the largest my_ops overflow.             *)
(***************************************************************************)
EXTENDS Lab2Add

MCSyncSizes == (0 .. 2) \X (0 .. 2) \cup {<<3, 1>>}
MCRaceSizes == (0 .. 3) \X (0 .. 2)
MCModulus == 16

=============================================================================
