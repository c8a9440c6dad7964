------------------------------ MODULE MCTelnet ------------------------------
(***************************************************************************)
(* Telnet for TLC: what may be typed and what the shell may answer.  With  *)
(* --compress each read of the keyboard is one packet.                     *)
(***************************************************************************)
EXTENDS Telnet

MCScripts ==
    [c \in BOOLEAN |-> IF c THEN {<<"cr">>} ELSE {<<"x", "cr", "eot", "x">>, <<"etx">>}]

MCOutputs ==
    [c \in BOOLEAN |-> IF c THEN {<<"x", "x", "x">>}
                       ELSE {<<"x", "x", "x">>, <<"cr", "eot", "x">>}]

=============================================================================
