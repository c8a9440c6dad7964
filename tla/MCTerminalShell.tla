-------------------------- MODULE MCTerminalShell ---------------------------
(***************************************************************************)
(* TerminalShell for TLC: what may be typed and what the shell may answer. *)
(***************************************************************************)
EXTENDS TerminalShell

MCScripts == {<<"x", "cr", "eot", "nl", "x">>, <<"etx", "nl", "x">>}
MCOutputs == {<<"x", "nl", "eot", "x">>}

=============================================================================
