---------------------------- MODULE MCThermostat ----------------------------
(***************************************************************************)
(* Thermostat for TLC: what may arrive, in pieces, read in at most         *)
(* BufferSize pieces at a time.                                            *)
(***************************************************************************)
EXTENDS Thermostat

MCScripts == {
    <<"STOP", "newline", "START", "newline">>,
    <<"SCALE=", "F", "newline", "OFF", "newline">>,
    <<"PERIOD=", "1", "0", "newline">>,
    <<"LOG", "OFF", "newline">>,
    <<"STOP", "newline", "eot", "OFF">>}

\* Lines that change the scale twice.
MCScaleScripts == {<<"SCALE=", "C", "newline", "SCALE=", "F", "newline">>}

=============================================================================
