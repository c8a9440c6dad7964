----------------------------- MODULE Thermostat -----------------------------
(***************************************************************************)
(* project4b/lab4b.c, project4c/lab4c_tcp.c and lab4c_tls.c: a thread that *)
(* reads commands, one that reports the temperature, and the button, whose *)
(* callback turns the program off from a thread of the mraa library.  The  *)
(* last two talk to a server where lab4b uses standard input and output,   *)
(* lab4c_tls through an SSL session that all its threads use unprotected.  *)
(*                                                                         *)
(* Text is a sequence of pieces that are never cut; a read returns any     *)
(* number of them.  The time and the temperature are left out.             *)
(***************************************************************************)
EXTENDS Integers, Sequences, FiniteSets, SequencesExt, Texts

CONSTANTS
    Programs,    \* "lab4b", "lab4c_tcp", "lab4c_tls"
    Scripts,     \* all that may arrive in a run, as sequences of pieces
    BufferSize   \* 2048 in the program: how much one read returns at most

Pieces == {"OFF", "STOP", "START", "SCALE=", "F", "C", "PERIOD=", "1", "0", "LOG", "eot", "newline"}

ASSUME ArgumentsAssumption ==
    /\ Programs \subseteq {"lab4b", "lab4c_tcp", "lab4c_tls"}
    /\ Scripts \subseteq Seq(Pieces)
    /\ BufferSize \in Nat \ {0}

VARIABLES
    program, script, my_log,      \* chosen once: my_log is whether --log is given
    channel,                      \* standard input or the connection: "open", "closed"
    session,                      \* lab4c_tls: "good", or "damaged" by threads that used
                                  \* it at the same time
    consumed,                     \* how much of the script has been read
    running, on, scale, period,   \* the shared variables
    buffer, full,                 \* the reader: what is left to scan, and whether
                                  \* the read filled the buffer to the last byte
    text,                         \* the reader's temp_string
    at,                           \* the place of each actor
    log,                          \* the lines of the log but for the temperatures
    late,                         \* reports written since running became 0
    cut, obeyed,                  \* history: a read ended within a line or filled the
                                  \* buffer; the lines acted on
    status                        \* how the process ended, or "running"

chosen == <<program, script, my_log>>
connection == <<channel, session>>
shared == <<running, on, scale, period>>
reading == <<consumed, buffer, full, text, cut, obeyed>>
vars == <<chosen, connection, shared, reading, at, log, late, status>>

Actors == {"main", "reader", "sensor", "button"}

At(a, place) == status = "running" /\ at[a] = place
GoTo(a, place) == at' = [at EXCEPT ![a] = place]
\* Only an actor's place changes.
Move(a, from, to) ==
    /\ At(a, from)
    /\ GoTo(a, to)
    /\ UNCHANGED <<chosen, connection, shared, reading, log, late, status>>
End(code) ==
    /\ status' = code
    /\ UNCHANGED <<chosen, connection, shared, reading, at, log, late>>

Networked == program # "lab4b"
Secure == program = "lab4c_tls"

Write(line) == log' = IF my_log THEN Append(log, line) ELSE log

-----------------------------------------------------------------------------
Init ==
    /\ program \in Programs
    /\ script \in Scripts
    /\ my_log \in BOOLEAN
    /\ channel = "open"
    /\ session = "good"
    /\ consumed = 0
    /\ running = 1
    /\ on = 1
    /\ scale \in {"F", "C"}
    /\ period = <<"1">>
    /\ buffer = <<>>
    /\ full = FALSE
    /\ text = <<>>
    /\ at = [a \in Actors |-> IF a # "main" THEN "unborn"
                              ELSE IF Networked THEN "connect" ELSE "create0"]
    /\ log = <<>>
    /\ late = 0
    /\ cut = FALSE
    /\ obeyed = <<>>
    /\ status = "running"

\* A write to the server when it has closed the connection may raise SIGPIPE.
OutputDies == Networked /\ channel = "closed" /\ End("SIGPIPE")

-----------------------------------------------------------------------------
(* turn_off, called by the reader and by the button's callback.            *)

\* Mutant: turn_off leaves it to the loops to end.
StopRunning_Only(a) ==
    /\ At(a, "off_running")
    /\ running' = 0
    /\ GoTo(a, IF a = "reader" THEN "test_on" ELSE "up")
    /\ UNCHANGED <<chosen, connection, on, scale, period, reading, log, late, status>>

StopRunning(a) ==
    /\ At(a, "off_running")
    /\ running' = 0
    /\ GoTo(a, "off_on")
    /\ UNCHANGED <<chosen, connection, on, scale, period, reading, log, late, status>>

ClearOn(a) ==
    /\ At(a, "off_on")
    /\ on' = 0
    /\ GoTo(a, "off_log")
    /\ UNCHANGED <<chosen, connection, running, scale, period, reading, log, late, status>>

LogOff(a) ==
    /\ At(a, "off_log")
    /\ Write(<<"OFF">>)
    /\ GoTo(a, "off_shutdown")
    /\ UNCHANGED <<chosen, connection, shared, reading, late, status>>

\* Mutant: the line always goes to the output.
LogShutdown_Output(a) ==
    /\ At(a, "off_shutdown")
    /\ \/ /\ GoTo(a, "off_exit")
          /\ UNCHANGED <<chosen, connection, shared, reading, log, late, status>>
       \/ OutputDies

\* The line goes to the log if there is one, else to the output.
LogShutdown(a) ==
    /\ At(a, "off_shutdown")
    /\ \/ /\ Write(<<"SHUTDOWN">>)
          /\ GoTo(a, "off_exit")
          /\ UNCHANGED <<chosen, connection, shared, reading, late, status>>
       \/ ~my_log /\ OutputDies

ExitZero(a) == At(a, "off_exit") /\ End("exit0")

TurnOff(a) == StopRunning(a) \/ ClearOn(a) \/ LogOff(a) \/ LogShutdown(a) \/ ExitZero(a)

-----------------------------------------------------------------------------
(* runner with my_id 0: the reader.                                        *)

TestOn == Move("reader", "test_on", IF on = 1 THEN "read" ELSE "done")

Read ==
    /\ At("reader", "read")
    /\ \E n \in 1 .. BufferSize :
          /\ consumed + n <= Len(script)
          /\ consumed' = consumed + n
          /\ buffer' = SubSeq(script, consumed + 1, consumed + n)
          /\ full' = (n = BufferSize)
          /\ cut' = (cut \/ n = BufferSize \/ script[consumed + n] # "newline")
    /\ GoTo("reader", "scan")
    /\ UNCHANGED <<chosen, connection, shared, text, obeyed, log, late, status>>

\* End of file: nothing is scanned, and the loop starts over.
ReadNothing ==
    /\ channel = "closed"
    /\ consumed = Len(script)
    /\ Move("reader", "read", "test_on")

ReadFails ==
    /\ channel = "closed" \/ session = "damaged"
    /\ At("reader", "read")
    /\ End("exit1")

\* Neither a zero byte nor ^D comes next.
InText == buffer # <<>> /\ Head(buffer) # "eot"

\* Mutant: the buffer is scanned for one line only.
ScanEnds_OneLine ==
    /\ At("reader", "scan")
    /\ ~InText \/ obeyed # <<>>
    /\ buffer' = <<>>
    /\ GoTo("reader", "test_on")
    /\ UNCHANGED <<chosen, connection, shared, consumed, full, text, cut, obeyed, log, late, status>>

\* A zero byte or ^D ends the scan, and the buffer is cleared.  Behind a full
\* buffer there may be a zero byte or not.
ScanEnds ==
    /\ At("reader", "scan")
    /\ ~InText
    /\ buffer' = <<>>
    /\ GoTo("reader", "test_on")
    /\ UNCHANGED <<chosen, connection, shared, consumed, full, text, cut, obeyed, log, late, status>>

LineEnds == {k \in 1 .. Len(buffer) : buffer[k] = "newline"}

ScanLine ==
    /\ At("reader", "scan")
    /\ InText
    /\ \E k \in LineEnds :
          /\ \A j \in LineEnds : k <= j
          /\ text' = SubSeq(buffer, 1, k - 1)
          /\ buffer' = SubSeq(buffer, k + 1, Len(buffer))
    /\ GoTo("reader", "obey")
    /\ UNCHANGED <<chosen, connection, shared, consumed, full, cut, obeyed, log, late, status>>

\* There is no newline in what is left: whether one is found behind the buffer
\* is undefined.  What has been read of the line is then taken for the line.
RunsOff == IF InText THEN LineEnds = {} ELSE buffer = <<>> /\ full

ScanFinds ==
    /\ At("reader", "scan")
    /\ RunsOff
    /\ text' = buffer
    /\ buffer' = <<>>
    /\ full' = FALSE
    /\ GoTo("reader", "obey")
    /\ UNCHANGED <<chosen, connection, shared, consumed, cut, obeyed, log, late, status>>

ScanCrashes == At("reader", "scan") /\ RunsOff /\ End("SIGSEGV")

NewRunning == IF text = <<"STOP">> THEN 0 ELSE IF text = <<"START">> THEN 1 ELSE running

StartsWith(piece) == text # <<>> /\ Head(text) = piece

\* A number is the text atoi makes it of.
NewPeriod == IF StartsWith("PERIOD=") THEN Tail(text) ELSE period
\* Mutant: what follows SCALE= is not checked.
NewScale_Unchecked == IF StartsWith("SCALE=") THEN Last(text) ELSE scale

NewScale ==
    IF text \in {<<"SCALE=", "F">>, <<"SCALE=", "C">>} THEN text[2] ELSE scale

Obey ==
    /\ At("reader", "obey")
    /\ IF text = <<"OFF">> THEN GoTo("reader", "off_running") ELSE GoTo("reader", "log")
    /\ running' = NewRunning
    /\ period' = NewPeriod
    /\ scale' = NewScale
    /\ late' = IF text = <<"START">> THEN 0 ELSE late
    /\ obeyed' = Append(obeyed, text)
    /\ UNCHANGED <<chosen, connection, on, consumed, buffer, full, text, cut, log, status>>

\* Mutant: a line is logged only when it starts with LOG.
LogLine_OnlyLog ==
    /\ At("reader", "log")
    /\ my_log \/ ~StartsWith("LOG")
    /\ IF StartsWith("LOG") THEN Write(text) ELSE UNCHANGED log
    /\ GoTo("reader", "scan")
    /\ UNCHANGED <<chosen, connection, shared, reading, late, status>>

LogLine ==
    /\ At("reader", "log")
    /\ my_log \/ ~StartsWith("LOG")
    /\ Write(text)
    /\ GoTo("reader", "scan")
    /\ UNCHANGED <<chosen, connection, shared, reading, late, status>>

\* Mutant: every line is logged, log or no log.
LogToNull_Always == At("reader", "log") /\ ~my_log /\ End("SIGSEGV")

\* LOG without a log: fprintf to a NULL stream.
LogToNull ==
    /\ At("reader", "log")
    /\ ~my_log /\ StartsWith("LOG")
    /\ End("SIGSEGV")

Reader ==
    \/ TestOn \/ Read \/ ReadNothing \/ ReadFails
    \/ ScanEnds \/ ScanLine \/ ScanFinds \/ ScanCrashes
    \/ Obey \/ LogLine \/ LogToNull
    \/ TurnOff("reader")
-----------------------------------------------------------------------------
(* runner with my_id 1: the sensor.                                        *)

\* The callback is registered last; from then on the button works.
Register ==
    /\ At("sensor", "start")
    /\ at' = [at EXCEPT !["sensor"] = "test", !["button"] = "up"]
    /\ UNCHANGED <<chosen, connection, shared, reading, log, late, status>>

\* A report is made twice when there is a log: lab4c_tls makes the one for the
\* server first, the others the one for the log.
FirstReport == IF my_log /\ ~Secure THEN "log_F" ELSE "out_F"

\* Mutant: running is not tested.
TestRunning_Not == Move("sensor", "test", FirstReport)

\* While running is 0 the thread spins: a stutter.
TestRunning ==
    /\ running = 1
    /\ Move("sensor", "test", FirstReport)

\* change_temperature, for the log and for the output: scale is compared with
\* F and then read again to compare it with C.
Convert(at_F, at_C, next) ==
    \/ scale = "F" /\ Move("sensor", at_F, next)
    \/ scale # "F" /\ Move("sensor", at_F, at_C)
    \/ scale = "C" /\ Move("sensor", at_C, next)
    \/ scale # "C" /\ Move("sensor", at_C, "no_scale")

ConvertForLog == ~Secure /\ Convert("log_F", "log_C", "out_F")
ConvertForOutput == ~Secure /\ Convert("out_F", "out_C", "out")

ConvertForServer == Secure /\ Convert("out_F", "out_C", IF my_log THEN "log_F" ELSE "out")
ConvertForLogToo == Secure /\ Convert("log_F", "log_C", "out")

CannotConvert == At("sensor", "no_scale") /\ End("exit1")

Report ==
    /\ At("sensor", "out")
    /\ \/ /\ late' = IF running = 0 THEN late + 1 ELSE late
          /\ GoTo("sensor", "test")
          /\ UNCHANGED <<chosen, connection, shared, reading, log, status>>
       \/ OutputDies

Sensor ==
    \/ Register \/ TestRunning \/ ConvertForLog \/ ConvertForOutput
    \/ ConvertForServer \/ ConvertForLogToo
    \/ CannotConvert \/ Report

Press == Move("button", "up", "off_running")
Button == TurnOff("button")

-----------------------------------------------------------------------------
(* main.                                                                   *)

Connect == Move("main", "connect", IF Secure THEN "secure" ELSE "identify")
ConnectFails == At("main", "connect") /\ End("exit2")

OpenSession == Move("main", "secure", "identify")
OpenSessionFails == At("main", "secure") /\ End("exit2")

\* The ID is sent, and logged without asking whether there is a log.
Identify ==
    /\ At("main", "identify")
    /\ my_log
    /\ Write(<<"ID">>)
    /\ GoTo("main", "create0")
    /\ UNCHANGED <<chosen, connection, shared, reading, late, status>>

IdentifyCrashes == At("main", "identify") /\ ~my_log /\ End("SIGSEGV")
IdentifyDies == At("main", "identify") /\ OutputDies
IdentifyFails == Secure /\ channel = "closed" /\ At("main", "identify") /\ End("exit2")

\* The reader is created first, then the sensor.
Create(from, a, to) ==
    /\ At("main", from)
    /\ at' = [at EXCEPT !["main"] = to, ![a] = IF a = "reader" THEN "test_on" ELSE "start"]
    /\ UNCHANGED <<chosen, connection, shared, reading, log, late, status>>
CreateThreads == Create("create0", "reader", "create1") \/ Create("create1", "sensor", "join0")
CreateFails == (At("main", "create0") \/ At("main", "create1")) /\ End("exit1")

\* The sensor thread never ends: main waits for it for ever.
JoinReader == at["reader"] = "done" /\ Move("main", "join0", "join1")

Main ==
    \/ Connect \/ ConnectFails \/ OpenSession \/ OpenSessionFails
    \/ Identify \/ IdentifyCrashes \/ IdentifyDies \/ IdentifyFails
    \/ CreateThreads \/ CreateFails \/ JoinReader

-----------------------------------------------------------------------------
(* SSL_read and SSL_write by two threads at once.                          *)

InCall(a) == at[a] \in {"read", "out"} \/ (at[a] = "off_shutdown" /\ ~my_log)
CallsMeet ==
    /\ Secure
    /\ status = "running"
    /\ \E a, b \in Actors : a # b /\ InCall(a) /\ InCall(b)

\* What comes of it is undefined: nothing, a session with which nothing more can
\* be read, or a crash.
DamageSession ==
    /\ CallsMeet
    /\ session' = "damaged"
    /\ UNCHANGED <<chosen, channel, shared, reading, at, log, late, status>>
CrashInSession == CallsMeet /\ End("SIGSEGV")

-----------------------------------------------------------------------------
(* The other end closes when it likes.                                     *)
Close ==
    /\ status = "running"
    /\ channel = "open"
    /\ channel' = "closed"
    /\ UNCHANGED <<chosen, session, shared, reading, at, log, late, status>>

Ended == status # "running" /\ UNCHANGED vars

Next ==
    \/ Main \/ Reader \/ Sensor \/ Press \/ Button
    \/ DamageSession \/ CrashInSession
    \/ Close \/ Ended

\* Every thread runs now and then; nobody has to press, type or close.
Fairness ==
    /\ WF_vars(Main)
    /\ WF_vars(Reader)
    /\ WF_vars(Sensor)
    /\ WF_vars(Button)

Spec == Init /\ [][Next]_vars
FairSpec == Spec /\ Fairness

-----------------------------------------------------------------------------
(* Properties.                                                             *)

TurnOffPlaces == {"off_running", "off_on", "off_log", "off_shutdown", "off_exit"}

\* Every variable has its type.
TypeOK ==
    /\ program \in Programs /\ script \in Scripts /\ my_log \in BOOLEAN
    /\ channel \in {"open", "closed"} /\ session \in {"good", "damaged"}
    /\ consumed \in 0 .. Len(script)
    /\ running \in {0, 1} /\ on \in {0, 1} /\ scale \in {"F", "C"}
    /\ \A s \in {period, buffer, text} : s \in Seq(Pieces)
    /\ full \in BOOLEAN /\ cut \in BOOLEAN
    /\ obeyed \in Seq(Seq(Pieces))
    /\ at["main"] \in {"connect", "secure", "identify", "create0", "create1", "join0", "join1"}
    /\ at["reader"] \in {"unborn", "test_on", "read", "scan", "obey", "log", "done"} \cup TurnOffPlaces
    /\ at["sensor"] \in {"unborn", "start", "test", "log_F", "log_C", "out_F", "out_C", "out", "no_scale"}
    /\ at["button"] \in {"unborn", "up"} \cup TurnOffPlaces
    /\ log \in Seq(Seq(Pieces \cup {"ID", "SHUTDOWN"}))
    /\ late \in Nat
    /\ status \in {"running", "exit0", "exit1", "exit2", "SIGSEGV", "SIGPIPE"}

\* After a STOP, or the button, at most the report that was under way still
\* comes out, until a START: the sensor does not see a stale running twice.
OneLateReport == late <= 1

\* The lines that turn_off and main write in the log.
OwnLines == {<<"ID">>, <<"OFF">>, <<"SHUTDOWN">>}

\* The lines taken out of the buffer.
Scanned == obeyed \o (IF at["reader"] = "obey" THEN <<text>> ELSE <<>>)

\* As long as every read ended with a line's end, and none was as large as the
\* buffer, every line received is obeyed once and in order, or still to come:
\* the lines scanned, each with its end, and the buffer are what was read.
LinesObeyed ==
    LET taken == SubSeq(script, 1, consumed)
    IN  (~cut /\ ~Contains(taken, "eot")) =>
            /\ Joined(Scanned, "newline") \o buffer = taken
            /\ \A k \in DOMAIN Scanned : ~Contains(Scanned[k], "newline")

\* The log has the lines that were obeyed, in that order, with what turn_off and
\* main write among them.  At most the last line obeyed is not there as the
\* reader's: an OFF, which turn_off logs itself, or one that is obeyed and about to
\* be logged.  When the program ends with 0 such a line is missing for good, and
\* then it was the button's thread that ended it in between.
LogFollows ==
    my_log =>
        LET pending == at["reader"] \in {"log"} \cup TurnOffPlaces
        IN  /\ obeyed = Without(log, OwnLines) \o (IF pending THEN <<text>> ELSE <<>>)
            /\ status = "exit0" /\ pending /\ text # <<"OFF">> => at["button"] = "off_exit"

\* A normal end is announced: once, or twice when the button was pressed while
\* the reader was turning the program off.
ShutdownLogged ==
    (status = "exit0" /\ my_log) =>
        /\ Times(log, <<"SHUTDOWN">>) \in 1 .. Times(log, <<"OFF">>)
        /\ Times(log, <<"OFF">>) <= Cardinality({a \in {"reader", "button"} : at[a] \in TurnOffPlaces})

\* The program crashes only on a line cut by a read or longer than its buffer,
\* on a LOG without a log, in both lab4c without a log, and in lab4c_tls when two
\* threads use the session at once.  It ends with 1 only when its input fails,
\* when a thread is not created, or when the scale was set to F while the sensor
\* was converting; with 2 only before there are threads.
CrashCauses ==
    /\ status = "SIGSEGV" =>
          \/ cut
          \/ ~my_log /\ (at["main"] = "identify" \/ StartsWith("LOG"))
          \/ Secure /\ \E a, b \in Actors : a # b /\ InCall(a) /\ InCall(b)
    /\ status = "exit1" =>
          \/ channel = "closed" \/ session = "damaged"
          \/ at["main"] \in {"create0", "create1"}
          \/ at["sensor"] = "no_scale" /\ Contains(obeyed, <<"SCALE=", "F">>)
    /\ status = "exit2" => Networked /\ \A a \in {"reader", "sensor"} : at[a] = "unborn"

\* Once an OFF line has come in one piece, or the button was pressed, the
\* program ends.
OffRead ==
    /\ ~cut
    /\ ~Contains(buffer, "eot")
    /\ \E k \in LineEnds : /\ k > 1 /\ buffer[k - 1] = "OFF"
                           /\ k = 2 \/ buffer[k - 2] = "newline"
OffEnds == (OffRead \/ at["button"] \in TurnOffPlaces) ~> status # "running"

\* change_temperature fails only when scale is neither F nor C.
ScaleIsKnown == at["sensor"] = "no_scale" => scale \notin {"F", "C"}

=============================================================================
