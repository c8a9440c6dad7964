------------------------- MODULE Thermostat_proofs -------------------------
(***************************************************************************)
(* What Thermostat's properties rest on, proved for every program, script  *)
(* and size of the buffer.  Each part of the inductive invariant is about  *)
(* one relation: who exists when, the sensor and running, the log, the     *)
(* lines, the crashes.                                                     *)
(***************************************************************************)
EXTENDS Thermostat, Texts_proofs

-----------------------------------------------------------------------------
(* The inductive invariant.                                                *)

Places ==
    {"connect", "secure", "identify", "create0", "create1", "join0", "join1",
     "unborn", "test_on", "read", "scan", "obey", "log", "done",
     "start", "test", "log_F", "log_C", "out_F", "out_C", "out", "no_scale", "up"}
        \cup TurnOffPlaces

\* Every actor is at one of its places.
AtOK ==
    /\ at \in [Actors -> Places]
    /\ at["main"] \in {"connect", "secure", "identify", "create0", "create1", "join0", "join1"}
    /\ at["reader"] \in {"unborn", "test_on", "read", "scan", "obey", "log", "done"} \cup TurnOffPlaces
    /\ at["sensor"] \in {"unborn", "start", "test", "log_F", "log_C", "out_F", "out_C", "out", "no_scale"}
    /\ at["button"] \in {"unborn", "up"} \cup TurnOffPlaces

TypeInv == TypeOK /\ AtOK

\* The threads come into being one after the other, when main is set up.
BirthInv ==
    /\ at["main"] \in {"connect", "secure", "identify"} =>
          Networked
    /\ at["main"] = "secure" => Secure
    /\ at["main"] \in {"connect", "secure", "identify", "create0", "create1"} =>
          at["sensor"] = "unborn"
    /\ at["main"] \in {"connect", "secure", "identify", "create0"} => at["reader"] = "unborn"
    /\ at["sensor"] \in {"unborn", "start"} => at["button"] = "unborn"

\* A report that came out after running became 0 was under way then: none is
\* under way any more, and none begins before a START.
Reporting == {"log_F", "log_C", "out_F", "out_C", "out", "no_scale"}
LateInv ==
    /\ OneLateReport
    /\ running = 1 \/ at["sensor"] \in Reporting => late = 0

\* A line that is to be logged is the last one obeyed, and not an OFF, which
\* turn_off logs.
LogKept ==
    my_log =>
        LET pending == at["reader"] \in {"log"} \cup TurnOffPlaces
        IN  obeyed = Without(log, OwnLines) \o (IF pending THEN <<text>> ELSE <<>>)
LogInv ==
    /\ at["reader"] = "log" => text # <<"OFF">>
    /\ at["reader"] \in TurnOffPlaces => text = <<"OFF">>
    /\ LogKept

\* Whoever has logged OFF and SHUTDOWN is still in turn_off.
Has(places, a) == IF at[a] \in places THEN 1 ELSE 0
Have(places) == Has(places, "reader") + Has(places, "button")
TurnOffInv ==
    /\ my_log => /\ Times(log, <<"OFF">>) = Have({"off_shutdown", "off_exit"})
                 /\ Times(log, <<"SHUTDOWN">>) = Have({"off_exit"})
    /\ status = "exit0" => \E a \in {"reader", "button"} : at[a] = "off_exit"

\* Unless a read was cut, the buffer is empty or ends with a line's end.
CutInv ==
    /\ full => cut
    /\ ~cut => buffer = <<>> \/ buffer[Len(buffer)] = "newline"

\* The buffer is used up before the next read.
LineInv ==
    /\ at["reader"] \in {"unborn", "test_on", "read", "done"} => buffer = <<>>
    /\ LinesObeyed

\* Between its two comparisons of scale the sensor has seen another one, which a
\* line has changed to F since.
ToF == Contains(obeyed, <<"SCALE=", "F">>)
CrashInv ==
    /\ at["sensor"] \in {"log_C", "out_C"} /\ scale = "F" => ToF
    /\ at["sensor"] = "no_scale" => ToF
    /\ CrashCauses

IInv == TypeInv /\ BirthInv /\ LateInv /\ LogInv /\ TurnOffInv /\ CutInv /\ LineInv /\ CrashInv

-----------------------------------------------------------------------------
(* Types.                                                                  *)

Lines == Seq(Seq(Pieces \cup {"ID", "SHUTDOWN"}))

LEMMA TypeInit == Init => TypeInv
<1> SUFFICES ASSUME Init PROVE TypeInv
  OBVIOUS
<1> USE ArgumentsAssumption
<1>1. script \in Seq(Pieces) /\ Len(script) \in Nat
  BY DEF Init
<1>2. <<>> \in Seq(Pieces) /\ <<"1">> \in Seq(Pieces) /\ <<>> \in Seq(Seq(Pieces))
      /\ <<>> \in Lines
  BY DEF Pieces, Lines
<1>3. AtOK
  BY DEF Init, Actors, Places, AtOK
<1>4. \A s \in {period, buffer, text} : s \in Seq(Pieces)
  BY <1>2 DEF Init
<1>5. consumed \in 0 .. Len(script) /\ obeyed \in Seq(Seq(Pieces)) /\ log \in Lines
  BY <1>1, <1>2 DEF Init
<1>6. QED
  BY <1>3, <1>4, <1>5 DEF Init, TypeInv, TypeOK, AtOK, Lines

\* An actor goes to one of its places.
LEMMA Placed ==
    ASSUME AtOK, NEW a \in Actors, NEW place, GoTo(a, place),
           \/ /\ a = "main"
              /\ place \in {"secure", "identify", "create0", "create1", "join0", "join1"}
           \/ /\ a = "reader"
              /\ place \in {"test_on", "read", "scan", "obey", "log", "done"} \cup TurnOffPlaces
           \/ /\ a = "sensor"
              /\ place \in {"test", "log_F", "log_C", "out_F", "out_C", "out", "no_scale"}
           \/ /\ a = "button"
              /\ place \in {"up"} \cup TurnOffPlaces
    PROVE  AtOK'
BY DEF AtOK, GoTo, Actors, Places, TurnOffPlaces

\* Only a place changes, and perhaps the log.
LEMMA OnlyPlaces ==
    ASSUME TypeInv, AtOK', log' \in Lines,
           UNCHANGED <<chosen, connection, shared, reading, late, status>>
    PROVE  TypeInv'
BY DEF TypeInv, TypeOK, AtOK, Lines, chosen, connection, shared, reading

LEMMA Moves ==
    ASSUME TypeInv, NEW a \in Actors, NEW from, NEW to, Move(a, from, to), AtOK'
    PROVE  TypeInv'
<1>1. log' \in Lines
  BY DEF TypeInv, TypeOK, Move, Lines
<1>2. QED
  BY <1>1, OnlyPlaces DEF Move

\* What is written is a line.
LEMMA Written ==
    ASSUME log \in Lines, my_log \in BOOLEAN, NEW line, Write(line), line \in Seq(Pieces \cup {"ID", "SHUTDOWN"})
    PROVE  log' \in Lines
BY DEF Write, Lines

\* What the reader may change.
LEMMA ReaderTypes ==
    ASSUME TypeInv, AtOK',
           running' \in {0, 1}, scale' \in {"F", "C"}, late' \in Nat,
           period' \in Seq(Pieces), buffer' \in Seq(Pieces), text' \in Seq(Pieces),
           consumed' \in 0 .. Len(script), full' \in BOOLEAN, cut' \in BOOLEAN,
           obeyed' \in Seq(Seq(Pieces)),
           UNCHANGED <<chosen, connection, on, log, status>>
    PROVE  TypeInv'
<1>1. \A s \in {period', buffer', text'} : s \in Seq(Pieces)
  OBVIOUS
<1>2. QED
  BY <1>1 DEF TypeInv, TypeOK, AtOK, chosen, connection

LEMMA ReaderData ==
    ASSUME TypeInv
    PROVE  /\ running \in {0, 1} /\ scale \in {"F", "C"} /\ late \in Nat
           /\ period \in Seq(Pieces) /\ buffer \in Seq(Pieces) /\ text \in Seq(Pieces)
           /\ consumed \in 0 .. Len(script) /\ full \in BOOLEAN /\ cut \in BOOLEAN
           /\ obeyed \in Seq(Seq(Pieces)) /\ script \in Seq(Pieces)
BY ArgumentsAssumption DEF TypeInv, TypeOK

\* A read returns pieces of the script.
LEMMA ReadTypes == ASSUME TypeInv, Read PROVE TypeInv'
<1> USE ArgumentsAssumption
<1>1. PICK n \in 1 .. BufferSize :
         /\ consumed + n <= Len(script)
         /\ consumed' = consumed + n
         /\ buffer' = SubSeq(script, consumed + 1, consumed + n)
         /\ full' = (n = BufferSize)
         /\ cut' = (cut \/ n = BufferSize \/ script[consumed + n] # "newline")
  BY DEF Read
<1>2. script \in Seq(Pieces) /\ consumed \in Nat /\ n \in Nat
  BY ReaderData
<1>3. buffer' \in Seq(Pieces)
  BY <1>1, <1>2, Part
<1>4. consumed' \in 0 .. Len(script) /\ full' \in BOOLEAN /\ cut' \in BOOLEAN
  BY <1>1, <1>2
<1>5. AtOK'
  BY Placed DEF TypeInv, Read, Actors
<1>6. UNCHANGED <<chosen, connection, shared, text, obeyed, log, late, status>>
  BY DEF Read
<1>7. QED
  BY <1>3, <1>4, <1>5, <1>6, ReaderTypes, ReaderData DEF shared

\* So is a line, and what is left of the buffer.
LEMMA ScanLineTypes == ASSUME TypeInv, ScanLine PROVE TypeInv'
<1>1. PICK k \in LineEnds :
         /\ text' = SubSeq(buffer, 1, k - 1)
         /\ buffer' = SubSeq(buffer, k + 1, Len(buffer))
  BY DEF ScanLine
<1>2. buffer \in Seq(Pieces) /\ k \in 1 .. Len(buffer)
  BY ReaderData DEF LineEnds
<1>3. text' \in Seq(Pieces) /\ buffer' \in Seq(Pieces)
  BY <1>1, <1>2
<1>4. AtOK'
  BY Placed DEF TypeInv, ScanLine, Actors
<1>5. UNCHANGED <<chosen, connection, shared, consumed, full, cut, obeyed, log, late, status>>
  BY DEF ScanLine
<1>6. QED
  BY <1>3, <1>4, <1>5, ReaderTypes, ReaderData DEF shared

LEMMA ObeyTypes == ASSUME TypeInv, Obey PROVE TypeInv'
<1>1. text \in Seq(Pieces) /\ period \in Seq(Pieces) /\ obeyed \in Seq(Seq(Pieces))
      /\ scale \in {"F", "C"} /\ running \in {0, 1} /\ late \in Nat
  BY ReaderData
<1>2. NewPeriod \in Seq(Pieces)
  BY <1>1 DEF NewPeriod, StartsWith
<1>3. NewScale \in {"F", "C"} /\ NewRunning \in {0, 1}
  BY <1>1 DEF NewScale, NewRunning
<1>4. Append(obeyed, text) \in Seq(Seq(Pieces))
  BY <1>1
<1>5. late' \in Nat /\ period' \in Seq(Pieces) /\ scale' \in {"F", "C"} /\ running' \in {0, 1}
      /\ obeyed' \in Seq(Seq(Pieces))
  BY <1>1, <1>2, <1>3, <1>4 DEF Obey
<1>6. AtOK'
  BY Placed DEF TypeInv, Obey, Actors, TurnOffPlaces
<1>7. UNCHANGED <<chosen, connection, on, consumed, buffer, full, text, cut, log, status>>
  BY DEF Obey
<1>8. QED
  BY <1>5, <1>6, <1>7, ReaderTypes, ReaderData

LEMMA TurnOffTypes ==
    ASSUME TypeInv, NEW a \in {"reader", "button"}, TurnOff(a), ~OutputDies, ~ExitZero(a)
    PROVE  TypeInv'
<1>1. AtOK /\ log \in Lines /\ my_log \in BOOLEAN /\ a \in Actors
  BY DEF TypeInv, TypeOK, Lines, Actors
<1>2. <<"OFF">> \in Seq(Pieces \cup {"ID", "SHUTDOWN"})
      /\ <<"SHUTDOWN">> \in Seq(Pieces \cup {"ID", "SHUTDOWN"})
  BY DEF Pieces
<1>3. CASE StopRunning(a) \/ ClearOn(a)
  <2>1. GoTo(a, "off_on") \/ GoTo(a, "off_log")
    BY <1>3 DEF StopRunning, ClearOn
  <2>2. AtOK'
    BY <1>1, <2>1, Placed DEF TurnOffPlaces
  <2>3. QED
    BY <1>3, <2>2 DEF TypeInv, TypeOK, StopRunning, ClearOn, AtOK, chosen, connection, reading
<1>4. CASE LogOff(a)
  <2>1. AtOK'
    BY <1>1, <1>4, Placed DEF TurnOffPlaces, LogOff
  <2>2. log' \in Lines
    BY <1>1, <1>2, <1>4, Written DEF LogOff
  <2>3. QED
    BY <1>4, <2>1, <2>2, OnlyPlaces DEF LogOff
<1>5. CASE LogShutdown(a)
  <2>1. Write(<<"SHUTDOWN">>) /\ GoTo(a, "off_exit")
        /\ UNCHANGED <<chosen, connection, shared, reading, late, status>>
    BY <1>5 DEF LogShutdown
  <2>2. AtOK'
    BY <1>1, <2>1, Placed DEF TurnOffPlaces
  <2>3. log' \in Lines
    BY <1>1, <1>2, <2>1, Written
  <2>4. QED
    BY <2>1, <2>2, <2>3, OnlyPlaces
<1>6. QED
  BY <1>3, <1>4, <1>5 DEF TurnOff

LEMMA TypeNext == TypeInv /\ [Next]_vars => TypeInv'
<1> SUFFICES ASSUME TypeInv, [Next]_vars PROVE TypeInv'
  OBVIOUS
<1> USE ArgumentsAssumption
<1> USE DEF TypeInv
<1>1. CASE UNCHANGED vars
  BY <1>1 DEF TypeOK, AtOK, vars, chosen, connection, shared, reading
<1>2. ASSUME NEW code \in {"exit0", "exit1", "exit2", "SIGSEGV", "SIGPIPE"}, End(code)
      PROVE  TypeInv'
  BY <1>2 DEF TypeOK, AtOK, End, chosen, connection, shared, reading
<1>3. ASSUME OutputDies PROVE TypeInv'
  BY <1>2, <1>3 DEF OutputDies
<1>4. log \in Lines /\ my_log \in BOOLEAN /\ text \in Seq(Pieces)
  BY DEF TypeOK, Lines
<1>5. CASE Main
  <2>1. CASE Connect \/ OpenSession \/ JoinReader
    <3>1. AtOK'
      BY <2>1, Placed DEF Connect, OpenSession, JoinReader, Move, Actors
    <3>2. QED
      BY <2>1, <3>1, Moves DEF Connect, OpenSession, JoinReader, Actors
  <2>2. CASE Identify
    <3>1. log' \in Lines
      <4>1. <<"ID">> \in Seq(Pieces \cup {"ID", "SHUTDOWN"})
        OBVIOUS
      <4>2. QED
        BY <1>4, <2>2, <4>1, Written DEF Identify
    <3>2. AtOK'
      BY <2>2, Placed DEF Identify, Actors
    <3>3. QED
      BY <2>2, <3>1, <3>2, OnlyPlaces DEF Identify
  <2>3. CASE CreateThreads
    <3>1. AtOK' /\ log' \in Lines
      BY <1>4, <2>3 DEF AtOK, CreateThreads, Create, Actors, Places
    <3>2. QED
      BY <2>3, <3>1, OnlyPlaces DEF CreateThreads, Create
  <2>4. CASE ConnectFails \/ OpenSessionFails \/ IdentifyCrashes \/ IdentifyDies
             \/ IdentifyFails \/ CreateFails
    BY <1>2, <1>3, <2>4 DEF ConnectFails, OpenSessionFails, IdentifyCrashes, IdentifyDies,
                            IdentifyFails, CreateFails
  <2>5. QED
    BY <1>5, <2>1, <2>2, <2>3, <2>4 DEF Main
<1>6. ASSUME NEW a \in {"reader", "button"}, TurnOff(a) PROVE TypeInv'
  BY <1>2, <1>3, <1>6, TurnOffTypes DEF ExitZero
<1>7. CASE Reader
  <2>1. CASE TestOn \/ ReadNothing
    <3>1. AtOK'
      BY <2>1, Placed DEF TestOn, ReadNothing, Move, Actors
    <3>2. QED
      BY <2>1, <3>1, Moves DEF TestOn, ReadNothing, Actors
  <2>2. CASE Read
    BY <2>2, ReadTypes
  <2>3. CASE ScanEnds \/ ScanFinds
    <3>1. AtOK'
      BY <2>3, Placed DEF ScanEnds, ScanFinds, Actors
    <3>2. buffer' \in Seq(Pieces) /\ text' \in Seq(Pieces) /\ full' \in BOOLEAN
      <4>1. buffer' = <<>> /\ text' \in {text, buffer} /\ full' \in {full, FALSE}
        BY <2>3 DEF ScanEnds, ScanFinds
      <4>2. <<>> \in Seq(Pieces)
        OBVIOUS
      <4>3. QED
        BY <4>1, <4>2, ReaderData, Zenon
    <3>3. UNCHANGED <<chosen, connection, shared, consumed, cut, obeyed, log, late, status>>
      BY <2>3 DEF ScanEnds, ScanFinds
    <3>4. QED
      BY <3>1, <3>2, <3>3, ReaderTypes, ReaderData DEF shared
  <2>4. CASE ScanLine
    BY <2>4, ScanLineTypes
  <2>5. CASE Obey
    BY <2>5, ObeyTypes
  <2>6. CASE LogLine
    <3>1. text \in Seq(Pieces \cup {"ID", "SHUTDOWN"})
      BY <1>4
    <3>2. log' \in Lines
      BY <1>4, <2>6, <3>1, Written DEF LogLine
    <3>3. AtOK'
      BY <2>6, Placed DEF LogLine, Actors
    <3>4. QED
      BY <2>6, <3>2, <3>3, OnlyPlaces DEF LogLine
  <2>7. CASE ReadFails \/ ScanCrashes \/ LogToNull
    BY <1>2, <2>7 DEF ReadFails, ScanCrashes, LogToNull
  <2>8. QED
    BY <1>6, <1>7, <2>1, <2>2, <2>3, <2>4, <2>5, <2>6, <2>7 DEF Reader
<1>8. CASE Sensor
  <2>1. CASE Register
    <3>1. AtOK' /\ log' \in Lines
      BY <1>4, <2>1 DEF AtOK, Register, Actors, Places
    <3>2. QED
      BY <2>1, <3>1, OnlyPlaces DEF Register
  <2>2. ASSUME NEW from, NEW to \in {"test", "log_F", "log_C", "out_F", "out_C", "out", "no_scale"},
               Move("sensor", from, to)
        PROVE  TypeInv'
    <3>1. AtOK'
      BY <2>2, Placed DEF Move, Actors
    <3>2. QED
      BY <2>2, <3>1, Moves DEF Actors
  <2>3. CASE TestRunning
    BY <2>2, <2>3 DEF TestRunning, FirstReport
  <2>4. CASE ConvertForLog \/ ConvertForOutput \/ ConvertForServer \/ ConvertForLogToo
    BY <2>2, <2>4 DEF ConvertForLog, ConvertForOutput, ConvertForServer, ConvertForLogToo, Convert
  <2>5. CASE CannotConvert
    BY <1>2, <2>5 DEF CannotConvert
  <2>6. CASE Report /\ ~OutputDies
    <3>1. AtOK'
      BY <2>6, Placed DEF Report, Actors
    <3>2. QED
      BY <2>6, <3>1 DEF TypeOK, AtOK, Report, chosen, connection, shared, reading
  <2>7. QED
    BY <1>3, <1>8, <2>1, <2>3, <2>4, <2>5, <2>6 DEF Sensor
<1>9. CASE Press
  <2>1. AtOK'
    BY <1>9, Placed DEF Press, Move, Actors, TurnOffPlaces
  <2>2. QED
    BY <1>9, <2>1, Moves DEF Press, Actors
<1>10. CASE DamageSession \/ CrashInSession \/ Close
  <2>1. CASE CrashInSession
    BY <1>2, <2>1 DEF CrashInSession
  <2>2. CASE DamageSession \/ Close
    BY <2>2 DEF TypeOK, AtOK, DamageSession, Close, chosen, shared, reading
  <2>3. QED
    BY <1>10, <2>1, <2>2
<1>11. QED
  BY <1>1, <1>5, <1>6, <1>7, <1>8, <1>9, <1>10 DEF Next, Button, Ended

-----------------------------------------------------------------------------
(* Who exists when.                                                        *)

LEMMA BirthNext ==
    ASSUME TypeInv, BirthInv, [Next]_vars
    PROVE  BirthInv'
<1> USE DEF BirthInv, Networked, Secure
<1>1. AtOK
  BY DEF TypeInv
<1>2. CASE UNCHANGED vars
  BY <1>2 DEF vars, chosen
<1>3. ASSUME NEW code, End(code) PROVE BirthInv'
  BY <1>3 DEF End, chosen
<1>4. ASSUME OutputDies PROVE BirthInv'
  BY <1>3, <1>4 DEF OutputDies
\* An actor that exists goes on.
<1>5. ASSUME NEW a \in {"reader", "sensor", "button"}, NEW place, at[a] # "unborn",
             a = "sensor" => at[a] # "start" /\ place \notin {"unborn", "start"},
             GoTo(a, place), UNCHANGED chosen
      PROVE  BirthInv'
  BY <1>1, <1>5 DEF AtOK, GoTo, chosen, Actors
<1>6. ASSUME NEW a \in {"reader", "button"}, TurnOff(a) PROVE BirthInv'
  BY <1>3, <1>4, <1>5, <1>6 DEF TurnOff, StopRunning, ClearOn, LogOff, LogShutdown, ExitZero, At
<1>7. CASE Main
  <2>1. CASE Connect \/ OpenSession \/ JoinReader
    BY <1>1, <2>1 DEF AtOK, Connect, OpenSession, JoinReader, Move, At, GoTo, chosen, Actors
  <2>2. CASE Identify \/ CreateThreads
    BY <1>1, <2>2 DEF AtOK, Identify, CreateThreads, Create, At, GoTo, chosen, Actors
  <2>3. CASE ConnectFails \/ OpenSessionFails \/ IdentifyCrashes \/ IdentifyDies
             \/ IdentifyFails \/ CreateFails
    BY <1>3, <1>4, <2>3 DEF ConnectFails, OpenSessionFails, IdentifyCrashes, IdentifyDies,
                            IdentifyFails, CreateFails
  <2>4. QED
    BY <1>7, <2>1, <2>2, <2>3 DEF Main
<1>8. CASE Reader
  <2>1. CASE TestOn \/ ReadNothing \/ Read
    BY <1>5, <2>1 DEF TestOn, ReadNothing, Read, Move, At
  <2>2. CASE ScanEnds \/ ScanLine \/ ScanFinds \/ LogLine
    BY <1>5, <2>2 DEF ScanEnds, ScanLine, ScanFinds, LogLine, At
  <2>3. CASE Obey
    BY <1>5, <2>3 DEF Obey, At
  <2>4. CASE ReadFails \/ ScanCrashes \/ LogToNull
    BY <1>3, <2>4 DEF ReadFails, ScanCrashes, LogToNull
  <2>5. QED
    BY <1>6, <1>8, <2>1, <2>2, <2>3, <2>4 DEF Reader
<1>9. CASE Sensor
  <2>1. CASE Register
    BY <1>1, <2>1 DEF AtOK, Register, At, chosen, Actors
  <2>2. ASSUME NEW from \in {"test", "log_F", "log_C", "out_F", "out_C"},
               NEW to, to \notin {"unborn", "start"}, Move("sensor", from, to)
        PROVE  BirthInv'
    BY <1>5, <2>2 DEF Move, At
  <2>3. CASE TestRunning
    BY <2>2, <2>3 DEF TestRunning, FirstReport
  <2>4. CASE ConvertForLog \/ ConvertForOutput \/ ConvertForServer \/ ConvertForLogToo
    BY <2>2, <2>4 DEF ConvertForLog, ConvertForOutput, ConvertForServer, ConvertForLogToo, Convert
  <2>5. CASE CannotConvert
    BY <1>3, <2>5 DEF CannotConvert
  <2>6. CASE Report
    BY <1>4, <1>5, <2>6 DEF Report, At
  <2>7. QED
    BY <1>9, <2>1, <2>3, <2>4, <2>5, <2>6 DEF Sensor
<1>10. CASE Press
  BY <1>5, <1>10 DEF Press, Move, At
<1>11. CASE DamageSession \/ CrashInSession \/ Close
  BY <1>3, <1>11 DEF DamageSession, CrashInSession, Close, chosen
<1>12. QED
  BY <1>2, <1>6, <1>7, <1>8, <1>9, <1>10, <1>11 DEF Next, Button, Ended

-----------------------------------------------------------------------------
(* Reports after running became 0.                                         *)

LEMMA LateNext ==
    ASSUME TypeInv, LateInv, [Next]_vars
    PROVE  LateInv'
<1> USE DEF LateInv, OneLateReport, Reporting
<1>1. AtOK /\ late \in Nat /\ running \in {0, 1}
  BY ReaderData DEF TypeInv
\* Neither running nor the sensor is concerned.
<1>2. ASSUME UNCHANGED <<running, late>>, at'["sensor"] = at["sensor"] PROVE LateInv'
  BY <1>2
<1>3. CASE UNCHANGED vars
  BY <1>2, <1>3 DEF vars, shared
<1>4. ASSUME NEW code, End(code) PROVE LateInv'
  BY <1>2, <1>4 DEF End, shared
<1>5. ASSUME OutputDies PROVE LateInv'
  BY <1>4, <1>5 DEF OutputDies
<1>6. ASSUME NEW a \in {"main", "reader", "button"}, NEW place, GoTo(a, place),
             UNCHANGED <<running, late>>
      PROVE  LateInv'
  BY <1>1, <1>2, <1>6 DEF AtOK, GoTo, Actors
<1>7. ASSUME NEW a \in {"reader", "button"}, TurnOff(a) PROVE LateInv'
  <2>1. CASE StopRunning(a)
    BY <1>1, <1>7, <2>1 DEF AtOK, StopRunning, GoTo, Actors
  <2>2. CASE ClearOn(a) \/ LogOff(a) \/ LogShutdown(a) \/ ExitZero(a)
    BY <1>4, <1>5, <1>6, <1>7, <2>2 DEF ClearOn, LogOff, LogShutdown, ExitZero, shared
  <2>3. QED
    BY <1>7, <2>1, <2>2 DEF TurnOff
<1>8. CASE Main
  <2>1. CASE Connect \/ OpenSession \/ JoinReader
    BY <1>6, <2>1 DEF Connect, OpenSession, JoinReader, Move, shared
  <2>2. CASE Identify
    BY <1>6, <2>2 DEF Identify, shared
  <2>3. CASE CreateThreads
    BY <1>1, <2>3 DEF AtOK, CreateThreads, Create, shared, Actors
  <2>4. CASE ConnectFails \/ OpenSessionFails \/ IdentifyCrashes \/ IdentifyDies
             \/ IdentifyFails \/ CreateFails
    BY <1>4, <1>5, <2>4 DEF ConnectFails, OpenSessionFails, IdentifyCrashes, IdentifyDies,
                            IdentifyFails, CreateFails
  <2>5. QED
    BY <1>8, <2>1, <2>2, <2>3, <2>4 DEF Main
<1>9. CASE Reader
  <2>1. CASE TestOn \/ ReadNothing \/ Read
    BY <1>6, <2>1 DEF TestOn, ReadNothing, Read, Move, shared
  <2>2. CASE ScanEnds \/ ScanLine \/ ScanFinds \/ LogLine
    BY <1>6, <2>2 DEF ScanEnds, ScanLine, ScanFinds, LogLine, shared
  \* START sets running and begins to count anew; STOP leaves what is counted.
  <2>3. CASE Obey
    <3>1. /\ running' = NewRunning
          /\ late' = IF text = <<"START">> THEN 0 ELSE late
          /\ at'["sensor"] = at["sensor"]
      BY <1>1, <2>3 DEF AtOK, Obey, GoTo, Actors
    <3>2. CASE text = <<"START">>
      BY <3>1, <3>2
    <3>3. CASE text # <<"START">>
      BY <1>1, <3>1, <3>3 DEF NewRunning
    <3>4. QED
      BY <3>2, <3>3
  <2>4. CASE ReadFails \/ ScanCrashes \/ LogToNull
    BY <1>4, <2>4 DEF ReadFails, ScanCrashes, LogToNull
  <2>5. QED
    BY <1>7, <1>9, <2>1, <2>2, <2>3, <2>4 DEF Reader
<1>10. CASE Sensor
  <2>1. CASE Register
    BY <1>1, <2>1 DEF AtOK, Register, At, shared, Actors
  <2>2. ASSUME NEW from, NEW to, Move("sensor", from, to), from \in Reporting \/ running = 1
        PROVE  LateInv'
    BY <1>1, <2>2 DEF AtOK, Move, At, GoTo, shared, Actors
  <2>3. CASE TestRunning
    BY <2>2, <2>3 DEF TestRunning
  <2>4. CASE ConvertForLog \/ ConvertForOutput \/ ConvertForServer \/ ConvertForLogToo
    BY <2>2, <2>4 DEF ConvertForLog, ConvertForOutput, ConvertForServer, ConvertForLogToo, Convert
  <2>5. CASE CannotConvert
    BY <1>4, <2>5 DEF CannotConvert
  \* The only step that counts, and it leaves the sensor before its test.
  <2>6. CASE Report /\ ~OutputDies
    BY <1>1, <2>6 DEF AtOK, Report, At, GoTo, shared, Actors
  <2>7. QED
    BY <1>5, <1>10, <2>1, <2>3, <2>4, <2>5, <2>6 DEF Sensor
<1>11. CASE Press
  BY <1>6, <1>11 DEF Press, Move, shared
<1>12. CASE DamageSession \/ CrashInSession \/ Close
  BY <1>2, <1>4, <1>12 DEF DamageSession, CrashInSession, Close, shared
<1>13. QED
  BY <1>3, <1>7, <1>8, <1>9, <1>10, <1>11, <1>12 DEF Next, Button, Ended

-----------------------------------------------------------------------------
(* The log.                                                                *)

Pending == at["reader"] \in {"log"} \cup TurnOffPlaces
Logged == Without(log, OwnLines)

\* What turn_off and main write does not count.
LEMMA OwnLine ==
    ASSUME TypeInv, NEW line \in OwnLines, Write(line)
    PROVE  Logged' = Logged
<1>1. log \in Lines /\ my_log \in BOOLEAN
  BY DEF TypeInv, TypeOK, Lines
<1>2. line \in Seq(Pieces \cup {"ID", "SHUTDOWN"})
  <2>1. <<"ID">> \in Seq(Pieces \cup {"ID", "SHUTDOWN"})
    OBVIOUS
  <2>2. <<"SHUTDOWN">> \in Seq(Pieces \cup {"ID", "SHUTDOWN"})
    OBVIOUS
  <2>3. <<"OFF">> \in Seq(Pieces \cup {"ID", "SHUTDOWN"})
    BY DEF Pieces
  <2>4. QED
    BY <2>1, <2>2, <2>3, Zenon DEF OwnLines
<1>3. Without(Append(log, line), OwnLines) = Without(log, OwnLines)
  BY <1>1, <1>2, WithoutAppend DEF Lines
<1>4. log' = log \/ log' = Append(log, line)
  BY DEF Write
<1>5. QED
  BY <1>3, <1>4 DEF Logged, OwnLines

\* What the reader writes does.
LEMMA OtherLine ==
    ASSUME TypeInv, my_log, text # <<"OFF">>, Write(text)
    PROVE  Logged' = Append(Logged, text)
<1>1. log \in Lines /\ text \in Seq(Pieces)
  BY DEF TypeInv, TypeOK, Lines
<1>2. text \notin OwnLines /\ text \in Seq(Pieces \cup {"ID", "SHUTDOWN"})
  <2>1. ASSUME NEW e, text = <<e>> PROVE e \in Pieces
    BY <1>1, <2>1
  <2>2. text # <<"ID">> /\ text # <<"SHUTDOWN">>
    BY <2>1 DEF Pieces
  <2>3. QED
    BY <1>1, <2>2 DEF OwnLines
<1>3. Without(Append(log, text), OwnLines) = Append(Without(log, OwnLines), text)
  BY <1>1, <1>2, WithoutAppend DEF Lines
<1>4. log' = Append(log, text)
  BY DEF Write
<1>5. QED
  BY <1>3, <1>4 DEF Logged, OwnLines

\* A sequence with one more element, or none.
LEMMA OneMore ==
    ASSUME NEW S, NEW s \in Seq(S), NEW e \in S
    PROVE  s \o <<e>> = Append(s, e) /\ s \o <<>> = s
BY AppendIsConcat

LEMMA LogNext ==
    ASSUME TypeInv, TypeInv', BirthInv, LogInv, [Next]_vars
    PROVE  LogInv'
<1>1. AtOK
  BY DEF TypeInv
<1>2. /\ Pending => (my_log => obeyed = Append(Logged, text))
      /\ ~Pending => (my_log => obeyed = Logged)
  <2>1. log \in Lines /\ text \in Seq(Pieces \cup {"ID", "SHUTDOWN"})
    BY DEF TypeInv, TypeOK, Lines
  <2>2. Logged \in Lines
    BY <2>1, WithoutType DEF Lines, Logged
  <2>3. my_log => obeyed = Logged \o (IF Pending THEN <<text>> ELSE <<>>)
    BY DEF LogInv, LogKept, Logged, Pending
  <2> HIDE DEF Logged
  <2>4. Logged \o <<>> = Logged /\ Logged \o <<text>> = Append(Logged, text)
    BY <2>1, <2>2, OneMore DEF Lines
  <2>5. QED
    BY <2>3, <2>4
<1>3. /\ at["reader"] = "log" => text # <<"OFF">>
      /\ at["reader"] \in TurnOffPlaces => text = <<"OFF">>
  BY DEF LogInv
<1>4. ASSUME /\ Pending' => (my_log => obeyed' = Append(Logged', text'))
             /\ ~Pending' => (my_log => obeyed' = Logged')
             /\ at'["reader"] = "log" => text' # <<"OFF">>
             /\ at'["reader"] \in TurnOffPlaces => text' = <<"OFF">>
             /\ my_log' = my_log
      PROVE  LogInv'
  <2>1. LogKept'
    <3>1. log' \in Lines /\ text' \in Seq(Pieces \cup {"ID", "SHUTDOWN"})
      BY DEF TypeInv, TypeOK, Lines
    <3>2. Logged' \in Lines
      BY <3>1, WithoutType DEF Lines, Logged, OwnLines
    <3>3. Logged' \o <<>> = Logged' /\ Logged' \o <<text'>> = Append(Logged', text')
      BY <3>1, <3>2, OneMore DEF Lines
    <3>4. my_log' => obeyed' = Logged' \o (IF Pending' THEN <<text'>> ELSE <<>>)
      BY <1>4, <3>3
    <3>5. QED
      BY <3>4 DEF LogKept, Logged, Pending
  <2>2. QED
    BY <1>4, <2>1 DEF LogInv, TurnOffPlaces
\* Nothing is written, and the reader stays where it is or goes on.
<1>5. ASSUME UNCHANGED <<my_log, obeyed, text>>, Logged' = Logged,
             \/ at'["reader"] = at["reader"]
             \/ at["reader"] \in TurnOffPlaces /\ at'["reader"] \in TurnOffPlaces
             \/ ~Pending /\ ~Pending'
      PROVE  LogInv'
  BY <1>2, <1>3, <1>4, <1>5 DEF Pending, TurnOffPlaces
\* Others move, or the reader within turn_off.
<1>6. ASSUME UNCHANGED <<my_log, obeyed, text>>, Logged' = Logged, NEW a \in Actors, NEW place,
             a = "reader" => \/ at["reader"] \in TurnOffPlaces /\ place \in TurnOffPlaces
                             \/ ~Pending /\ place \notin {"log"} \cup TurnOffPlaces,
             GoTo(a, place)
      PROVE  LogInv'
  BY <1>1, <1>5, <1>6 DEF AtOK, GoTo, Pending
<1>7. CASE UNCHANGED vars
  BY <1>5, <1>7 DEF vars, chosen, reading, Logged
<1>8. ASSUME NEW code, End(code) PROVE LogInv'
  BY <1>5, <1>8 DEF End, chosen, reading, Logged
<1>9. ASSUME OutputDies PROVE LogInv'
  BY <1>8, <1>9 DEF OutputDies
<1>10. ASSUME NEW a \in {"reader", "button"}, TurnOff(a) PROVE LogInv'
  <2>1. CASE StopRunning(a) \/ ClearOn(a)
    BY <1>6, <1>10, <2>1 DEF StopRunning, ClearOn, At, TurnOffPlaces, Actors, chosen, reading, Logged
  <2>2. CASE LogOff(a) \/ (LogShutdown(a) /\ ~OutputDies)
    <3>1. Logged' = Logged
      BY <2>2, OwnLine DEF LogOff, LogShutdown, OwnLines
    <3>2. QED
      BY <1>6, <1>10, <2>2, <3>1 DEF LogOff, LogShutdown, At, TurnOffPlaces, Actors, chosen, reading
  <2>3. CASE ExitZero(a)
    BY <1>8, <2>3 DEF ExitZero
  <2>4. QED
    BY <1>9, <1>10, <2>1, <2>2, <2>3 DEF TurnOff, LogShutdown
<1>11. CASE Main
  <2>1. CASE Connect \/ OpenSession \/ JoinReader
    BY <1>6, <2>1 DEF Connect, OpenSession, JoinReader, Move, Actors, chosen, reading, Logged
  <2>2. CASE Identify
    <3>1. Logged' = Logged
      BY <2>2, OwnLine DEF Identify, OwnLines
    <3>2. QED
      BY <1>6, <2>2, <3>1 DEF Identify, Actors, chosen, reading
  <2>3. CASE CreateThreads
    <3>1. at'["reader"] = at["reader"] \/ (~Pending /\ ~Pending')
      BY <1>1, <2>3 DEF BirthInv, AtOK, CreateThreads, Create, At, Pending, TurnOffPlaces, Actors
    <3>2. QED
      BY <1>5, <2>3, <3>1 DEF CreateThreads, Create, chosen, reading, Logged
  <2>4. CASE ConnectFails \/ OpenSessionFails \/ IdentifyCrashes \/ IdentifyDies
             \/ IdentifyFails \/ CreateFails
    BY <1>8, <1>9, <2>4 DEF ConnectFails, OpenSessionFails, IdentifyCrashes, IdentifyDies,
                            IdentifyFails, CreateFails
  <2>5. QED
    BY <1>11, <2>1, <2>2, <2>3, <2>4 DEF Main
<1>12. CASE Reader
  <2>1. CASE TestOn \/ ReadNothing
    BY <1>6, <2>1 DEF TestOn, ReadNothing, Move, At, Pending, TurnOffPlaces, Actors, chosen, reading, Logged
  <2>2. CASE Read \/ ScanEnds
    BY <1>6, <2>2 DEF Read, ScanEnds, At, Pending, TurnOffPlaces, Actors, chosen, Logged
  \* The text is a new one, but none is pending.
  <2>3. CASE ScanLine \/ ScanFinds
    <3>1. ~Pending /\ ~Pending' /\ at'["reader"] = "obey"
      BY <1>1, <2>3 DEF AtOK, ScanLine, ScanFinds, At, GoTo, Pending, TurnOffPlaces, Actors
    <3>2. UNCHANGED <<my_log, obeyed, log>>
      BY <2>3 DEF ScanLine, ScanFinds, chosen
    <3>3. QED
      BY <1>2, <1>4, <3>1, <3>2 DEF Logged, TurnOffPlaces
  <2>4. CASE Obey
    <3>1. ~Pending
      BY <2>4 DEF Obey, At, Pending, TurnOffPlaces
    <3>2. Pending' /\ at'["reader"] = IF text = <<"OFF">> THEN "off_running" ELSE "log"
      BY <1>1, <2>4 DEF AtOK, Obey, GoTo, Pending, TurnOffPlaces, Actors
    <3>3. obeyed' = Append(obeyed, text) /\ UNCHANGED <<my_log, text, log>>
      BY <2>4 DEF Obey, chosen
    <3>4. QED
      BY <1>2, <1>4, <3>1, <3>2, <3>3 DEF Logged, TurnOffPlaces
  <2>5. CASE LogLine
    <3>1. Pending /\ at["reader"] = "log"
      BY <2>5 DEF LogLine, At, Pending
    <3>2. ~Pending' /\ at'["reader"] = "scan"
      BY <1>1, <2>5 DEF AtOK, LogLine, GoTo, Pending, TurnOffPlaces, Actors
    <3>3. Write(text) /\ UNCHANGED <<my_log, obeyed, text>>
      BY <2>5 DEF LogLine, chosen, reading
    <3>4. my_log => Logged' = Append(Logged, text)
      BY <1>3, <3>1, <3>3, OtherLine
    <3>5. QED
      BY <1>2, <1>4, <3>1, <3>2, <3>3, <3>4 DEF TurnOffPlaces
  <2>6. CASE ReadFails \/ ScanCrashes \/ LogToNull
    BY <1>8, <2>6 DEF ReadFails, ScanCrashes, LogToNull
  <2>7. QED
    BY <1>10, <1>12, <2>1, <2>2, <2>3, <2>4, <2>5, <2>6 DEF Reader
<1>13. CASE Sensor
  <2>1. ASSUME log' = log, UNCHANGED <<chosen, reading>>, at'["reader"] = at["reader"] PROVE LogInv'
    BY <1>5, <2>1 DEF chosen, reading, Logged
  <2>2. CASE Register
    BY <1>1, <2>1, <2>2 DEF AtOK, Register, Actors
  <2>3. ASSUME NEW from, NEW to, Move("sensor", from, to) PROVE LogInv'
    BY <1>1, <2>1, <2>3 DEF AtOK, Move, GoTo, Actors
  <2>4. CASE TestRunning
    BY <2>3, <2>4 DEF TestRunning
  <2>5. CASE ConvertForLog \/ ConvertForOutput \/ ConvertForServer \/ ConvertForLogToo
    BY <2>3, <2>5 DEF ConvertForLog, ConvertForOutput, ConvertForServer, ConvertForLogToo, Convert
  <2>6. CASE CannotConvert
    BY <1>8, <2>6 DEF CannotConvert
  <2>7. CASE Report
    BY <1>1, <1>9, <2>1, <2>7 DEF AtOK, Report, GoTo, Actors
  <2>8. QED
    BY <1>13, <2>2, <2>4, <2>5, <2>6, <2>7 DEF Sensor
<1>14. CASE Press
  BY <1>6, <1>14 DEF Press, Move, Actors, chosen, reading, Logged
<1>15. CASE DamageSession \/ CrashInSession \/ Close
  BY <1>5, <1>8, <1>15 DEF DamageSession, CrashInSession, Close, chosen, reading, Logged
<1>16. QED
  BY <1>7, <1>10, <1>11, <1>12, <1>13, <1>14, <1>15 DEF Next, Button, Ended

-----------------------------------------------------------------------------
(* How a normal end is announced.                                          *)

\* Nothing happens to a program that has ended.
LEMMA Running == [Next]_vars /\ ~UNCHANGED vars => status = "running"
<1> SUFFICES ASSUME Next, ~UNCHANGED vars PROVE status = "running"
  OBVIOUS
<1>1. ASSUME NEW a, TurnOff(a) PROVE status = "running"
  BY <1>1 DEF TurnOff, StopRunning, ClearOn, LogOff, LogShutdown, ExitZero, At
<1>2. CASE Main
  BY <1>2 DEF Main, Connect, ConnectFails, OpenSession, OpenSessionFails, Identify, IdentifyCrashes,
              IdentifyDies, IdentifyFails, CreateThreads, Create, CreateFails, JoinReader, Move, At
<1>3. CASE Reader
  BY <1>1, <1>3 DEF Reader, TestOn, Read, ReadNothing, ReadFails, ScanEnds, ScanLine, ScanFinds,
              ScanCrashes, Obey, LogLine, LogToNull, Move, At
<1>4. CASE Sensor
  BY <1>4 DEF Sensor, Register, TestRunning, ConvertForLog, ConvertForOutput, ConvertForServer,
              ConvertForLogToo, Convert, CannotConvert, Report, Move, At
<1>5. CASE Press \/ Button
  BY <1>1, <1>5 DEF Press, Button, Move, At
<1>6. CASE DamageSession \/ CrashInSession \/ Close
  BY <1>6 DEF DamageSession, CrashInSession, CallsMeet, Close
<1>7. QED
  BY <1>2, <1>3, <1>4, <1>5, <1>6 DEF Next, Ended

\* A line written is counted once, if it is the one.
LEMMA Count ==
    ASSUME TypeInv, NEW line \in Seq(Pieces \cup {"ID", "SHUTDOWN"}), Write(line), my_log, NEW e
    PROVE  Times(log', e) = Times(log, e) + (IF line = e THEN 1 ELSE 0)
<1>1. log \in Lines /\ log' = Append(log, line)
  BY DEF TypeInv, TypeOK, Lines, Write
<1>2. QED
  BY <1>1, TimesAppend DEF Lines

LEMMA OneLine ==
    /\ <<"ID">> \in Seq(Pieces \cup {"ID", "SHUTDOWN"})
    /\ <<"OFF">> \in Seq(Pieces \cup {"ID", "SHUTDOWN"})
    /\ <<"SHUTDOWN">> \in Seq(Pieces \cup {"ID", "SHUTDOWN"})
    /\ <<"ID">> # <<"OFF">> /\ <<"ID">> # <<"SHUTDOWN">> /\ <<"OFF">> # <<"SHUTDOWN">>
    /\ <<"SHUTDOWN">> \notin Seq(Pieces)
<1>1. ASSUME <<"SHUTDOWN">> \in Seq(Pieces) PROVE FALSE
  <2> DEFINE s == <<"SHUTDOWN">>
  <2>1. Len(s) = 1 /\ s[1] = "SHUTDOWN" /\ s \in Seq(Pieces)
    BY <1>1
  <2> HIDE DEF s
  <2>2. s[1] \in Pieces
    BY <2>1
  <2>3. QED
    BY <2>1, <2>2 DEF Pieces
<1>2. "OFF" \in Pieces
  BY DEF Pieces
<1>3. /\ <<"ID">> \in Seq(Pieces \cup {"ID", "SHUTDOWN"})
      /\ <<"SHUTDOWN">> \in Seq(Pieces \cup {"ID", "SHUTDOWN"})
      /\ <<"OFF">> \in Seq(Pieces \cup {"ID", "SHUTDOWN"})
  BY <1>2
<1>4. <<"ID">> # <<"OFF">> /\ <<"ID">> # <<"SHUTDOWN">> /\ <<"OFF">> # <<"SHUTDOWN">>
  OBVIOUS
<1>5. QED
  BY <1>1, <1>3, <1>4

\* How many of two.
LEMMA Both ==
    ASSUME NEW P \in SUBSET {"reader", "button"}
    PROVE  Cardinality(P) = (IF "reader" \in P THEN 1 ELSE 0) + (IF "button" \in P THEN 1 ELSE 0)
<1>1. Cardinality({}) = 0 /\ IsFiniteSet({})
  BY FS_EmptySet
<1>2. \A x : Cardinality({x}) = 1 /\ IsFiniteSet({x})
  BY FS_Singleton
<1>3. Cardinality({"reader", "button"}) = 2
  <2>1. {"reader", "button"} = {"reader"} \cup {"button"} /\ "button" \notin {"reader"}
    OBVIOUS
  <2>2. Cardinality({"reader"} \cup {"button"}) = Cardinality({"reader"}) + 1
    BY <1>2, <2>1, FS_AddElement
  <2>3. Cardinality({"reader"}) = 1
    BY <1>2
  <2>4. Cardinality({"reader"} \cup {"button"}) = 2
    BY <2>2, <2>3
  <2>5. QED
    BY <2>1, <2>4
<1>4. CASE "reader" \in P /\ "button" \in P
  <2>1. P = {"reader", "button"}
    BY <1>4
  <2>2. QED
    BY <1>3, <1>4, <2>1
<1>5. CASE "reader" \in P /\ "button" \notin P
  <2>1. P = {"reader"}
    BY <1>5
  <2>2. QED
    BY <1>2, <1>5, <2>1
<1>6. CASE "reader" \notin P /\ "button" \in P
  <2>1. P = {"button"}
    BY <1>6
  <2>2. QED
    BY <1>2, <1>6, <2>1
<1>7. CASE "reader" \notin P /\ "button" \notin P
  <2>1. P = {}
    BY <1>7
  <2>2. QED
    BY <1>1, <1>7, <2>1
<1>8. QED
  BY <1>4, <1>5, <1>6, <1>7

Offs == Times(log, <<"OFF">>)
Shutdowns == Times(log, <<"SHUTDOWN">>)

LEMMA TurnOffNext ==
    ASSUME TypeInv, BirthInv, LogInv, TurnOffInv, [Next]_vars
    PROVE  TurnOffInv'
<1>1. AtOK
  BY DEF TypeInv
<1>2. /\ my_log => Offs = Have({"off_shutdown", "off_exit"}) /\ Shutdowns = Have({"off_exit"})
      /\ status = "exit0" => \E a \in {"reader", "button"} : at[a] = "off_exit"
  BY DEF TurnOffInv, Offs, Shutdowns
<1>3. ASSUME my_log' = my_log,
             my_log => Offs' = Have({"off_shutdown", "off_exit"})' /\ Shutdowns' = Have({"off_exit"})',
             status' = "exit0" => \E a \in {"reader", "button"} : at'[a] = "off_exit"
      PROVE  TurnOffInv'
  BY <1>3 DEF TurnOffInv, Offs, Shutdowns
<1>4. CASE UNCHANGED vars
  BY <1>2, <1>3, <1>4 DEF vars, chosen, Offs, Shutdowns, Have, Has
<1>5. status = "running" \/ UNCHANGED vars
  BY Running
\* What is counted stays the same.
<1>6. ASSUME UNCHANGED <<my_log, status>>, my_log => Offs' = Offs /\ Shutdowns' = Shutdowns,
             NEW a \in Actors, NEW place,
             \/ a \notin {"reader", "button"}
             \/ at[a] \notin {"off_shutdown", "off_exit"} /\ place \notin {"off_shutdown", "off_exit"},
             GoTo(a, place)
      PROVE  TurnOffInv'
  <2>1. Have({"off_shutdown", "off_exit"})' = Have({"off_shutdown", "off_exit"})
        /\ Have({"off_exit"})' = Have({"off_exit"})
    BY <1>1, <1>6 DEF AtOK, GoTo, Have, Has, Actors
  <2>2. QED
    BY <1>2, <1>3, <1>4, <1>5, <1>6, <2>1
<1>7. ASSUME NEW code \in {"exit1", "exit2", "SIGSEGV", "SIGPIPE"}, End(code) PROVE TurnOffInv'
  BY <1>2, <1>3, <1>7 DEF End, chosen, Offs, Shutdowns, Have, Has
<1>8. ASSUME OutputDies PROVE TurnOffInv'
  BY <1>7, <1>8 DEF OutputDies
<1>9. ASSUME NEW a \in {"reader", "button"}, TurnOff(a) PROVE TurnOffInv'
  <2>1. CASE StopRunning(a) \/ ClearOn(a)
    BY <1>6, <1>9, <2>1 DEF StopRunning, ClearOn, At, Actors, chosen, Offs, Shutdowns
  <2>2. CASE LogOff(a)
    <3>1. my_log => Offs' = Offs + 1 /\ Shutdowns' = Shutdowns
      <4>1. my_log => Offs' = Offs + 1
        BY <2>2, Count, OneLine DEF LogOff, Offs
      <4>2. my_log => Shutdowns' = Shutdowns + 0
        BY <2>2, Count, OneLine DEF LogOff, Shutdowns
      <4>3. my_log => Shutdowns \in Nat
        BY <1>2 DEF Have, Has
      <4>4. QED
        BY <4>1, <4>2, <4>3
    <3>2. /\ Have({"off_shutdown", "off_exit"})' = Have({"off_shutdown", "off_exit"}) + 1
          /\ Have({"off_exit"})' = Have({"off_exit"})
      BY <1>1, <1>9, <2>2 DEF AtOK, LogOff, At, GoTo, Have, Has, Actors
    <3>3. QED
      BY <1>2, <1>3, <2>2, <3>1, <3>2 DEF LogOff, At, chosen
  <2>3. CASE LogShutdown(a) /\ ~OutputDies
    <3>1. Write(<<"SHUTDOWN">>) /\ GoTo(a, "off_exit") /\ at[a] = "off_shutdown" /\ status = "running"
          /\ UNCHANGED <<chosen, status>>
      BY <2>3 DEF LogShutdown, At
    <3>2. my_log => Shutdowns' = Shutdowns + 1 /\ Offs' = Offs
      <4>1. my_log => Shutdowns' = Shutdowns + 1
        BY <3>1, Count, OneLine DEF Shutdowns
      <4>2. my_log => Offs' = Offs + 0
        BY <3>1, Count, OneLine DEF Offs
      <4>3. my_log => Offs \in Nat
        BY <1>2 DEF Have, Has
      <4>4. QED
        BY <4>1, <4>2, <4>3
    <3>3. /\ Have({"off_shutdown", "off_exit"})' = Have({"off_shutdown", "off_exit"})
          /\ Have({"off_exit"})' = Have({"off_exit"}) + 1
      BY <1>1, <1>9, <3>1 DEF AtOK, GoTo, Have, Has, Actors
    <3>4. QED
      BY <1>2, <1>3, <3>1, <3>2, <3>3 DEF chosen
  <2>4. CASE ExitZero(a)
    BY <1>2, <1>3, <1>9, <2>4 DEF ExitZero, At, End, chosen, Offs, Shutdowns, Have, Has
  <2>5. QED
    BY <1>8, <1>9, <2>1, <2>2, <2>3, <2>4 DEF TurnOff, LogShutdown
<1>10. CASE Main
  <2>1. CASE Connect \/ OpenSession \/ JoinReader
    BY <1>6, <2>1 DEF Connect, OpenSession, JoinReader, Move, Actors, chosen, Offs, Shutdowns
  <2>2. CASE Identify
    <3>1. my_log => Offs' = Offs + 0
      BY <2>2, Count, OneLine DEF Identify, Offs
    <3>2. my_log => Shutdowns' = Shutdowns + 0
      BY <2>2, Count, OneLine DEF Identify, Shutdowns
    <3>3. my_log => Offs \in Nat /\ Shutdowns \in Nat
      BY <1>2 DEF Have, Has
    <3>4. QED
      BY <1>6, <2>2, <3>1, <3>2, <3>3 DEF Identify, Actors, chosen
  <2>3. CASE CreateThreads
    <3>1. UNCHANGED <<log, my_log, status>> /\ at'["button"] = at["button"]
          /\ \/ at'["reader"] = at["reader"]
             \/ at["reader"] = "unborn" /\ at'["reader"] = "test_on"
      BY <1>1, <2>3 DEF BirthInv, AtOK, CreateThreads, Create, At, Actors, chosen
    <3>2. QED
      BY <1>2, <1>3, <1>4, <1>5, <3>1 DEF Offs, Shutdowns, Have, Has
  <2>4. CASE ConnectFails \/ OpenSessionFails \/ IdentifyCrashes \/ IdentifyDies
             \/ IdentifyFails \/ CreateFails
    BY <1>7, <1>8, <2>4 DEF ConnectFails, OpenSessionFails, IdentifyCrashes, IdentifyDies,
                            IdentifyFails, CreateFails
  <2>5. QED
    BY <1>10, <2>1, <2>2, <2>3, <2>4 DEF Main
<1>11. CASE Reader
  <2>1. CASE TestOn \/ ReadNothing
    BY <1>6, <2>1 DEF TestOn, ReadNothing, Move, At, Actors, chosen, Offs, Shutdowns
  <2>2. CASE Read \/ ScanEnds \/ ScanLine \/ ScanFinds
    BY <1>6, <2>2 DEF Read, ScanEnds, ScanLine, ScanFinds, At, Actors, chosen, Offs, Shutdowns
  <2>3. CASE Obey
    BY <1>6, <2>3 DEF Obey, At, Actors, chosen, Offs, Shutdowns
  <2>4. CASE LogLine
    <3>1. text \in Seq(Pieces) /\ text \in Seq(Pieces \cup {"ID", "SHUTDOWN"})
      BY ReaderData
    <3>2. text # <<"OFF">> /\ text # <<"SHUTDOWN">>
      BY <2>4, <3>1, OneLine DEF LogInv, LogLine, At
    <3>3. my_log => Offs' = Offs + 0
      BY <2>4, <3>1, <3>2, Count DEF LogLine, Offs
    <3>4. my_log => Shutdowns' = Shutdowns + 0
      BY <2>4, <3>1, <3>2, Count DEF LogLine, Shutdowns
    <3>5. my_log => Offs \in Nat /\ Shutdowns \in Nat
      BY <1>2 DEF Have, Has
    <3>6. QED
      BY <1>6, <2>4, <3>3, <3>4, <3>5 DEF LogLine, At, Actors, chosen
  <2>5. CASE ReadFails \/ ScanCrashes \/ LogToNull
    BY <1>7, <2>5 DEF ReadFails, ScanCrashes, LogToNull
  <2>6. QED
    BY <1>9, <1>11, <2>1, <2>2, <2>3, <2>4, <2>5 DEF Reader
<1>12. CASE Sensor
  <2>1. CASE Register
    <3>1. UNCHANGED <<log, my_log, status>> /\ at'["reader"] = at["reader"] /\ at'["button"] = "up"
      BY <1>1, <2>1 DEF AtOK, Register, Actors, chosen
    <3>2. at["button"] = "unborn"
      BY <2>1 DEF BirthInv, Register, At
    <3>3. QED
      BY <1>2, <1>3, <1>4, <1>5, <3>1, <3>2 DEF Offs, Shutdowns, Have, Has
  <2>2. ASSUME NEW from, NEW to, Move("sensor", from, to) PROVE TurnOffInv'
    BY <1>6, <2>2 DEF Move, Actors, chosen, Offs, Shutdowns
  <2>3. CASE TestRunning
    BY <2>2, <2>3 DEF TestRunning
  <2>4. CASE ConvertForLog \/ ConvertForOutput \/ ConvertForServer \/ ConvertForLogToo
    BY <2>2, <2>4 DEF ConvertForLog, ConvertForOutput, ConvertForServer, ConvertForLogToo, Convert
  <2>5. CASE CannotConvert
    BY <1>7, <2>5 DEF CannotConvert
  <2>6. CASE Report
    BY <1>6, <1>8, <2>6 DEF Report, Actors, chosen, Offs, Shutdowns
  <2>7. QED
    BY <1>12, <2>1, <2>3, <2>4, <2>5, <2>6 DEF Sensor
<1>13. CASE Press
  BY <1>6, <1>13 DEF Press, Move, At, Actors, chosen, Offs, Shutdowns
<1>14. CASE DamageSession \/ CrashInSession \/ Close
  <2>1. CASE CrashInSession
    BY <1>7, <2>1 DEF CrashInSession
  <2>2. CASE DamageSession \/ Close
    BY <1>2, <1>3, <2>2 DEF DamageSession, Close, chosen, Offs, Shutdowns, Have, Has
  <2>3. QED
    BY <1>14, <2>1, <2>2
<1>15. QED
  BY <1>4, <1>9, <1>10, <1>11, <1>12, <1>13, <1>14 DEF Next, Button, Ended

-----------------------------------------------------------------------------
(* What the reader reads and scans.                                        *)

\* Between reads, when the buffer is empty.
Empty == {"unborn", "test_on", "read", "done"}

\* Every other step leaves what has been read alone, and does not bring the
\* reader to a place before a read or to a line.
LEMMA ReaderStep ==
    ASSUME TypeInv, BirthInv, [Next]_vars, ~Read, ~ScanEnds, ~ScanLine, ~ScanFinds, ~Obey
    PROVE  /\ UNCHANGED <<script, reading>>
           /\ at'["reader"] = "obey" <=> at["reader"] = "obey"
           /\ at'["reader"] \in Empty => at["reader"] \in Empty
<1> DEFINE Goal == /\ UNCHANGED <<script, reading>>
                   /\ at'["reader"] = "obey" <=> at["reader"] = "obey"
                   /\ at'["reader"] \in Empty => at["reader"] \in Empty
<1> USE DEF Empty, chosen
<1>1. AtOK
  BY DEF TypeInv
<1>2. CASE UNCHANGED vars
  BY <1>2 DEF vars
<1>3. ASSUME NEW code, End(code) PROVE Goal
  BY <1>3 DEF End
<1>4. ASSUME OutputDies PROVE Goal
  BY <1>3, <1>4 DEF OutputDies
<1>5. ASSUME UNCHANGED <<script, reading>>, NEW a \in Actors, NEW place, GoTo(a, place),
             a # "reader" \/ (at["reader"] # "obey" /\ place # "obey"
                               /\ (place \in Empty => at["reader"] \in Empty))
      PROVE  Goal
  BY <1>1, <1>5 DEF AtOK, GoTo
<1>6. ASSUME NEW a \in {"reader", "button"}, TurnOff(a) PROVE Goal
  BY <1>3, <1>4, <1>5, <1>6 DEF TurnOff, StopRunning, ClearOn, LogOff, LogShutdown, ExitZero, At, Actors
<1>7. CASE Main
  <2>1. CASE Connect \/ OpenSession \/ JoinReader \/ Identify
    BY <1>5, <2>1 DEF Connect, OpenSession, JoinReader, Identify, Move, Actors
  <2>2. CASE CreateThreads
    BY <1>1, <2>2 DEF BirthInv, AtOK, CreateThreads, Create, At, Actors
  <2>3. CASE ConnectFails \/ OpenSessionFails \/ IdentifyCrashes \/ IdentifyDies
             \/ IdentifyFails \/ CreateFails
    BY <1>3, <1>4, <2>3 DEF ConnectFails, OpenSessionFails, IdentifyCrashes, IdentifyDies,
                            IdentifyFails, CreateFails
  <2>4. QED
    BY <1>7, <2>1, <2>2, <2>3 DEF Main
<1>8. CASE Reader
  <2>1. CASE TestOn \/ ReadNothing \/ LogLine
    BY <1>5, <2>1 DEF TestOn, ReadNothing, LogLine, Move, At, Actors
  <2>2. CASE ReadFails \/ ScanCrashes \/ LogToNull
    BY <1>3, <2>2 DEF ReadFails, ScanCrashes, LogToNull
  <2>3. QED
    BY <1>6, <1>8, <2>1, <2>2 DEF Reader
<1>9. CASE Sensor
  <2>1. CASE Register
    BY <1>1, <2>1 DEF AtOK, Register, Actors
  <2>2. ASSUME NEW from, NEW to, Move("sensor", from, to) PROVE Goal
    BY <1>5, <2>2 DEF Move, Actors
  <2>3. CASE TestRunning
    BY <2>2, <2>3 DEF TestRunning
  <2>4. CASE ConvertForLog \/ ConvertForOutput \/ ConvertForServer \/ ConvertForLogToo
    BY <2>2, <2>4 DEF ConvertForLog, ConvertForOutput, ConvertForServer, ConvertForLogToo, Convert
  <2>5. CASE CannotConvert
    BY <1>3, <2>5 DEF CannotConvert
  <2>6. CASE Report
    BY <1>4, <1>5, <2>6 DEF Report, Actors
  <2>7. QED
    BY <1>9, <2>1, <2>3, <2>4, <2>5, <2>6 DEF Sensor
<1>10. CASE Press
  BY <1>5, <1>10 DEF Press, Move, Actors
<1>11. CASE DamageSession \/ CrashInSession \/ Close
  BY <1>3, <1>11 DEF DamageSession, CrashInSession, Close
<1>12. QED
  BY <1>2, <1>6, <1>7, <1>8, <1>9, <1>10, <1>11 DEF Next, Button, Ended

\* A line is taken out of the buffer with its end.
LEMMA LineTaken ==
    ASSUME TypeInv, ScanLine
    PROVE  /\ text' \in Seq(Pieces) /\ buffer' \in Seq(Pieces)
           /\ buffer = Append(text', "newline") \o buffer'
           /\ ~Contains(text', "newline")
           /\ buffer' = <<>> \/ buffer'[Len(buffer')] = buffer[Len(buffer)]
<1>1. PICK k \in LineEnds :
         /\ \A j \in LineEnds : k <= j
         /\ text' = SubSeq(buffer, 1, k - 1)
         /\ buffer' = SubSeq(buffer, k + 1, Len(buffer))
  BY DEF ScanLine
<1>2. buffer \in Seq(Pieces) /\ k \in 1 .. Len(buffer) /\ buffer[k] = "newline" /\ Len(buffer) \in Nat
  BY ReaderData DEF LineEnds
<1>3. /\ text' \in Seq(Pieces) /\ Len(text') = k - 1
      /\ \A j \in 1 .. k - 1 : text'[j] = buffer[j]
  BY <1>1, <1>2
<1>4. /\ buffer' \in Seq(Pieces) /\ Len(buffer') = Len(buffer) - k
      /\ \A j \in 1 .. Len(buffer) - k : buffer'[j] = buffer[k + j]
  BY <1>1, <1>2
<1>5. SubSeq(buffer, 1, k) = Append(text', "newline")
  <2> DEFINE a == SubSeq(buffer, 1, k)
             b == Append(text', "newline")
  <2>1. a \in Seq(Pieces) /\ Len(a) = k /\ \A j \in 1 .. k : a[j] = buffer[j]
    BY <1>2
  <2>2. /\ b \in Seq(Pieces) /\ Len(b) = k
        /\ \A j \in 1 .. k : b[j] = IF j = k THEN "newline" ELSE text'[j]
    BY <1>2, <1>3 DEF Pieces
  <2> HIDE DEF a, b
  <2>3. ASSUME NEW j \in 1 .. k PROVE a[j] = b[j]
    <3>1. CASE j = k
      BY <1>2, <2>1, <2>2, <3>1
    <3>2. CASE j # k
      <4>1. j \in 1 .. k - 1
        BY <1>2, <3>2
      <4>2. QED
        BY <1>3, <2>1, <2>2, <3>2, <4>1
    <3>3. QED
      BY <3>1, <3>2
  <2>4. a = b
    BY <2>1, <2>2, <2>3, SeqEqual
  <2>5. QED
    BY <2>4 DEF a, b
<1>6. buffer = Append(text', "newline") \o buffer'
  <2>1. SubSeq(buffer, 1, k) \o SubSeq(buffer, k + 1, Len(buffer)) = buffer
    BY <1>2, CutAndJoin
  <2>2. QED
    BY <1>1, <1>5, <2>1
<1>7. ~Contains(text', "newline")
  <2>1. \A j \in 1 .. k - 1 : j \notin LineEnds
    BY <1>1, <1>2
  <2>2. \A j \in 1 .. k - 1 : text'[j] # "newline"
    BY <1>2, <1>3, <2>1 DEF LineEnds
  <2>3. QED
    BY <1>3, <2>2 DEF Contains
<1>8. buffer' = <<>> \/ buffer'[Len(buffer')] = buffer[Len(buffer)]
  <2>1. CASE k = Len(buffer)
    BY <1>4, <2>1
  <2>2. CASE k # Len(buffer)
    BY <1>2, <1>4, <2>2
  <2>3. QED
    BY <2>1, <2>2
<1>9. QED
  BY <1>3, <1>4, <1>6, <1>7, <1>8

\* A read goes on in the script.
LEMMA TextRead ==
    ASSUME TypeInv, Read
    PROVE  /\ SubSeq(script, 1, consumed') = SubSeq(script, 1, consumed) \o buffer'
           /\ SubSeq(script, 1, consumed) \in Seq(Pieces)
           /\ buffer' \in Seq(Pieces)
           /\ full' => cut'
           /\ ~cut' => ~cut /\ buffer'[Len(buffer')] = "newline"
<1> USE ArgumentsAssumption
<1>1. PICK n \in 1 .. BufferSize :
         /\ consumed + n <= Len(script)
         /\ consumed' = consumed + n
         /\ buffer' = SubSeq(script, consumed + 1, consumed + n)
         /\ full' = (n = BufferSize)
         /\ cut' = (cut \/ n = BufferSize \/ script[consumed + n] # "newline")
  BY DEF Read
<1>2. script \in Seq(Pieces) /\ consumed \in Nat /\ n \in Nat
  BY ReaderData
<1>3. /\ buffer' \in Seq(Pieces) /\ Len(buffer') = n
      /\ \A i \in 1 .. n : buffer'[i] = script[consumed + i]
  BY <1>1, <1>2
<1>4. buffer'[Len(buffer')] = script[consumed + n]
  BY <1>1, <1>2, <1>3
<1>5. SubSeq(script, 1, consumed) \o SubSeq(script, consumed + 1, consumed + n)
        = SubSeq(script, 1, consumed + n)
  BY <1>1, <1>2, GoesOn
<1>6. SubSeq(script, 1, consumed) \in Seq(Pieces)
  BY <1>1, <1>2
<1>7. SubSeq(script, 1, consumed') = SubSeq(script, 1, consumed) \o buffer'
  BY <1>1, <1>5
<1>8. (full' => cut') /\ (~cut' => ~cut /\ buffer'[Len(buffer')] = "newline")
  BY <1>1, <1>4
<1>9. QED
  BY <1>3, <1>6, <1>7, <1>8

LEMMA CutNext ==
    ASSUME TypeInv, BirthInv, CutInv, [Next]_vars
    PROVE  CutInv'
<1> USE DEF CutInv
<1>1. CASE Read
  BY <1>1, TextRead
<1>2. CASE ScanEnds \/ ScanFinds
  BY <1>2 DEF ScanEnds, ScanFinds
<1>3. CASE ScanLine
  <2>1. UNCHANGED <<full, cut>> /\ buffer # <<>>
    BY <1>3 DEF ScanLine, InText
  <2>2. QED
    BY <1>3, <2>1, LineTaken
<1>4. CASE Obey
  BY <1>4 DEF Obey
<1>5. CASE UNCHANGED reading
  BY <1>5 DEF reading
<1>6. QED
  BY <1>1, <1>2, <1>3, <1>4, <1>5, ReaderStep

\* Without a cut the scan does not run off the buffer.
LEMMA RunsOffCut == ASSUME TypeInv, CutInv, RunsOff PROVE cut
<1> SUFFICES ASSUME ~cut PROVE FALSE
  OBVIOUS
<1>1. buffer \in Seq(Pieces)
  BY ReaderData
<1>2. buffer # <<>> /\ buffer[Len(buffer)] = "newline" /\ LineEnds = {}
  BY DEF CutInv, RunsOff, InText
<1>3. Len(buffer) \in 1 .. Len(buffer)
  BY <1>1, <1>2
<1>4. QED
  BY <1>2, <1>3 DEF LineEnds

\* What was read, and whether LinesObeyed is about it.
Taken == SubSeq(script, 1, consumed)
Whole == ~cut /\ ~Contains(Taken, "eot")
NoEnds(lines) == \A k \in DOMAIN lines : ~Contains(lines[k], "newline")

LEMMA LinesObeyedIf ==
    LinesObeyed <=> (Whole => Joined(Scanned, "newline") \o buffer = Taken /\ NoEnds(Scanned))
BY DEF LinesObeyed, Whole, Taken, NoEnds

\* The lines scanned, with the one to be obeyed or without.
LEMMA ScannedIs ==
    ASSUME NEW done \in Seq(Seq(Pieces)), NEW line \in Seq(Pieces), NEW B \in BOOLEAN
    PROVE  done \o (IF B THEN <<line>> ELSE <<>>) = IF B THEN Append(done, line) ELSE done
BY OneMore

LEMMA NoEndsMore ==
    ASSUME NEW done \in Seq(Seq(Pieces)), NEW line \in Seq(Pieces),
           NoEnds(done), ~Contains(line, "newline")
    PROVE  NoEnds(Append(done, line))
<1> DEFINE more == Append(done, line)
<1>1. /\ DOMAIN more = 1 .. Len(done) + 1
      /\ \A k \in 1 .. Len(done) + 1 : more[k] = IF k = Len(done) + 1 THEN line ELSE done[k]
      /\ DOMAIN done = 1 .. Len(done) /\ Len(done) \in Nat
  OBVIOUS
<1> HIDE DEF more
<1>2. ASSUME NEW k \in 1 .. Len(done) + 1 PROVE ~Contains(more[k], "newline")
  <2>1. k = Len(done) + 1 \/ k \in 1 .. Len(done)
    BY <1>1
  <2>2. QED
    BY <1>1, <2>1 DEF NoEnds
<1>3. NoEnds(more)
  BY <1>1, <1>2 DEF NoEnds
<1>4. QED
  BY <1>3 DEF more

LEMMA LineNext ==
    ASSUME TypeInv, BirthInv, CutInv, LineInv, [Next]_vars
    PROVE  LineInv'
<1>1. AtOK /\ obeyed \in Seq(Seq(Pieces)) /\ text \in Seq(Pieces) /\ buffer \in Seq(Pieces)
      /\ "newline" \in Pieces
  BY ReaderData DEF TypeInv, Pieces
<1>2. /\ at["reader"] \in Empty => buffer = <<>>
      /\ Whole => Joined(Scanned, "newline") \o buffer = Taken /\ NoEnds(Scanned)
  BY LinesObeyedIf DEF LineInv, Empty
<1>3. ASSUME at'["reader"] \in Empty => buffer' = <<>>,
             Whole' => Joined(Scanned', "newline") \o buffer' = Taken' /\ NoEnds(Scanned')
      PROVE  LineInv'
  BY <1>3 DEF LineInv, Empty, LinesObeyed, Whole, Taken, NoEnds
<1>4. Scanned = IF at["reader"] = "obey" THEN Append(obeyed, text) ELSE obeyed
  BY <1>1, ScannedIs DEF Scanned
<1>5. Joined(obeyed, "newline") \in Seq(Pieces)
  BY <1>1, JoinedAppend
\* What was read follows what was obeyed: the buffer was empty.
<1>6. CASE Read
  <2>1. /\ Taken' = Taken \o buffer'
        /\ Taken \in Seq(Pieces) /\ buffer' \in Seq(Pieces)
        /\ ~cut' => ~cut
    BY <1>6, TextRead DEF Taken, Read, chosen
  <2>2. buffer = <<>> /\ Scanned = obeyed
    BY <1>2, <1>4, <1>6 DEF Read, At, Empty
  <2>3. at'["reader"] = "scan" /\ obeyed' = obeyed /\ text' = text
    BY <1>1, <1>6 DEF AtOK, Read, GoTo, Actors
  <2>4. Scanned' = obeyed
    BY <1>1, <2>3, OneMore DEF Scanned
  <2>5. Whole' => Whole
    <3> HIDE DEF Taken
    <3>1. Contains(Taken \o buffer', "eot") <=> Contains(Taken, "eot") \/ Contains(buffer', "eot")
      BY <2>1, ContainsConcat
    <3>2. Whole' = (~cut' /\ ~Contains(Taken', "eot"))
      BY DEF Whole, Taken
    <3>3. QED
      BY <2>1, <3>1, <3>2 DEF Whole
  <2>6. Whole => Joined(obeyed, "newline") = Taken /\ NoEnds(obeyed)
    <3> DEFINE j == Joined(obeyed, "newline")
    <3>1. j \in Seq(Pieces)
      BY <1>5
    <3> HIDE DEF j
    <3>2. j \o <<>> = j
      BY <3>1
    <3>3. Whole => j \o <<>> = Taken /\ NoEnds(obeyed)
      BY <1>2, <2>2 DEF j
    <3>4. QED
      BY <3>2, <3>3 DEF j
  <2>7. Whole' => Joined(Scanned', "newline") \o buffer' = Taken' /\ NoEnds(Scanned')
    <3> HIDE DEF Taken, Whole, Scanned
    <3>1. QED
      BY <2>1, <2>4, <2>5, <2>6
  <2>8. QED
    BY <1>3, <2>3, <2>7 DEF Empty
\* Only what follows a ^D is left out.
<1>7. CASE ScanEnds
  <2>1. Taken' = Taken /\ cut' = cut /\ obeyed' = obeyed /\ text' = text /\ buffer' = <<>>
    BY <1>7 DEF ScanEnds, Taken, chosen
  <2>2. at["reader"] = "scan" /\ at'["reader"] = "test_on"
    BY <1>1, <1>7 DEF AtOK, ScanEnds, At, GoTo, Actors
  <2>3. Scanned = obeyed /\ Scanned' = obeyed
    BY <1>1, <1>4, <2>1, <2>2, OneMore DEF Scanned
  <2>4. Whole => buffer = <<>>
    <3> SUFFICES ASSUME Whole, buffer # <<>> PROVE FALSE
      OBVIOUS
    <3>1. Head(buffer) = "eot"
      BY <1>7 DEF ScanEnds, InText
    <3>2. 1 \in 1 .. Len(buffer) /\ buffer[1] = "eot"
      BY <1>1, <3>1
    <3>3. Contains(buffer, "eot")
      BY <3>2 DEF Contains
    <3> DEFINE j == Joined(obeyed, "newline")
    <3>4. Taken = j \o buffer
      BY <1>2, <2>3
    <3>5. j \in Seq(Pieces)
      BY <1>5
    <3> HIDE DEF j, Taken
    <3>6. Contains(j \o buffer, "eot")
      BY <1>1, <3>3, <3>5, ContainsConcat
    <3>7. QED
      BY <3>4, <3>6 DEF Whole
  <2>5. Whole' = Whole
    BY <2>1 DEF Whole, Taken
  <2>6. Whole' => Joined(Scanned', "newline") \o buffer' = Taken' /\ NoEnds(Scanned')
    <3> HIDE DEF Taken, Whole, Scanned
    <3>1. QED
      BY <1>2, <2>1, <2>3, <2>4, <2>5
  <2>7. QED
    BY <1>3, <2>1, <2>6
\* The first line of the buffer becomes the last one scanned.
<1>8. CASE ScanLine
  <2>1. Taken' = Taken /\ cut' = cut /\ obeyed' = obeyed
    BY <1>8 DEF ScanLine, Taken, chosen
  <2>2. at["reader"] = "scan" /\ at'["reader"] = "obey"
    BY <1>1, <1>8 DEF AtOK, ScanLine, At, GoTo, Actors
  <2>3. /\ text' \in Seq(Pieces) /\ buffer' \in Seq(Pieces)
        /\ buffer = Append(text', "newline") \o buffer'
        /\ ~Contains(text', "newline")
    BY <1>8, LineTaken
  <2>4. Scanned = obeyed /\ Scanned' = Append(obeyed, text')
    BY <1>1, <1>4, <2>1, <2>2, <2>3, OneMore DEF Scanned
  <2>5. Joined(Append(obeyed, text'), "newline") \o buffer' = Joined(obeyed, "newline") \o buffer
    <3> DEFINE j == Joined(obeyed, "newline")
               l == Append(text', "newline")
    <3>1. Joined(Append(obeyed, text'), "newline") = j \o l
      BY <1>1, <2>3, JoinedAppend
    <3>2. j \in Seq(Pieces) /\ l \in Seq(Pieces)
      BY <1>1, <1>5, <2>3
    <3> HIDE DEF j, l
    <3>3. (j \o l) \o buffer' = j \o (l \o buffer')
      BY <2>3, <3>2, ConcatAssociative
    <3>4. l \o buffer' = buffer
      BY <2>3 DEF l
    <3>5. QED
      BY <3>1, <3>3, <3>4 DEF j
  <2>6. Whole' = Whole
    BY <2>1 DEF Whole, Taken
  <2>7. NoEnds(obeyed) => NoEnds(Append(obeyed, text'))
    BY <1>1, <2>3, NoEndsMore
  <2>8. Whole' => Joined(Scanned', "newline") \o buffer' = Taken' /\ NoEnds(Scanned')
    <3> HIDE DEF Taken, Whole, Scanned, NoEnds
    <3>1. QED
      BY <1>2, <2>1, <2>4, <2>5, <2>6, <2>7
  <2>9. QED
    BY <1>3, <2>2, <2>8 DEF Empty
<1>9. CASE ScanFinds
  <2>1. cut /\ cut' = cut
    BY <1>9, RunsOffCut DEF ScanFinds
  <2>2. QED
    BY <1>3, <1>9, <2>1 DEF ScanFinds, Whole
\* The last one scanned is obeyed.
<1>10. CASE Obey
  <2>1. Taken' = Taken /\ cut' = cut /\ obeyed' = Append(obeyed, text) /\ text' = text
        /\ buffer' = buffer
    BY <1>10 DEF Obey, Taken, chosen
  <2>2. at["reader"] = "obey" /\ at'["reader"] \in {"off_running", "log"}
    BY <1>1, <1>10 DEF AtOK, Obey, At, GoTo, Actors
  <2>3. Scanned' = Scanned
    <3>1. Append(obeyed, text) \in Seq(Seq(Pieces))
      BY <1>1
    <3> DEFINE more == Append(obeyed, text)
    <3> HIDE DEF more
    <3>2. more \o <<>> = more
      BY <3>1 DEF more
    <3>3. Scanned' = more \o <<>>
      BY <2>1, <2>2 DEF Scanned, more
    <3>4. QED
      BY <1>4, <2>2, <3>2, <3>3 DEF more
  <2>4. Whole' = Whole
    BY <2>1 DEF Whole, Taken
  <2>5. Whole' => Joined(Scanned', "newline") \o buffer' = Taken' /\ NoEnds(Scanned')
    <3> HIDE DEF Taken, Whole, Scanned
    <3>1. QED
      BY <1>2, <2>1, <2>3, <2>4
  <2>6. QED
    BY <1>3, <2>2, <2>5 DEF Empty
<1>11. CASE ~Read /\ ~ScanEnds /\ ~ScanLine /\ ~ScanFinds /\ ~Obey
  <2>1. /\ UNCHANGED <<script, reading>>
        /\ at'["reader"] = "obey" <=> at["reader"] = "obey"
        /\ at'["reader"] \in Empty => at["reader"] \in Empty
    BY <1>11, ReaderStep
  <2>2. UNCHANGED <<Taken, buffer, obeyed, text, cut>>
    BY <2>1 DEF reading, Taken
  <2>3. Scanned' = Scanned
    BY <2>1, <2>2 DEF Scanned
  <2>4. Whole' = Whole
    BY <2>2 DEF Whole, Taken
  <2>5. Whole' => Joined(Scanned', "newline") \o buffer' = Taken' /\ NoEnds(Scanned')
    <3> HIDE DEF Taken, Whole, Scanned
    <3>1. QED
      BY <1>2, <2>2, <2>3, <2>4
  <2>6. QED
    BY <1>2, <1>3, <2>1, <2>2, <2>5
<1>12. QED
  BY <1>6, <1>7, <1>8, <1>9, <1>10, <1>11

-----------------------------------------------------------------------------
(* How the program ends.                                                   *)

\* What the reason for each end is.
Segv ==
    \/ cut
    \/ ~my_log /\ (at["main"] = "identify" \/ StartsWith("LOG"))
    \/ Secure /\ \E a, b \in Actors : a # b /\ InCall(a) /\ InCall(b)
Exit1 ==
    \/ channel = "closed" \/ session = "damaged"
    \/ at["main"] \in {"create0", "create1"}
    \/ at["sensor"] = "no_scale" /\ ToF
Exit2 == Networked /\ \A a \in {"reader", "sensor"} : at[a] = "unborn"

LEMMA CrashNext ==
    ASSUME TypeInv, BirthInv, CutInv, CrashInv, [Next]_vars
    PROVE  CrashInv'
<1>1. AtOK /\ obeyed \in Seq(Seq(Pieces)) /\ text \in Seq(Pieces)
  BY ReaderData DEF TypeInv
<1>2. /\ at["sensor"] \in {"log_C", "out_C"} /\ scale = "F" => ToF
      /\ at["sensor"] = "no_scale" => ToF
  BY DEF CrashInv
<1>3. CASE UNCHANGED vars
  BY <1>3 DEF CrashInv, CrashCauses, ToF, vars, chosen, connection, shared, reading,
              StartsWith, InCall, Networked, Secure
<1>4. status = "running" \/ UNCHANGED vars
  BY Running
\* The process ends for a reason.
<1>5. ASSUME NEW code, End(code),
             code = "SIGSEGV" => Segv, code = "exit1" => Exit1, code = "exit2" => Exit2
      PROVE  CrashInv'
  <2>1. UNCHANGED <<chosen, connection, shared, reading, at, log, late>> /\ status' = code
    BY <1>5 DEF End
  <2>2. ToF' = ToF /\ Segv' = Segv /\ Exit1' = Exit1 /\ Exit2' = Exit2
    BY <2>1 DEF ToF, Segv, Exit1, Exit2, chosen, connection, shared, reading,
                StartsWith, InCall, Networked, Secure
  <2>3. CrashCauses'
    BY <1>5, <2>1, <2>2 DEF CrashCauses, Segv, Exit1, Exit2, ToF
  <2>4. QED
    BY <1>2, <2>1, <2>2, <2>3 DEF CrashInv, shared
<1>6. ASSUME OutputDies PROVE CrashInv'
  BY <1>5, <1>6 DEF OutputDies
\* The process goes on.
<1>7. ASSUME status' = status, ToF => ToF',
             at'["sensor"] \in {"log_C", "out_C"} /\ scale' = "F" => ToF',
             at'["sensor"] = "no_scale" => ToF'
      PROVE  CrashInv'
  BY <1>3, <1>4, <1>7 DEF CrashInv, CrashCauses
<1>8. ASSUME UNCHANGED <<status, obeyed, scale>>, at'["sensor"] = at["sensor"] PROVE CrashInv'
  BY <1>2, <1>7, <1>8 DEF ToF
<1>9. ASSUME UNCHANGED <<status, obeyed, scale>>, NEW a \in Actors, a # "sensor", NEW place, GoTo(a, place)
      PROVE  CrashInv'
  BY <1>1, <1>8, <1>9 DEF AtOK, GoTo
<1>10. ASSUME NEW a \in {"reader", "button"}, TurnOff(a) PROVE CrashInv'
  BY <1>5, <1>6, <1>9, <1>10 DEF TurnOff, StopRunning, ClearOn, LogOff, LogShutdown, ExitZero,
                                 Actors, reading, shared
<1>11. CASE Main
  <2>1. CASE Connect \/ OpenSession \/ JoinReader \/ Identify
    BY <1>9, <2>1 DEF Connect, OpenSession, JoinReader, Identify, Move, Actors, reading, shared
  <2>2. CASE CreateThreads
    BY <1>1, <1>2, <1>7, <2>2 DEF AtOK, CreateThreads, Create, Actors, reading, shared, ToF
  <2>3. CASE ConnectFails \/ OpenSessionFails \/ IdentifyFails
    BY <1>5, <2>3 DEF ConnectFails, OpenSessionFails, IdentifyFails, BirthInv, Exit2, At
  <2>4. CASE IdentifyCrashes
    BY <1>5, <2>4 DEF IdentifyCrashes, Segv, At
  <2>5. CASE CreateFails
    BY <1>5, <2>5 DEF CreateFails, Exit1, At
  <2>6. CASE IdentifyDies
    BY <1>6, <2>6 DEF IdentifyDies
  <2>7. QED
    BY <1>11, <2>1, <2>2, <2>3, <2>4, <2>5, <2>6 DEF Main
<1>12. CASE Reader
  <2>1. CASE TestOn \/ ReadNothing \/ LogLine
    BY <1>9, <2>1 DEF TestOn, ReadNothing, LogLine, Move, Actors, reading, shared
  <2>2. CASE Read \/ ScanEnds \/ ScanLine \/ ScanFinds
    BY <1>9, <2>2 DEF Read, ScanEnds, ScanLine, ScanFinds, Actors, shared
  <2>3. CASE ReadFails
    BY <1>5, <2>3 DEF ReadFails, Exit1
  <2>4. CASE ScanCrashes
    BY <1>5, <2>4, RunsOffCut DEF ScanCrashes, Segv
  <2>5. CASE LogToNull
    BY <1>5, <2>5 DEF LogToNull, Segv
  \* Only the line that sets the scale to F does.
  <2>6. CASE Obey
    <3>1. obeyed' = Append(obeyed, text) /\ scale' = NewScale /\ status' = status
          /\ at'["sensor"] = at["sensor"]
      BY <1>1, <2>6 DEF AtOK, Obey, GoTo, Actors
    <3>2. ASSUME NEW line, Contains(obeyed, line) \/ line = text PROVE Contains(obeyed', line)
      <4>1. Len(obeyed) \in Nat /\ Len(obeyed') = Len(obeyed) + 1
            /\ obeyed'[Len(obeyed) + 1] = text /\ \A k \in 1 .. Len(obeyed) : obeyed'[k] = obeyed[k]
        BY <1>1, <3>1
      <4>2. Len(obeyed) + 1 \in 1 .. Len(obeyed')
        BY <4>1
      <4>3. QED
        BY <3>2, <4>1, <4>2 DEF Contains
    <3>3. ToF => ToF'
      BY <3>2 DEF ToF
    <3>4. text = <<"SCALE=", "F">> => ToF'
      BY <3>2 DEF ToF
    <3>5. scale' = "F" => scale = "F" \/ text = <<"SCALE=", "F">>
      BY <3>1 DEF NewScale
    <3>6. QED
      BY <1>2, <1>7, <3>1, <3>3, <3>4, <3>5
  <2>7. QED
    BY <1>10, <1>12, <2>1, <2>2, <2>3, <2>4, <2>5, <2>6 DEF Reader
<1>13. CASE Sensor
  <2>1. CASE Register
    BY <1>1, <1>7, <2>1 DEF AtOK, Register, Actors, reading, shared, ToF
  <2>2. ASSUME NEW from, NEW to, Move("sensor", from, to),
               to \in {"log_C", "out_C"} => scale # "F",
               to = "no_scale" => from \in {"log_C", "out_C"} /\ scale = "F"
        PROVE  CrashInv'
    <3>1. UNCHANGED <<status, obeyed, scale>> /\ at["sensor"] = from /\ at'["sensor"] = to
      BY <1>1, <2>2 DEF AtOK, Move, At, GoTo, Actors, reading, shared
    <3>2. QED
      BY <1>2, <1>7, <2>2, <3>1 DEF ToF
  <2>3. CASE TestRunning
    BY <2>2, <2>3 DEF TestRunning, FirstReport
  <2>4. ASSUME NEW at_F, NEW at_C \in {"log_C", "out_C"}, NEW next \in {"log_F", "out_F", "out"},
               Convert(at_F, at_C, next)
        PROVE  CrashInv'
    <3>1. scale \in {"F", "C"}
      BY ReaderData
    <3>2. QED
      BY <2>2, <2>4, <3>1 DEF Convert
  <2>5. CASE ConvertForLog \/ ConvertForOutput \/ ConvertForServer \/ ConvertForLogToo
    BY <2>4, <2>5 DEF ConvertForLog, ConvertForOutput, ConvertForServer, ConvertForLogToo
  <2>6. CASE CannotConvert
    BY <1>2, <1>5, <2>6 DEF CannotConvert, At, Exit1
  <2>7. CASE Report
    <3>1. CASE OutputDies
      BY <1>6, <3>1
    <3>2. CASE ~OutputDies
      BY <1>1, <1>7, <2>7, <3>2 DEF AtOK, Report, GoTo, Actors, reading, shared, ToF
    <3>3. QED
      BY <3>1, <3>2
  <2>8. QED
    BY <1>13, <2>1, <2>3, <2>5, <2>6, <2>7 DEF Sensor
<1>14. CASE Press
  BY <1>9, <1>14 DEF Press, Move, Actors, reading, shared
<1>15. CASE DamageSession \/ Close
  BY <1>8, <1>15 DEF DamageSession, Close, reading, shared
<1>16. CASE CrashInSession
  BY <1>5, <1>16 DEF CrashInSession, CallsMeet, Segv
<1>17. QED
  BY <1>3, <1>10, <1>11, <1>12, <1>13, <1>14, <1>15, <1>16 DEF Next, Button, Ended

-----------------------------------------------------------------------------
(* The theorems.                                                           *)

LEMMA Invariant == Spec => []IInv
<1>1. Init => IInv
  <2> SUFFICES ASSUME Init PROVE IInv
    OBVIOUS
  <2>1. TypeInv
    BY TypeInit
  <2>2. \A a \in Actors : at[a] = IF a # "main" THEN "unborn"
                                  ELSE IF Networked THEN "connect" ELSE "create0"
    BY DEF Init
  <2>3. BirthInv
    BY <2>2 DEF BirthInv, Actors
  <2>4. LateInv
    BY <2>2 DEF LateInv, OneLateReport, Init
  <2>5. /\ at["reader"] = "unborn" /\ at["button"] = "unborn" /\ at["sensor"] = "unborn"
        /\ log = <<>> /\ obeyed = <<>> /\ buffer = <<>> /\ cut = FALSE /\ full = FALSE
        /\ status = "running" /\ consumed = 0
    BY <2>2 DEF Init, Actors
  <2>6. <<>> \o <<>> = <<>> /\ <<>> \in Seq(Pieces)
    OBVIOUS
  <2>7. LogInv
    <3>1. Without(log, OwnLines) = <<>>
      BY <2>5, WithoutEmpty
    <3>2. LogKept
      BY <2>5, <2>6, <3>1 DEF LogKept, TurnOffPlaces
    <3>3. QED
      BY <2>5, <3>2 DEF LogInv, TurnOffPlaces
  <2>8. TurnOffInv
    BY <2>5, TimesEmpty DEF TurnOffInv, Have, Has
  <2>9. CutInv
    BY <2>5 DEF CutInv
  <2>10. LineInv
    <3>1. Scanned = <<>>
      BY <2>5, <2>6 DEF Scanned
    <3>2. Joined(Scanned, "newline") \o buffer = <<>>
      BY <2>5, <2>6, <3>1, JoinedEmpty
    <3>3. SubSeq(script, 1, consumed) = <<>>
      <4>1. script \in Seq(Pieces)
        BY <2>1, ReaderData
      <4>2. QED
        BY <2>5, <4>1
    <3>4. DOMAIN Scanned = {}
      BY <3>1
    <3>5. QED
      BY <2>5, <3>2, <3>3, <3>4 DEF LineInv, LinesObeyed
  <2>11. CrashInv
    BY <2>5 DEF CrashInv, CrashCauses
  <2>12. QED
    BY <2>1, <2>3, <2>4, <2>7, <2>8, <2>9, <2>10, <2>11 DEF IInv
<1>2. IInv /\ [Next]_vars => IInv'
  <2> SUFFICES ASSUME IInv, [Next]_vars PROVE IInv'
    OBVIOUS
  <2>1. TypeInv /\ BirthInv /\ LateInv /\ LogInv /\ TurnOffInv /\ CutInv /\ LineInv /\ CrashInv
    BY DEF IInv
  <2>2. TypeInv' /\ BirthInv'
    BY <2>1, TypeNext, BirthNext
  <2>3. LateInv' /\ TurnOffInv' /\ CutInv'
    BY <2>1, LateNext, TurnOffNext, CutNext
  <2>4. LogInv' /\ LineInv' /\ CrashInv'
    BY <2>1, <2>2, LogNext, LineNext, CrashNext
  <2>5. QED
    BY <2>2, <2>3, <2>4 DEF IInv
<1>3. QED
  BY <1>1, <1>2, PTL DEF Spec

\* Every variable keeps its type, and every thread is at one of its places.
THEOREM TypeCorrect == Spec => []TypeOK
<1>1. IInv => TypeOK
  BY DEF IInv, TypeInv
<1>2. QED
  BY <1>1, Invariant, PTL

\* The sensor thread makes at most the report that was under way when running
\* became 0.
THEOREM AtMostOneLate == Spec => []OneLateReport
<1>1. IInv => OneLateReport
  BY DEF IInv, LateInv
<1>2. QED
  BY <1>1, Invariant, PTL

\* The reader obeys every line it gets whole, once and in order.
THEOREM AllLinesObeyed == Spec => []LinesObeyed
<1>1. IInv => LinesObeyed
  BY DEF IInv, LineInv
<1>2. QED
  BY <1>1, Invariant, PTL

\* The log has the lines that were obeyed, and no others but the program's own.
\* It ends without the last one, when that is no OFF, only by the button.
THEOREM LogIsTrue == Spec => []LogFollows
<1>1. IInv => LogFollows
  <2>1. SUFFICES ASSUME IInv PROVE LogFollows
    OBVIOUS
  <2>2. LogKept /\ (at["reader"] \in TurnOffPlaces => text = <<"OFF">>)
    BY <2>1 DEF IInv, LogInv
  <2>3. status = "exit0" => at["reader"] = "off_exit" \/ at["button"] = "off_exit"
    BY <2>1 DEF IInv, TurnOffInv
  <2>4. ASSUME status = "exit0", text # <<"OFF">> PROVE at["button"] = "off_exit"
    BY <2>2, <2>3, <2>4 DEF TurnOffPlaces
  <2>5. QED
    BY <2>2, <2>4 DEF LogFollows, LogKept
<1>2. QED
  BY <1>1, Invariant, PTL

\* A normal end is announced in the log by every actor that got through
\* turn_off, and by no more than were in it.
THEOREM EndAnnounced == Spec => []ShutdownLogged
<1>1. IInv => ShutdownLogged
  <2> SUFFICES ASSUME IInv, status = "exit0", my_log PROVE ShutdownLogged
    BY DEF ShutdownLogged
  <2>1. /\ Offs = Have({"off_shutdown", "off_exit"}) /\ Shutdowns = Have({"off_exit"})
        /\ at["reader"] = "off_exit" \/ at["button"] = "off_exit"
    BY DEF IInv, TurnOffInv, Offs, Shutdowns
  <2> DEFINE in == {a \in {"reader", "button"} : at[a] \in TurnOffPlaces}
  <2>2. Shutdowns \in 1 .. Offs
    BY <2>1 DEF Have, Has
  <2>3. Cardinality(in) = Has(TurnOffPlaces, "reader") + Has(TurnOffPlaces, "button")
    BY Both DEF Has
  <2>4. Offs <= Cardinality(in)
    BY <2>1, <2>3 DEF Have, Has, TurnOffPlaces
  <2>5. QED
    BY <2>2, <2>4 DEF ShutdownLogged, Offs, Shutdowns
<1>2. QED
  BY <1>1, Invariant, PTL

\* The process crashes, or ends with 1 or 2, for no other reason than those named.
THEOREM EndsExplained == Spec => []CrashCauses
<1>1. IInv => CrashCauses
  BY DEF IInv, CrashInv
<1>2. QED
  BY <1>1, Invariant, PTL

=============================================================================
