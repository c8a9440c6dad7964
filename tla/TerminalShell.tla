--------------------------- MODULE TerminalShell ----------------------------
(***************************************************************************)
(* project1a/lab1a.c: the terminal in raw mode; without --shell an echo,   *)
(* with it a loop between the keyboard and a shell; and the exit handler,  *)
(* which resets the terminal and waits for the shell.  The terminal itself *)
(* is taken not to fail.                                                   *)
(***************************************************************************)
EXTENDS Texts

CONSTANTS
    Scripts,     \* all that may be typed, as sequences of bytes
    Outputs,     \* all that the shell may write
    BufferSize,  \* 256 in the program: how much one read returns at most
    PipeSize     \* how much a pipe holds

\* ^D, ^C, the two ends of a line, and anything else.
Bytes == {"eot", "etx", "cr", "nl", "x"}

ASSUME TerminalAssumption ==
    /\ Scripts \subseteq Seq(Bytes) /\ Outputs \subseteq Seq(Bytes)
    /\ BufferSize \in Nat \ {0} /\ PipeSize \in Nat \ {0}

VARIABLES
    shell,         \* --shell was given: chosen once, as is
    script,        \* what will be typed
    typed,         \* how much of it has been read
    at,            \* the program's place
    buffer,        \* what is left of its buffer
    revents,       \* what the last poll found
    code,          \* what exit was called with
    terminal,      \* "cooked" or "raw"
    echo, screen,  \* what was shown of the keys and of the shell's output
    input,         \* whether the program has its end of to_child_pip open
    reported,      \* the line SHELL EXIT was written
    to_child_pip, to_parent_pip,
    child,         \* "none" before fork, "running", or how it ended
    given, wrote   \* history: all that was written to the shell and by it

loopVars == <<typed, buffer, revents, code, terminal, echo, screen, input, reported>>
childVars == <<to_child_pip, to_parent_pip, child, given, wrote>>
vars == <<shell, script, at, loopVars, childVars>>

Init ==
    /\ shell \in BOOLEAN
    /\ script \in Scripts
    /\ typed = 0
    /\ at = "start"
    /\ buffer = <<>>
    /\ revents = {}
    /\ code = 0
    /\ terminal = "cooked"
    /\ echo = <<>> /\ screen = <<>>
    /\ input = TRUE
    /\ reported = FALSE
    /\ to_child_pip = <<>> /\ to_parent_pip = <<>>
    /\ child = "none"
    /\ given = <<>> /\ wrote = <<>>

ChildDead == child \in {"exited", "killed"}
Ended == at \in {"exit0", "exit1"}
ExitPlace(c) == IF c = 0 THEN "exit0" ELSE "exit1"
Newline(b) == IF b \in {"cr", "nl"} THEN "nl" ELSE b

\* Only the program's place changes.
Move(from, to) ==
    /\ at = from
    /\ at' = to
    /\ UNCHANGED <<shell, script, loopVars, childVars>>

-----------------------------------------------------------------------------
NotATerminal == Move("start", "exit1")

SetTerminal ==
    /\ at = "start"
    /\ at' = IF shell THEN "fork" ELSE "read"
    /\ terminal' = "raw"
    /\ UNCHANGED <<shell, script, typed, buffer, revents, code, echo, screen, input, reported, childVars>>

\* Mutant: the handler is not registered.
Exit_NoHandler(c) ==
    /\ at' = ExitPlace(c)
    /\ code' = c
    /\ UNCHANGED <<shell, script, typed, buffer, revents, terminal, echo, screen, input, reported, childVars>>

\* exit runs restore_terminal_mode: first the terminal.
Exit(c) ==
    /\ at' = "wait"
    /\ code' = c
    /\ terminal' = "cooked"
    /\ UNCHANGED <<shell, script, typed, buffer, revents, echo, screen, input, reported, childVars>>

\* Then, with --shell, the shell.  One that ended by itself is reported and
\* makes the program end with 0, one that was killed is not and does not.
WaitForChild ==
    /\ at = "wait"
    /\ shell /\ child # "none" => ChildDead
    /\ at' = IF shell /\ child = "exited" THEN "exit0"
             ELSE IF shell /\ child = "none" THEN "exit1"
             ELSE ExitPlace(code)
    /\ reported' = (shell /\ child = "exited")
    /\ UNCHANGED <<shell, script, typed, buffer, revents, code, terminal, echo, screen, input, childVars>>

-----------------------------------------------------------------------------
(* Without --shell: read_write.                                            *)

\* Mutant: every read is taken to fill the buffer.
ReadBytes_Full(from, to) ==
    /\ at = from
    /\ at' = to
    /\ \E n \in 1 .. BufferSize :
          /\ typed + n <= Len(script)
          /\ buffer' = SubSeq(script, typed + 1, typed + n)
    /\ typed' = typed + BufferSize
    /\ UNCHANGED <<shell, script, revents, code, terminal, echo, screen, input, reported, childVars>>

\* A read of the keyboard.
ReadBytes(from, to) ==
    /\ at = from
    /\ at' = to
    /\ \E n \in 1 .. BufferSize :
          /\ typed + n <= Len(script)
          /\ typed' = typed + n
          /\ buffer' = SubSeq(script, typed + 1, typed + n)
    /\ UNCHANGED <<shell, script, revents, code, terminal, echo, screen, input, reported, childVars>>

Read == ReadBytes("read", "echo")

EchoByte ==
    /\ at = "echo"
    /\ buffer # <<>> /\ Head(buffer) # "eot"
    /\ echo' = Append(echo, Newline(Head(buffer)))
    /\ buffer' = Tail(buffer)
    /\ UNCHANGED <<shell, script, typed, at, revents, code, terminal, screen, input, reported, childVars>>

EchoEnds == at = "echo" /\ buffer # <<>> /\ Head(buffer) = "eot" /\ Exit(0)
EchoDone == buffer = <<>> /\ Move("echo", "read")

-----------------------------------------------------------------------------
(* With --shell: main's loop.                                              *)

Fork ==
    /\ at = "fork"
    /\ \/ /\ at' = "poll"
          /\ child' = "running"
          /\ UNCHANGED <<shell, script, loopVars, to_child_pip, to_parent_pip, given, wrote>>
       \/ Exit(1)

\* poll waits until there is something to tell.
Poll ==
    /\ at = "poll"
    /\ \E keys \in SUBSET {"keys_in"} :
          /\ keys # {} => typed < Len(script)
          /\ revents' = keys \cup (IF to_parent_pip # <<>> THEN {"pipe_in"} ELSE {})
                             \cup (IF ChildDead THEN {"pipe_hup"} ELSE {})
    /\ revents' # {}
    /\ at' = "keys"
    /\ UNCHANGED <<shell, script, typed, buffer, code, terminal, echo, screen, input, reported, childVars>>

ReadKeys == "keys_in" \in revents /\ ReadBytes("keys", "give")
NoKeys == "keys_in" \notin revents /\ Move("keys", "pipe")

NextKey(b) ==
    /\ at = "give"
    /\ buffer # <<>>
    /\ Head(buffer) = b
    /\ buffer' = Tail(buffer)
    /\ UNCHANGED <<shell, script, typed, at, revents, code, terminal, screen, reported>>

\* Mutant: ^D ends the program instead of the shell's input.
EndOfInput_Exit == at = "give" /\ buffer # <<>> /\ Head(buffer) = "eot" /\ Exit(0)

EndOfInput ==
    /\ NextKey("eot")
    /\ input' = FALSE
    /\ UNCHANGED <<echo, childVars>>

\* SIGINT ends the shell, unless it is gone or catches it.
Interrupt ==
    /\ NextKey("etx")
    /\ child' \in {child} \cup IF child = "running" THEN {"killed"} ELSE {}
    /\ UNCHANGED <<echo, input, to_child_pip, to_parent_pip, given, wrote>>

\* A key is shown first and then written to the shell, which may have to wait:
\* "written" is the place between.
EchoKey ==
    /\ at = "give"
    /\ buffer # <<>> /\ Head(buffer) \notin {"eot", "etx"}
    /\ echo' = Append(echo, Newline(Head(buffer)))
    /\ at' = "write"
    /\ UNCHANGED <<shell, script, typed, buffer, revents, code, terminal, screen, input, reported, childVars>>

\* Mutant: CR is handed on as it is.
GiveKey_Verbatim ==
    /\ at = "write" /\ input /\ child = "running"
    /\ Len(to_child_pip) < PipeSize
    /\ to_child_pip' = Append(to_child_pip, Head(buffer))
    /\ given' = Append(given, Head(buffer))
    /\ buffer' = Tail(buffer)
    /\ at' = "give"
    /\ UNCHANGED <<shell, script, typed, revents, code, terminal, echo, screen, input, reported,
                   to_parent_pip, child, wrote>>

GiveKey ==
    /\ at = "write" /\ input /\ child = "running"
    /\ Len(to_child_pip) < PipeSize
    /\ to_child_pip' = Append(to_child_pip, Newline(Head(buffer)))
    /\ given' = Append(given, Newline(Head(buffer)))
    /\ buffer' = Tail(buffer)
    /\ at' = "give"
    /\ UNCHANGED <<shell, script, typed, revents, code, terminal, echo, screen, input, reported,
                   to_parent_pip, child, wrote>>

\* The pipe was closed for ^D, or SIGPIPE tells that the shell is gone.
GiveKeyFails == at = "write" /\ (~input \/ ChildDead) /\ Exit(1)

KeysDone == buffer = <<>> /\ Move("give", "pipe")

\* Mutant: only the first byte of what was read is shown.
ShowOutput_First ==
    /\ at = "pipe" /\ "pipe_in" \in revents
    /\ \E n \in 1 .. BufferSize :
          /\ n <= Len(to_parent_pip)
          /\ screen' = Append(screen, Head(to_parent_pip))
          /\ to_parent_pip' = SubSeq(to_parent_pip, n + 1, Len(to_parent_pip))
    /\ at' = "hup"
    /\ UNCHANGED <<shell, script, typed, buffer, revents, code, terminal, echo, input, reported,
                   to_child_pip, child, given, wrote>>

ShowOutput ==
    /\ at = "pipe" /\ "pipe_in" \in revents
    /\ \E n \in 1 .. BufferSize :
          /\ n <= Len(to_parent_pip)
          /\ screen' = screen \o SubSeq(to_parent_pip, 1, n)
          /\ to_parent_pip' = SubSeq(to_parent_pip, n + 1, Len(to_parent_pip))
    /\ at' = "hup"
    /\ UNCHANGED <<shell, script, typed, buffer, revents, code, terminal, echo, input, reported,
                   to_child_pip, child, given, wrote>>

NoOutput == "pipe_in" \notin revents /\ Move("pipe", "hup")

\* Mutant: POLLHUP is not asked about.
PipeHup_Ignored == "pipe_hup" \in revents /\ Move("hup", "poll")

PipeHup == at = "hup" /\ "pipe_hup" \in revents /\ Exit(1)

NoPipeHup == "pipe_hup" \notin revents /\ Move("hup", "poll")

Program ==
    \/ NotATerminal \/ SetTerminal \/ WaitForChild
    \/ Read \/ EchoByte \/ EchoEnds \/ EchoDone
    \/ Fork \/ Poll \/ ReadKeys \/ NoKeys
    \/ EndOfInput \/ Interrupt \/ EchoKey \/ GiveKey \/ GiveKeyFails \/ KeysDone
    \/ ShowOutput \/ NoOutput \/ PipeHup \/ NoPipeHup

-----------------------------------------------------------------------------
(* The shell reads and writes as it likes and ends when it likes.          *)

ChildReads ==
    /\ to_child_pip # <<>>
    /\ to_child_pip' = Tail(to_child_pip)
    /\ UNCHANGED <<to_parent_pip, child, given, wrote>>

ChildWrites ==
    /\ Len(to_parent_pip) < PipeSize
    /\ \E b \in Bytes :
          /\ to_parent_pip' = Append(to_parent_pip, b)
          /\ wrote' = Append(wrote, b)
    /\ \E output \in Outputs : IsPrefix(wrote', output)
    /\ UNCHANGED <<to_child_pip, child, given>>

ChildEnds ==
    /\ child' \in {"exited", "killed"}
    /\ UNCHANGED <<to_child_pip, to_parent_pip, given, wrote>>

Child ==
    /\ child = "running"
    /\ ChildReads \/ ChildWrites \/ ChildEnds
    /\ UNCHANGED <<shell, script, at, loopVars>>

Next == Program \/ Child

Spec == Init /\ [][Next]_vars

\* The program runs; the shell and the user do what they like.
FairSpec == Spec /\ WF_vars(Program)

-----------------------------------------------------------------------------
(* Properties.                                                             *)

\* Every variable has its type, and no buffer or pipe more than it holds.
TypeOK ==
    /\ shell \in BOOLEAN /\ script \in Scripts /\ typed \in 0 .. Len(script)
    /\ at \in {"start", "fork", "poll", "keys", "give", "write", "pipe", "hup",
               "read", "echo", "wait", "exit0", "exit1"}
    /\ \A s \in {buffer, echo, screen, to_child_pip, to_parent_pip, given, wrote} : s \in Seq(Bytes)
    /\ Len(buffer) <= BufferSize
    /\ Len(to_child_pip) <= PipeSize /\ Len(to_parent_pip) <= PipeSize
    /\ revents \subseteq {"keys_in", "pipe_in", "pipe_hup"}
    /\ code \in {0, 1} /\ terminal \in {"cooked", "raw"}
    /\ input \in BOOLEAN /\ reported \in BOOLEAN
    /\ child \in {"none", "running", "exited", "killed"}

\* What a shell, or the screen, is to get of keys: all before the first ^D,
\* with newlines, and to the shell no ^C.
Newlines(s) == [i \in DOMAIN s |-> Newline(s[i])]
KeyText(s, controls) == Without(Newlines(Before(s, "eot")), controls)

\* What is typed is handed to the shell in order, once, with nothing left out,
\* and shown before; without --shell it is shown.  What is still to be handed
\* on is in the buffer, also when the program has ended; after ^D nothing is.
KeysDelivered ==
    LET controls == IF shell THEN {"etx"} ELSE {}
        whole == KeyText(SubSeq(script, 1, typed), controls)
        done == IF shell THEN given ELSE echo
    IN  /\ done \o (IF input THEN KeyText(buffer, controls) ELSE <<>>) = whole
        /\ IsPrefix(given, echo)
        /\ shell => Len(echo) <= Len(given) + 1

\* The shell's output is shown in order, once, with nothing left out: what has
\* not been shown is in the pipe, also when the program has ended.
OutputDelivered == screen \o to_parent_pip = wrote

\* The terminal is reset on every way out; 0 with --shell says that the shell
\* ended by itself and was reported, 1 that it was killed or never started.  The
\* handler waits for the shell only when that has no more input to wait for.
Endings ==
    /\ at \in {"wait", "exit0", "exit1"} => terminal = "cooked"
    /\ reported => at = "exit0" /\ child = "exited"
    /\ shell /\ at = "exit0" => reported
    /\ shell /\ at = "exit1" => child \in {"killed", "none"}
    /\ at = "wait" /\ child = "running" => ~input

\* When the shell has ended the program ends.
ProgramEnds == ChildDead ~> Ended

=============================================================================
