---------------------------- MODULE TelnetServer ----------------------------
(***************************************************************************)
(* project1b/lab1b-server.c: one loop that hands the client's bytes to a   *)
(* shell and the shell's output to the client; and the shell, of which     *)
(* only its dealings with the two pipes are known.                         *)
(***************************************************************************)
EXTENDS TelnetSocket

CONSTANTS
    PipeSize,     \* how much a pipe holds
    Outputs       \* all that the shell may write, without and with --compress

ASSUME ServerAssumption ==
    /\ PipeSize \in Nat \ {0}
    /\ Outputs \in [BOOLEAN -> SUBSET Seq(Bytes)]

VARIABLES
    serverAt,       \* the server's place
    serverBuffer,   \* what is left of its buffer
    serverRevents,  \* what the last poll found, for the socket and for the pipe
    to_child_pip, to_parent_pip,
    input,          \* whether the server has its end of to_child_pip open
    shell,          \* "none" before fork, "running", or how it ended
    reported,       \* the line SHELL EXIT was written
    given, wrote    \* history: all that was written to the shell and by it

serverVars == <<serverAt, serverBuffer, serverRevents, to_child_pip, to_parent_pip,
                input, shell, reported, given, wrote>>
shellVars == <<to_child_pip, to_parent_pip, shell, wrote>>

ServerInit ==
    /\ serverAt = "accept"
    /\ serverBuffer = <<>>
    /\ serverRevents = {}
    /\ to_child_pip = <<>>
    /\ to_parent_pip = <<>>
    /\ input = TRUE
    /\ shell = "none"
    /\ reported = FALSE
    /\ given = <<>>
    /\ wrote = <<>>

ShellDead == shell \in {"exited", "killed"}
ServerEnded == serverAt \in {"exit0", "exit1"}

\* Only the server's place changes.
ServerMove(from, to) ==
    /\ serverAt = from
    /\ serverAt' = to
    /\ UNCHANGED <<socketVars, serverBuffer, serverRevents, input, reported, given, shellVars>>

\* exit closes what is open.
ServerExit(code) ==
    /\ serverAt' = code
    /\ Close("server")
    /\ UNCHANGED <<serverBuffer, serverRevents, input, given, shellVars>>
ServerFails == ServerExit("exit1") /\ UNCHANGED reported

-----------------------------------------------------------------------------
\* accept returns once a client has connected; then the shell is forked.
Accept ==
    /\ serverAt = "accept"
    /\ open["client"] \/ open["server"]
    /\ \/ /\ serverAt' = "wait"
          /\ shell' = "running"
          /\ UNCHANGED <<socketVars, serverBuffer, serverRevents, to_child_pip, to_parent_pip,
                         input, reported, given, wrote>>
       \/ ServerFails

\* Mutant: waitpid's result is taken the wrong way round.
ShellIsGone_Mistaken ==
    /\ serverAt = "wait"
    /\ shell = "running"
    /\ ServerExit("exit0")
    /\ reported' = TRUE

\* waitpid with WNOHANG finds the shell gone, and the program ends.
ShellIsGone ==
    /\ serverAt = "wait"
    /\ ShellDead
    /\ ServerExit("exit0")
    /\ reported' = TRUE

ShellIsThere == ~ShellDead /\ ServerMove("wait", "poll")

PipeEvents ==
    {ev \in {"pipe_in", "pipe_hup"} :
        \/ ev = "pipe_in" /\ to_parent_pip # <<>>
        \/ ev = "pipe_hup" /\ ShellDead}

PollServer ==
    /\ serverAt = "poll"
    /\ serverRevents' = SocketEvents("server") \cup PipeEvents
    /\ serverAt' = IF serverRevents' = {} THEN "wait" ELSE "socket"
    /\ UNCHANGED <<socketVars, serverBuffer, input, reported, given, shellVars>>

-----------------------------------------------------------------------------
(* From the client to the shell.                                           *)

ReadSocket ==
    /\ serverAt = "socket"
    /\ "socket_in" \in serverRevents
    /\ \E n \in Readable(inbox["server"]) :
          LET items == SubSeq(inbox["server"], 1, n)
          IN  /\ Receive("server", n)
              /\ \/ /\ serverBuffer' \in Inflations(items, {"eot", "etx", "junk"})
                    /\ serverAt' = "keys"
                 \/ /\ InflateHangs(items)
                    /\ serverAt' = "hung"
                    /\ UNCHANGED serverBuffer
    /\ UNCHANGED <<serverRevents, input, reported, given, shellVars>>

\* At the end of file read returns 0, which nothing asks about.
ReadSocketEnd ==
    /\ "socket_in" \in serverRevents
    /\ AtEnd("server")
    /\ ServerMove("socket", "socket_hup")

ReadSocketFails ==
    /\ serverAt = "socket"
    /\ "socket_in" \in serverRevents
    /\ AtEnd("server") /\ reset
    /\ ServerFails

NoSocketIn == "socket_in" \notin serverRevents /\ ServerMove("socket", "socket_hup")

NextByte(place, b) ==
    /\ serverAt = place
    /\ serverBuffer # <<>>
    /\ Head(serverBuffer) = b
    /\ serverBuffer' = Tail(serverBuffer)
    /\ UNCHANGED <<serverAt, serverRevents, reported>>

\* ^D closes the pipe to the shell.  Both directions are scanned for it.
EndOfInput(place) ==
    /\ NextByte(place, "eot")
    /\ input' = FALSE
    /\ UNCHANGED <<socketVars, given, shellVars>>

\* SIGINT ends the shell, unless it is gone or catches it.
Kill == shell' \in {shell} \cup IF shell = "running" THEN {"killed"} ELSE {}

\* ^C interrupts the shell.
Interrupt(place) ==
    /\ NextByte(place, "etx")
    /\ Kill
    /\ UNCHANGED <<socketVars, input, given, to_child_pip, to_parent_pip, wrote>>

\* Mutant: ^D is handed to the shell like any other byte.
GiveByte_EndOfInputToo ==
    /\ shell = "running" /\ Len(to_child_pip) < PipeSize
    /\ \E b \in Bytes \ {"etx"} :
          /\ NextByte("keys", b)
          /\ to_child_pip' = Append(to_child_pip, Newline(b))
          /\ given' = Append(given, Newline(b))
    /\ UNCHANGED <<socketVars, input, to_parent_pip, shell, wrote>>

\* The write waits while the pipe is full.
GiveByte ==
    /\ input /\ shell = "running"
    /\ Len(to_child_pip) < PipeSize
    /\ \E b \in Bytes \ {"eot", "etx"} :
          /\ NextByte("keys", b)
          /\ to_child_pip' = Append(to_child_pip, Newline(b))
          /\ given' = Append(given, Newline(b))
    /\ UNCHANGED <<socketVars, input, to_parent_pip, shell, wrote>>

\* The pipe was closed for ^D, or SIGPIPE tells that the shell is gone.
GiveByteFails ==
    /\ serverAt = "keys"
    /\ serverBuffer # <<>> /\ Head(serverBuffer) \notin {"eot", "etx"}
    /\ ~input \/ ShellDead
    /\ ServerFails

KeysDone == serverBuffer = <<>> /\ ServerMove("keys", "socket_hup")

SocketHup ==
    /\ serverAt = "socket_hup"
    /\ "socket_hup" \in serverRevents
    /\ ServerFails
NoSocketHup == "socket_hup" \notin serverRevents /\ ServerMove("socket_hup", "pipe")

-----------------------------------------------------------------------------
(* From the shell to the client.                                           *)

ReadPipe ==
    /\ serverAt = "pipe"
    /\ "pipe_in" \in serverRevents
    /\ \E n \in Readable(to_parent_pip) :
          /\ serverBuffer' = SubSeq(to_parent_pip, 1, n)
          /\ to_parent_pip' = SubSeq(to_parent_pip, n + 1, Len(to_parent_pip))
    /\ serverAt' = "output"
    /\ UNCHANGED <<socketVars, serverRevents, to_child_pip, input, shell, reported, given, wrote>>

NoPipeIn == "pipe_in" \notin serverRevents /\ ServerMove("pipe", "pipe_hup")

\* Mutant: a byte that ends a line is left out.
SendByte_NoNewline ==
    /\ ~comp
    /\ \E b \in Bytes \ {"eot", "etx"} :
          /\ NextByte("output", b)
          /\ IF Newline(b) = "nl" THEN UNCHANGED socketVars ELSE Send("server", b)
    /\ UNCHANGED <<input, given, shellVars>>

SendByte ==
    /\ ~comp
    /\ \E b \in Bytes \ {"eot", "etx"} : NextByte("output", b) /\ Send("server", Newline(b))
    /\ UNCHANGED <<input, given, shellVars>>

\* The compressed bytes are scanned as if they were the shell's: where one of
\* them happens to be a ^D or ^C it is acted on and left out.
SendPacket ==
    /\ comp
    /\ serverAt = "output" /\ serverBuffer # <<>>
    /\ \E found \in SUBSET {"eot", "etx", "cr"} :
          /\ Send("server", [data |-> serverBuffer, ok |-> found = {}])
          /\ input' = (input /\ "eot" \notin found)
          /\ IF "etx" \in found THEN Kill ELSE UNCHANGED shell
    /\ serverBuffer' = <<>>
    /\ UNCHANGED <<serverAt, serverRevents, reported, given, to_child_pip, to_parent_pip, wrote>>

SendFails ==
    /\ serverAt = "output"
    /\ serverBuffer # <<>>
    /\ comp \/ Head(serverBuffer) \notin {"eot", "etx"}
    /\ reset
    /\ ServerFails

OutputDone == serverBuffer = <<>> /\ ServerMove("output", "pipe_hup")

\* The loop ends: what the pipe still holds is lost.
PipeHup == "pipe_hup" \in serverRevents /\ ServerMove("pipe_hup", "close")

\* The loop starts over; the next poll overwrites revents.
NoPipeHup ==
    /\ serverAt = "pipe_hup"
    /\ "pipe_hup" \notin serverRevents
    /\ serverAt' = "wait"
    /\ serverRevents' = {}
    /\ UNCHANGED <<socketVars, serverBuffer, input, reported, given, shellVars>>

\* Closing what ^D closed before is an error.
CloseAll ==
    /\ serverAt = "close"
    /\ IF input THEN ServerExit("reap") /\ UNCHANGED reported ELSE ServerFails

WaitShell ==
    /\ serverAt = "reap"
    /\ ShellDead
    /\ serverAt' = "exit0"
    /\ reported' = TRUE
    /\ UNCHANGED <<socketVars, serverBuffer, serverRevents, input, given, shellVars>>

Server ==
    \/ Accept \/ ShellIsGone \/ ShellIsThere \/ PollServer
    \/ ReadSocket \/ ReadSocketEnd \/ ReadSocketFails \/ NoSocketIn
    \/ EndOfInput("keys") \/ Interrupt("keys") \/ GiveByte \/ GiveByteFails \/ KeysDone
    \/ SocketHup \/ NoSocketHup
    \/ ReadPipe \/ NoPipeIn
    \/ ~comp /\ (EndOfInput("output") \/ Interrupt("output"))
    \/ SendByte \/ SendPacket \/ SendFails \/ OutputDone
    \/ PipeHup \/ NoPipeHup \/ CloseAll \/ WaitShell

-----------------------------------------------------------------------------
(* The shell reads and writes as it likes.  It ends when it likes, the end *)
(* of its input included, or by SIGPIPE when the server is gone.           *)

ShellReads ==
    /\ shell = "running"
    /\ to_child_pip # <<>>
    /\ to_child_pip' = Tail(to_child_pip)
    /\ UNCHANGED <<to_parent_pip, shell, wrote>>

ShellWrites ==
    /\ shell = "running"
    /\ ~ServerEnded
    /\ Len(to_parent_pip) < PipeSize
    /\ \E b \in Bytes :
          /\ to_parent_pip' = Append(to_parent_pip, b)
          /\ wrote' = Append(wrote, b)
    /\ \E output \in Outputs[comp] : IsPrefix(wrote', output)
    /\ UNCHANGED <<to_child_pip, shell>>

ShellEnds ==
    /\ shell = "running"
    /\ \/ shell' = "exited"
       \/ ServerEnded /\ shell' = "killed"
    /\ UNCHANGED <<to_child_pip, to_parent_pip, wrote>>

Shell ==
    /\ ShellReads \/ ShellWrites \/ ShellEnds
    /\ UNCHANGED <<socketVars, serverAt, serverBuffer, serverRevents, input, reported, given>>

=============================================================================
