------------------------------- MODULE Telnet -------------------------------
(***************************************************************************)
(* One session of project1b: the client, the server, its shell, and the    *)
(* connection and the pipes between them.                                  *)
(***************************************************************************)
EXTENDS TelnetServer, TelnetClient

vars == <<comp, socketVars, serverVars, clientVars>>

Init == SocketInit /\ ServerInit /\ ClientInit

Next ==
    \/ Server /\ UNCHANGED <<comp, clientVars>>
    \/ Shell /\ UNCHANGED <<comp, clientVars>>
    \/ Client /\ UNCHANGED <<comp, serverVars>>

Spec == Init /\ [][Next]_vars

\* The client and the server run; the shell and the user do what they like.
Fairness ==
    /\ WF_vars(Server /\ UNCHANGED <<comp, clientVars>>)
    /\ WF_vars(Client /\ UNCHANGED <<comp, serverVars>>)

FairSpec == Spec /\ Fairness

-----------------------------------------------------------------------------
(* Properties.                                                             *)

ServerPlaces == {"accept", "wait", "poll", "socket", "keys", "socket_hup", "pipe",
                 "output", "pipe_hup", "close", "reap", "exit0", "exit1", "hung"}
ClientPlaces == {"start", "connect", "poll", "keys", "send", "socket", "hup",
                 "exit0", "exit1", "SIGPIPE", "hung"}
Events == {"socket_in", "socket_hup"}
Items == IF comp THEN Packets ELSE Bytes

\* Every variable has its type, and no buffer, pipe or inbox more than it holds.
TypeOK ==
    /\ comp \in BOOLEAN
    /\ inbox \in [Ends -> Seq(Items)]
    /\ \A e \in Ends : Len(inbox[e]) <= SocketSize
    /\ open \in [Ends -> BOOLEAN] /\ reset \in BOOLEAN /\ damaged \in BOOLEAN
    /\ serverAt \in ServerPlaces
    /\ serverRevents \subseteq Events \cup {"pipe_in", "pipe_hup"}
    /\ \A s \in {serverBuffer, to_child_pip, to_parent_pip, given, wrote,
                 script, clientBuffer, echo, screen} : s \in Seq(Bytes)
    /\ Len(serverBuffer) <= BufferSize
    /\ Len(to_child_pip) <= PipeSize /\ Len(to_parent_pip) <= PipeSize
    /\ input \in BOOLEAN /\ reported \in BOOLEAN
    /\ shell \in {"none", "running", "exited", "killed"}
    /\ script \in Scripts[comp] /\ typed \in 0 .. Len(script)
    /\ clientAt \in ClientPlaces
    /\ clientRevents \subseteq Events \cup {"keys_in"}
    /\ terminal \in {"cooked", "raw"}

\* Nobody has closed the connection, and nobody hangs in inflate.
Connected ==
    /\ open["client"] /\ open["server"] /\ ~reset
    /\ serverAt # "hung" /\ clientAt # "hung"

Newlines(s) == [i \in DOMAIN s |-> Newline(s[i])]

\* What the shell is to get of keys: all before the first ^D, except for ^C.
ShellText(keys) == Without(Newlines(Before(keys, "eot")), {"etx"})

\* What is typed reaches the shell in order, once, with nothing left out: it
\* has been handed over or is under way.  When an end is closed, or the shell's
\* input, what was handed over is the beginning of it.
KeysDelivered ==
    ~damaged =>
        LET underWay == (IF serverAt = "keys" THEN serverBuffer ELSE <<>>)
                        \o Data(inbox["server"]) \o clientBuffer
            whole == ShellText(SubSeq(script, 1, typed))
        IN  /\ IsPrefix(given, whole)
            /\ (Connected /\ input) => given \o ShellText(underWay) = whole

\* What the user is to see of the shell's output: without --compress a ^D or ^C
\* in it is acted on by the server, not shown.
UserText(output) == Newlines(IF comp THEN output ELSE Without(output, {"eot", "etx"}))

\* What the shell writes reaches the screen in order, once, with nothing left
\* out; when an end is closed, the beginning of it does.
OutputDelivered ==
    ~damaged =>
        LET underWay == Data(inbox["client"])
                        \o (IF serverAt = "output" THEN serverBuffer ELSE <<>>)
                        \o to_parent_pip
        IN  /\ IsPrefix(screen, UserText(wrote))
            /\ Connected => screen \o UserText(underWay) = UserText(wrote)

\* The server reports the shell's end exactly when it ends well, and never
\* before the shell is dead.  It fails only when the connection is broken, the
\* shell's input was closed, or the shell was not started or is gone.
ServerEndings ==
    /\ reported <=> serverAt = "exit0"
    /\ reported => ShellDead
    /\ serverAt = "exit1" => reset \/ ~input \/ ShellDead \/ shell = "none"

\* The client leaves the terminal as it found it, unless SIGPIPE ends it, and
\* that only once the server is gone.
TerminalRestored ==
    ClientEnded =>
        \/ terminal = "cooked"
        \/ clientAt = "SIGPIPE" /\ ~open["server"]

\* Each waits for the other to read.
Clogged ==
    /\ clientAt = "send" /\ serverAt = "output"
    /\ \A e \in Ends : Len(inbox[e]) = SocketSize

\* When the shell has ended both programs end, unless the two of them are
\* stuck writing to each other or one hangs in inflate.
SessionEnds ==
    ShellDead ~> \/ ServerEnded /\ ClientEnded
                 \/ Clogged
                 \/ "hung" \in {serverAt, clientAt}

=============================================================================
