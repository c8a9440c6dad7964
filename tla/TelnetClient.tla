---------------------------- MODULE TelnetClient ----------------------------
(***************************************************************************)
(* project1b/lab1b-client.c: the terminal in raw mode, and one loop that   *)
(* echoes and sends what is typed and shows what comes back.  The log and  *)
(* a terminal that hangs up are left out.                                  *)
(***************************************************************************)
EXTENDS TelnetSocket

CONSTANTS
    Scripts,   \* all that may be typed, without and with --compress
    KeySize    \* 1024 in the program: how many keys one read returns at most

ASSUME ClientAssumption ==
    /\ Scripts \in [BOOLEAN -> SUBSET Seq(Bytes)]
    /\ KeySize \in Nat \ {0}

VARIABLES
    script,         \* chosen once
    typed,          \* how much of the script has been read
    clientAt,       \* the client's place
    clientBuffer,   \* what it has still to send
    clientRevents,
    terminal,       \* "cooked" or "raw"
    echo,           \* what it has echoed
    screen          \* what it has shown of the server's bytes

clientVars == <<script, typed, clientAt, clientBuffer, clientRevents, terminal, echo, screen>>

ClientInit ==
    /\ script \in Scripts[comp]
    /\ typed = 0
    /\ clientAt = "start"
    /\ clientBuffer = <<>>
    /\ clientRevents = {}
    /\ terminal = "cooked"
    /\ echo = <<>>
    /\ screen = <<>>

ClientEnded == clientAt \in {"exit0", "exit1", "SIGPIPE"}

ClientMove(from, to) ==
    /\ clientAt = from
    /\ clientAt' = to
    /\ UNCHANGED <<socketVars, script, typed, clientBuffer, clientRevents, terminal, echo, screen>>

\* Mutant: the handler does not reset the terminal.
ClientExit_Raw ==
    /\ clientAt' = "exit0"
    /\ Close("client")
    /\ UNCHANGED <<script, typed, clientBuffer, clientRevents, terminal, echo, screen>>

\* restore_terminal_mode, called by exit: it ends the program with 0 whatever
\* exit was given.
ClientExit ==
    /\ clientAt' = "exit0"
    /\ terminal' = "cooked"
    /\ Close("client")
    /\ UNCHANGED <<script, typed, clientBuffer, clientRevents, echo, screen>>

-----------------------------------------------------------------------------
SetTerminal ==
    /\ clientAt = "start"
    /\ clientAt' = "connect"
    /\ terminal' = "raw"
    /\ UNCHANGED <<socketVars, script, typed, clientBuffer, clientRevents, echo, screen>>

NotATerminal == ClientMove("start", "exit1")

Connect ==
    /\ clientAt = "connect"
    /\ clientAt' = "poll"
    /\ open' = [e \in Ends |-> TRUE]
    /\ UNCHANGED <<inbox, reset, damaged, script, typed, clientBuffer, clientRevents, terminal, echo, screen>>

\* The program goes on with a socket that is not connected.
ConnectFails ==
    /\ clientAt = "connect"
    /\ clientAt' = "poll"
    /\ reset' = TRUE
    /\ UNCHANGED <<inbox, open, damaged, script, typed, clientBuffer, clientRevents, terminal, echo, screen>>

\* A key may have been typed by now or not.
PollClient ==
    /\ clientAt = "poll"
    /\ \E keys \in SUBSET {"keys_in"} :
          /\ keys # {} => typed < Len(script)
          /\ clientRevents' = keys \cup SocketEvents("client")
    /\ clientAt' = IF clientRevents' = {} THEN "poll" ELSE "keys"
    /\ UNCHANGED <<socketVars, script, typed, clientBuffer, terminal, echo, screen>>

-----------------------------------------------------------------------------
(* From the keyboard to the server.                                        *)

\* Mutant: every read is taken to fill the buffer.
ReadKeys_Full ==
    /\ clientAt = "keys"
    /\ "keys_in" \in clientRevents
    /\ \E n \in 1 .. KeySize :
          /\ typed + n <= Len(script)
          /\ clientBuffer' = SubSeq(script, typed + 1, typed + n)
          /\ echo' = echo \o [i \in 1 .. n |-> Newline(script[typed + i])]
    /\ typed' = typed + KeySize
    /\ clientAt' = "send"
    /\ UNCHANGED <<socketVars, script, clientRevents, terminal, screen>>

ReadKeys ==
    /\ clientAt = "keys"
    /\ "keys_in" \in clientRevents
    /\ \E n \in 1 .. KeySize :
          /\ typed + n <= Len(script)
          /\ typed' = typed + n
          /\ clientBuffer' = SubSeq(script, typed + 1, typed + n)
          /\ echo' = echo \o [i \in 1 .. n |-> Newline(script[typed + i])]
    /\ clientAt' = "send"
    /\ UNCHANGED <<socketVars, script, clientRevents, terminal, screen>>

NoKeys == "keys_in" \notin clientRevents /\ ClientMove("keys", "socket")

SendKey ==
    /\ ~comp
    /\ clientAt = "send" /\ clientBuffer # <<>>
    /\ Send("client", Newline(Head(clientBuffer)))
    /\ clientBuffer' = Tail(clientBuffer)
    /\ UNCHANGED <<script, typed, clientAt, clientRevents, terminal, echo, screen>>

\* A compressed byte that happens to be a CR is changed into a newline.
SendKeys ==
    /\ comp
    /\ clientAt = "send" /\ clientBuffer # <<>>
    /\ \E ok \in BOOLEAN : Send("client", [data |-> clientBuffer, ok |-> ok])
    /\ clientBuffer' = <<>>
    /\ UNCHANGED <<script, typed, clientAt, clientRevents, terminal, echo, screen>>

\* The write may return an error or end the client by SIGPIPE, which it does
\* not handle.
SendKeyFails ==
    /\ clientAt = "send" /\ clientBuffer # <<>>
    /\ reset
    /\ \/ ClientExit
       \/ /\ clientAt' = "SIGPIPE"
          /\ Close("client")
          /\ UNCHANGED <<script, typed, clientBuffer, clientRevents, terminal, echo, screen>>

KeysSent == clientBuffer = <<>> /\ ClientMove("send", "socket")

-----------------------------------------------------------------------------
(* From the server to the screen.                                          *)

ShowServer ==
    /\ clientAt = "socket"
    /\ "socket_in" \in clientRevents
    /\ \E n \in Readable(inbox["client"]) :
          LET items == SubSeq(inbox["client"], 1, n)
          IN  /\ Receive("client", n)
              /\ \/ /\ \E d \in Inflations(items, {"junk"}) :
                          screen' = screen \o [i \in DOMAIN d |-> Newline(d[i])]
                    /\ clientAt' = "hup"
                 \/ /\ InflateHangs(items)
                    /\ clientAt' = "hung"
                    /\ UNCHANGED screen
    /\ UNCHANGED <<script, typed, clientBuffer, clientRevents, terminal, echo>>

\* Mutant: a read of nothing is not asked about.
ServerClosed_Ignored ==
    /\ "socket_in" \in clientRevents
    /\ AtEnd("client")
    /\ ClientMove("socket", "hup")

\* read returns 0, or an error: either way the client ends.
ServerClosed ==
    /\ clientAt = "socket"
    /\ "socket_in" \in clientRevents
    /\ AtEnd("client")
    /\ ClientExit

NothingToShow == "socket_in" \notin clientRevents /\ ClientMove("socket", "hup")

ClientHup == clientAt = "hup" /\ "socket_hup" \in clientRevents /\ ClientExit

\* The loop starts over; the next poll overwrites revents.
NoClientHup ==
    /\ clientAt = "hup"
    /\ "socket_hup" \notin clientRevents
    /\ clientAt' = "poll"
    /\ clientRevents' = {}
    /\ UNCHANGED <<socketVars, script, typed, clientBuffer, terminal, echo, screen>>

Client ==
    \/ SetTerminal \/ NotATerminal \/ Connect \/ ConnectFails \/ PollClient
    \/ ReadKeys \/ NoKeys \/ SendKey \/ SendKeys \/ SendKeyFails \/ KeysSent
    \/ ShowServer \/ ServerClosed \/ NothingToShow \/ ClientHup \/ NoClientHup

=============================================================================
