---------------------------- MODULE TelnetSocket ----------------------------
(***************************************************************************)
(* The connection of project1b as its two ends see it through poll, read,  *)
(* write and close, and what travels on it: single bytes, or with          *)
(* --compress packets, one for each call of deflate.                       *)
(***************************************************************************)
EXTENDS Texts

CONSTANTS
    BufferSize,  \* 2048 in the program: what one read or one inflate returns at most
    SocketSize   \* how much the connection holds in each direction

ASSUME SocketAssumption ==
    /\ BufferSize \in Nat \ {0}
    /\ SocketSize \in Nat \ {0}

Ends == {"client", "server"}
Other(end) == CHOOSE e \in Ends : e # end

\* ^D, ^C, the two ends of a line, anything else, and what inflate makes of a
\* damaged packet.
Bytes == {"eot", "etx", "cr", "nl", "x", "junk"}
Packets == [data : Seq(Bytes), ok : BOOLEAN]

VARIABLES
    comp,     \* whether --compress is given to both
    inbox,    \* what each end has yet to read
    open,     \* whether each end is open
    reset,    \* an end found the other one closed: the connection is broken
    damaged   \* history: a packet was changed on its way

socketVars == <<inbox, open, reset, damaged>>

SocketInit ==
    /\ comp \in BOOLEAN
    /\ inbox = [e \in Ends |-> <<>>]
    /\ open = [e \in Ends |-> FALSE]
    /\ reset = FALSE
    /\ damaged = FALSE

\* A write waits while the other end's inbox is full.  When that end is closed
\* what is written is lost, and the answer breaks the connection sooner or later.
Send(end, item) ==
    /\ ~reset
    /\ IF open[Other(end)]
       THEN /\ Len(inbox[Other(end)]) < SocketSize
            /\ inbox' = [inbox EXCEPT ![Other(end)] = Append(@, item)]
            /\ UNCHANGED reset
       ELSE /\ reset' \in BOOLEAN
            /\ UNCHANGED inbox
    /\ damaged' = (damaged \/ (comp /\ ~item.ok))
    /\ UNCHANGED open

\* There is nothing to read and there will not be.
AtEnd(end) == inbox[end] = <<>> /\ (reset \/ ~open[Other(end)])

\* POLLERR is answered like POLLHUP.
SocketEvents(end) ==
    {ev \in {"socket_in", "socket_hup"} :
        \/ ev = "socket_in" /\ (inbox[end] # <<>> \/ AtEnd(end))
        \/ ev = "socket_hup" /\ reset}

Receive(end, n) ==
    /\ inbox' = [inbox EXCEPT ![end] = SubSeq(@, n + 1, Len(@))]
    /\ UNCHANGED <<open, reset, damaged>>

\* Closing with something unread breaks the connection, and the end of what
\* the other end was to read may be lost.
Close(end) ==
    /\ open' = [open EXCEPT ![end] = FALSE]
    /\ IF inbox[end] = <<>>
       THEN UNCHANGED <<inbox, reset>>
       ELSE /\ reset' = TRUE
            /\ \E left \in Prefixes(inbox[Other(end)]) :
                  inbox' = [inbox EXCEPT ![end] = <<>>, ![Other(end)] = left]
    /\ UNCHANGED damaged

-----------------------------------------------------------------------------
\* The bytes that items carry, as they were handed to deflate.
Data(items) ==
    IF comp THEN FlattenSeq([i \in DOMAIN items |-> items[i].data]) ELSE items

\* How much of an inbox one read may return.
Readable(items) == 1 .. IF Len(items) < BufferSize THEN Len(items) ELSE BufferSize

Intact(items) == comp => \A i \in DOMAIN items : items[i].ok

\* What a read and inflate make of items: of a damaged packet, some noise.
Inflations(items, noise) ==
    IF Intact(items)
    THEN {d \in {Data(items)} : comp => Len(d) <= BufferSize}
    ELSE {<<>>} \cup {<<b>> : b \in noise}

\* The loop around inflate does not end while there is input left: the output
\* does not fit, or inflate refuses what it is given.
InflateHangs(items) == comp /\ (Intact(items) => Len(Data(items)) > BufferSize)

\* The bytes a line ends with become a newline.
Newline(b) == IF b \in {"cr", "nl"} THEN "nl" ELSE b

=============================================================================
