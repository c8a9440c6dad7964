---------------------------- MODULE Telnet_proofs ----------------------------
(***************************************************************************)
(* Theorems about Telnet: for all that is typed and written, and all sizes *)
(* of buffers, pipes and the connection.                                   *)
(***************************************************************************)
EXTENDS Telnet, Texts_proofs

-----------------------------------------------------------------------------
(* The connection.                                                         *)

LEMMA OtherEnd == Other("client") = "server" /\ Other("server") = "client"
<1>1. Ends = {"client", "server"}
  BY DEF Ends
<1>2. \A e \in Ends : Other(e) \in Ends /\ Other(e) # e
  <2>1. ASSUME NEW e \in Ends PROVE \E f \in Ends : f # e
    BY <1>1
  <2> QED BY <2>1 DEF Other
<1> QED BY <1>1, <1>2

\* What Send, Receive and Close do to the two inboxes, whatever is in them.
LEMMA Sending ==
    ASSUME NEW S, inbox \in [Ends -> Seq(S)], NEW item \in S,
           NEW end \in Ends, NEW other \in Ends, other = Other(end), Send(end, item)
    PROVE  /\ inbox' \in [Ends -> Seq(S)]
           /\ inbox'[end] = inbox[end]
           /\ IF open[other] THEN /\ Len(inbox[other]) < SocketSize
                                  /\ inbox'[other] = Append(inbox[other], item)
                                  /\ reset' = reset
              ELSE inbox' = inbox /\ reset' \in BOOLEAN
           /\ open' = open /\ ~reset
           /\ damaged' = (damaged \/ (comp /\ ~item.ok))
<1>1. end # other
  BY OtherEnd DEF Ends
<1>2. inbox[other] \in Seq(S)
  OBVIOUS
<1>3. Append(inbox[other], item) \in Seq(S)
  BY <1>2
<1>4. CASE open[other]
  <2>1. inbox' = [inbox EXCEPT ![other] = Append(inbox[other], item)]
    BY <1>4 DEF Send
  <2> QED BY <1>1, <1>3, <1>4, <2>1 DEF Send
<1>5. CASE ~open[other]
  BY <1>5 DEF Send
<1> QED BY <1>4, <1>5

LEMMA Receiving ==
    ASSUME NEW S, inbox \in [Ends -> Seq(S)], NEW end \in Ends, NEW n \in 1 .. Len(inbox[end]),
           Receive(end, n)
    PROVE  /\ inbox' \in [Ends -> Seq(S)]
           /\ SubSeq(inbox[end], 1, n) \in Seq(S)
           /\ inbox[end] = SubSeq(inbox[end], 1, n) \o inbox'[end]
           /\ Len(inbox'[end]) <= Len(inbox[end])
           /\ \A e \in Ends \ {end} : inbox'[e] = inbox[e]
           /\ UNCHANGED <<open, reset, damaged>>
<1> DEFINE s == inbox[end]
           rest == SubSeq(s, n + 1, Len(s))
<1>1. s \in Seq(S) /\ Len(s) \in Nat /\ n \in 0 .. Len(s)
  OBVIOUS
<1>2. rest \in Seq(S) /\ Len(rest) <= Len(s) /\ SubSeq(s, 1, n) \in Seq(S)
  BY <1>1
<1>3. SubSeq(s, 1, n) \o rest = s
  BY <1>1, CutAndJoin
<1>4. inbox' = [inbox EXCEPT ![end] = rest] /\ UNCHANGED <<open, reset, damaged>>
  BY DEF Receive
<1> HIDE DEF rest
<1>5. inbox' \in [Ends -> Seq(S)] /\ inbox'[end] = rest /\ \A e \in Ends \ {end} : inbox'[e] = inbox[e]
  BY <1>2, <1>4
<1> QED BY <1>2, <1>3, <1>4, <1>5

LEMMA Closing ==
    ASSUME NEW S, inbox \in [Ends -> Seq(S)], open \in [Ends -> BOOLEAN],
           NEW end \in Ends, NEW other \in Ends, other = Other(end), Close(end)
    PROVE  /\ inbox' \in [Ends -> Seq(S)]
           /\ inbox'[end] = <<>>
           /\ Len(inbox'[other]) <= Len(inbox[other])
           /\ \E r \in Seq(S) : inbox[other] = inbox'[other] \o r
           /\ open' \in [Ends -> BOOLEAN] /\ ~open'[end] /\ open'[other] = open[other]
           /\ reset' = reset \/ reset' = TRUE
           /\ damaged' = damaged
<1>1. end # other
  BY OtherEnd DEF Ends
<1>2. inbox[other] \in Seq(S) /\ inbox[end] \in Seq(S) /\ Len(inbox[other]) \in Nat
  OBVIOUS
<1>3. open' \in [Ends -> BOOLEAN] /\ ~open'[end] /\ open'[other] = open[other] /\ damaged' = damaged
  BY <1>1 DEF Close
<1>4. CASE inbox[end] = <<>>
  <2>1. inbox' = inbox /\ reset' = reset
    BY <1>4 DEF Close
  <2>2. inbox[other] = inbox[other] \o <<>> /\ <<>> \in Seq(S)
    BY <1>2
  <2> QED BY <1>2, <1>3, <1>4, <2>1, <2>2
<1>5. CASE inbox[end] # <<>>
  <2>1. PICK left \in Prefixes(inbox[other]) :
           inbox' = [inbox EXCEPT ![end] = <<>>, ![other] = left]
    BY <1>5 DEF Close
  <2>2. reset' = TRUE
    BY <1>5 DEF Close
  <2>3. /\ left \in Seq(S) /\ Len(left) <= Len(inbox[other])
        /\ \E r \in Seq(S) : inbox[other] = left \o r
    BY <1>2, PrefixCut
  <2>4. <<>> \in Seq(S)
    OBVIOUS
  <2>5. inbox' \in [Ends -> Seq(S)] /\ inbox'[end] = <<>> /\ inbox'[other] = left
    BY <1>1, <2>1, <2>3, <2>4
  <2> QED BY <1>3, <2>2, <2>3, <2>5
<1> QED BY <1>4, <1>5

-----------------------------------------------------------------------------
(* The bytes that items carry.                                             *)

Payloads(items) == [i \in DOMAIN items |-> items[i].data]

LEMMA PayloadsType ==
    ASSUME NEW s \in Seq(Packets)
    PROVE  /\ Payloads(s) \in Seq(Seq(Bytes)) /\ Len(Payloads(s)) = Len(s)
           /\ \A i \in 1 .. Len(s) : Payloads(s)[i] = s[i].data
<1>1. Len(s) \in Nat /\ DOMAIN s = 1 .. Len(s) /\ \A i \in 1 .. Len(s) : s[i] \in Packets
  OBVIOUS
<1>2. \A i \in 1 .. Len(s) : s[i].data \in Seq(Bytes)
  BY <1>1 DEF Packets
<1>3. Payloads(s) = [i \in 1 .. Len(s) |-> s[i].data]
  BY <1>1 DEF Payloads
<1> QED BY <1>1, <1>2, <1>3

LEMMA PayloadsConcat ==
    ASSUME NEW s \in Seq(Packets), NEW t \in Seq(Packets)
    PROVE  Payloads(s \o t) = Payloads(s) \o Payloads(t)
<1> DEFINE st == s \o t
           a == Payloads(s)
           b == Payloads(t)
           c == Payloads(st)
<1>1. /\ st \in Seq(Packets) /\ Len(st) = Len(s) + Len(t) /\ Len(s) \in Nat /\ Len(t) \in Nat
      /\ \A i \in 1 .. Len(s) + Len(t) : st[i] = IF i <= Len(s) THEN s[i] ELSE t[i - Len(s)]
  BY LenProperties, ConcatProperties
<1> HIDE DEF st
<1>2. a \in Seq(Seq(Bytes)) /\ Len(a) = Len(s) /\ \A i \in 1 .. Len(s) : a[i] = s[i].data
  BY PayloadsType
<1>3. b \in Seq(Seq(Bytes)) /\ Len(b) = Len(t) /\ \A i \in 1 .. Len(t) : b[i] = t[i].data
  BY PayloadsType
<1>4. /\ c \in Seq(Seq(Bytes)) /\ Len(c) = Len(s) + Len(t)
      /\ \A i \in 1 .. Len(s) + Len(t) : c[i] = st[i].data
  <2>1. st \in Seq(Packets)
    BY <1>1
  <2>2. c \in Seq(Seq(Bytes)) /\ Len(c) = Len(st) /\ \A i \in 1 .. Len(st) : c[i] = st[i].data
    BY <2>1, PayloadsType
  <2> HIDE DEF c
  <2> QED BY <1>1, <2>2
<1> HIDE DEF a, b, c
<1>5. /\ a \o b \in Seq(Seq(Bytes)) /\ Len(a \o b) = Len(s) + Len(t)
      /\ \A i \in 1 .. Len(s) + Len(t) : (a \o b)[i] = IF i <= Len(s) THEN a[i] ELSE b[i - Len(s)]
  <2>1. a \in Seq(Seq(Bytes)) /\ b \in Seq(Seq(Bytes))
    BY <1>2, <1>3
  <2>2. /\ a \o b \in Seq(Seq(Bytes)) /\ Len(a \o b) = Len(a) + Len(b)
        /\ \A i \in 1 .. Len(a) + Len(b) : (a \o b)[i] = IF i <= Len(a) THEN a[i] ELSE b[i - Len(a)]
    BY <2>1, ConcatProperties, Zenon
  <2>3. Len(a) = Len(s) /\ Len(b) = Len(t)
    BY <1>2, <1>3
  <2> QED BY <2>2, <2>3
<1>6. ASSUME NEW i \in 1 .. Len(s) + Len(t) PROVE c[i] = (a \o b)[i]
  <2>1. CASE i <= Len(s)
    <3>1. i \in 1 .. Len(s)
      BY <1>1, <2>1
    <3>2. st[i] = s[i] /\ (a \o b)[i] = a[i]
      BY <1>1, <1>5, <2>1
    <3>3. a[i] = s[i].data /\ c[i] = st[i].data
      BY <1>2, <1>4, <3>1
    <3> QED BY <3>2, <3>3
  <2>2. CASE ~(i <= Len(s))
    <3>1. i - Len(s) \in 1 .. Len(t)
      BY <1>1, <2>2
    <3>2. st[i] = t[i - Len(s)] /\ (a \o b)[i] = b[i - Len(s)]
      BY <1>1, <1>5, <2>2
    <3>3. b[i - Len(s)] = t[i - Len(s)].data /\ c[i] = st[i].data
      BY <1>3, <1>4, <3>1
    <3> QED BY <3>2, <3>3
  <2> QED BY <2>1, <2>2
<1>7. c = a \o b
  BY <1>4, <1>5, <1>6, SeqEqual
<1> QED BY <1>7 DEF a, b, c, st

LEMMA FlattenType ==
    ASSUME NEW S, NEW ss \in Seq(Seq(S))
    PROVE  FlattenSeq(ss) \in Seq(S)
<1> DEFINE empty == <<>>
<1>1. empty \in Seq(S)
  OBVIOUS
<1> HIDE DEF empty
<1> QED BY <1>1, FlattenAppend

LEMMA DataType == ASSUME NEW s \in Seq(Items) PROVE Data(s) \in Seq(Bytes)
<1>1. CASE comp
  <2>1. Payloads(s) \in Seq(Seq(Bytes))
    BY <1>1, PayloadsType DEF Items
  <2>2. FlattenSeq(Payloads(s)) \in Seq(Bytes)
    BY <2>1, FlattenType
  <2> QED BY <1>1, <2>2 DEF Data, Payloads
<1>2. CASE ~comp
  BY <1>2 DEF Data, Items
<1> QED BY <1>1, <1>2

LEMMA DataConcat ==
    ASSUME NEW s \in Seq(Items), NEW t \in Seq(Items)
    PROVE  Data(s \o t) = Data(s) \o Data(t)
<1>1. CASE comp
  <2>1. s \in Seq(Packets) /\ t \in Seq(Packets)
    BY <1>1 DEF Items
  <2>2. Payloads(s \o t) = Payloads(s) \o Payloads(t)
    BY <2>1, PayloadsConcat
  <2>3. Payloads(s) \in Seq(Seq(Bytes)) /\ Payloads(t) \in Seq(Seq(Bytes))
    BY <2>1, PayloadsType
  <2>4. FlattenSeq(Payloads(s) \o Payloads(t)) = FlattenSeq(Payloads(s)) \o FlattenSeq(Payloads(t))
    BY <2>3, FlattenConcat
  <2>5. /\ Data(s \o t) = FlattenSeq(Payloads(s \o t))
        /\ Data(s) = FlattenSeq(Payloads(s)) /\ Data(t) = FlattenSeq(Payloads(t))
    BY <1>1 DEF Data, Payloads
  <2> QED BY <2>2, <2>4, <2>5
<1>2. CASE ~comp
  BY <1>2 DEF Data
<1> QED BY <1>1, <1>2

LEMMA DataEmpty == Data(<<>>) = <<>>
<1>1. Payloads(<<>>) = <<>>
  BY DEF Payloads
<1>2. FlattenSeq(Payloads(<<>>)) = <<>>
  BY <1>1, FlattenEmpty
<1> QED BY <1>2 DEF Data, Payloads

LEMMA DataAppend ==
    ASSUME NEW s \in Seq(Items), NEW item \in Items
    PROVE  Data(Append(s, item)) = Data(s) \o (IF comp THEN item.data ELSE <<item>>)
<1> DEFINE one == <<item>>
<1>1. one \in Seq(Items) /\ Append(s, item) = s \o one
  BY AppendIsConcat
<1>2. Data(one) = IF comp THEN item.data ELSE <<item>>
  <2>1. CASE comp
    <3>1. Payloads(one) = <<item.data>>
      BY DEF Payloads
    <3>2. FlattenSeq(<<item.data>>) = item.data
      BY FlattenOne
    <3>3. Data(one) = FlattenSeq(Payloads(one))
      BY <2>1 DEF Data, Payloads
    <3> QED BY <2>1, <3>1, <3>2, <3>3
  <2>2. CASE ~comp
    BY <2>2 DEF Data
  <2> QED BY <2>1, <2>2
<1> HIDE DEF one
<1>3. Data(s \o one) = Data(s) \o Data(one)
  BY <1>1, DataConcat
<1> QED BY <1>1, <1>2, <1>3


-----------------------------------------------------------------------------
(* Types.                                                                  *)

NetType ==
    /\ comp \in BOOLEAN
    /\ inbox \in [Ends -> Seq(Items)]
    /\ \A e \in Ends : Len(inbox[e]) <= SocketSize
    /\ open \in [Ends -> BOOLEAN] /\ reset \in BOOLEAN /\ damaged \in BOOLEAN

ServerType ==
    /\ serverAt \in ServerPlaces
    /\ serverRevents \subseteq Events \cup {"pipe_in", "pipe_hup"}
    /\ serverBuffer \in Seq(Bytes) /\ to_child_pip \in Seq(Bytes) /\ to_parent_pip \in Seq(Bytes)
    /\ given \in Seq(Bytes) /\ wrote \in Seq(Bytes)
    /\ Len(serverBuffer) <= BufferSize
    /\ Len(to_child_pip) <= PipeSize /\ Len(to_parent_pip) <= PipeSize
    /\ input \in BOOLEAN /\ reported \in BOOLEAN
    /\ shell \in {"none", "running", "exited", "killed"}

ClientType ==
    /\ script \in Seq(Bytes) /\ clientBuffer \in Seq(Bytes)
    /\ echo \in Seq(Bytes) /\ screen \in Seq(Bytes)
    /\ script \in Scripts[comp] /\ typed \in 0 .. Len(script)
    /\ clientAt \in ClientPlaces
    /\ clientRevents \subseteq Events \cup {"keys_in"}
    /\ terminal \in {"cooked", "raw"}

Types == NetType /\ ServerType /\ ClientType

LEMMA TypeParts == TypeOK <=> Types
<1>1. (\A s \in {serverBuffer, to_child_pip, to_parent_pip, given, wrote,
                 script, clientBuffer, echo, screen} : s \in Seq(Bytes))
      <=> /\ serverBuffer \in Seq(Bytes) /\ to_child_pip \in Seq(Bytes) /\ to_parent_pip \in Seq(Bytes)
          /\ given \in Seq(Bytes) /\ wrote \in Seq(Bytes)
          /\ script \in Seq(Bytes) /\ clientBuffer \in Seq(Bytes)
          /\ echo \in Seq(Bytes) /\ screen \in Seq(Bytes)
  OBVIOUS
<1> QED BY <1>1, Zenon DEF TypeOK, Types, NetType, ServerType, ClientType

LEMMA NewlineType == ASSUME NEW b \in Bytes PROVE Newline(b) \in Bytes
BY DEF Newline, Bytes

LEMMA ReadableBound ==
    ASSUME NEW s, Len(s) \in Nat, NEW n \in Readable(s)
    PROVE  n \in 1 .. Len(s) /\ n <= BufferSize
<1>1. BufferSize \in Nat
  BY SocketAssumption
<1>2. CASE Len(s) < BufferSize
  BY <1>1, <1>2 DEF Readable
<1>3. CASE ~(Len(s) < BufferSize)
  BY <1>1, <1>3 DEF Readable
<1> QED BY <1>2, <1>3

\* What inflate returns fits the buffer.
LEMMA InflatedType ==
    ASSUME comp \in BOOLEAN, NEW s \in Seq(Items), Len(s) <= BufferSize, NEW noise \in SUBSET Bytes,
           NEW d \in Inflations(s, noise)
    PROVE  d \in Seq(Bytes) /\ Len(d) <= BufferSize
<1>1. BufferSize \in Nat \ {0}
  BY SocketAssumption
<1>2. CASE Intact(s)
  <2>1. d = Data(s) /\ (comp => Len(d) <= BufferSize)
    BY <1>2 DEF Inflations
  <2>2. d \in Seq(Bytes)
    BY <2>1, DataType
  <2>3. ~comp => d = s
    BY <2>1 DEF Data
  <2> QED BY <2>1, <2>2, <2>3
<1>3. CASE ~Intact(s)
  <2>1. d = <<>> \/ \E b \in noise : d = <<b>>
    BY <1>3 DEF Inflations
  <2>2. CASE d = <<>>
    BY <1>1, <2>2
  <2>3. ASSUME NEW b \in noise, d = <<b>> PROVE d \in Seq(Bytes) /\ Len(d) <= BufferSize
    <3>1. <<b>> \in Seq(Bytes) /\ Len(<<b>>) = 1
      OBVIOUS
    <3> QED BY <1>1, <2>3, <3>1
  <2> QED BY <2>1, <2>2, <2>3
<1> QED BY <1>2, <1>3

LEMMA NetSend ==
    ASSUME NetType, NEW end \in Ends, NEW item \in Items, Send(end, item), comp' = comp
    PROVE  NetType'
<1> DEFINE other == Other(end)
<1>1. other \in Ends /\ \A e \in Ends : e = end \/ e = other
  BY OtherEnd DEF Ends
<1> HIDE DEF other
<1>2. other = Other(end)
  BY DEF other
<1> DEFINE X == Items
<1>3. inbox \in [Ends -> Seq(X)] /\ item \in X
  BY DEF NetType
<1> HIDE DEF X
<1>4. /\ inbox' \in [Ends -> Seq(X)]
      /\ inbox'[end] = inbox[end]
      /\ IF open[other] THEN /\ Len(inbox[other]) < SocketSize
                             /\ inbox'[other] = Append(inbox[other], item)
                             /\ reset' = reset
         ELSE inbox' = inbox /\ reset' \in BOOLEAN
      /\ open' = open /\ ~reset
      /\ damaged' = (damaged \/ (comp /\ ~item.ok))
  BY <1>1, <1>2, <1>3, Sending
<1>5. inbox[other] \in Seq(X) /\ Len(inbox[other]) \in Nat /\ SocketSize \in Nat
  BY <1>1, <1>3, SocketAssumption
<1>6. Len(inbox'[other]) <= SocketSize
  <2>1. CASE open[other]
    BY <1>3, <1>4, <1>5, <2>1
  <2>2. CASE ~open[other]
    BY <1>1, <1>4, <2>2 DEF NetType
  <2> QED BY <2>1, <2>2
<1>7. \A e \in Ends : Len(inbox'[e]) <= SocketSize
  BY <1>1, <1>4, <1>6 DEF NetType
<1>8. reset' \in BOOLEAN /\ damaged' \in BOOLEAN /\ open' \in [Ends -> BOOLEAN]
  BY <1>4 DEF NetType
<1>9. Items' = Items
  BY DEF Items
<1> QED BY <1>4, <1>7, <1>8, <1>9 DEF NetType, X

LEMMA NetReceive ==
    ASSUME NetType, NEW end \in Ends, NEW n \in 1 .. Len(inbox[end]), Receive(end, n), comp' = comp
    PROVE  NetType'
<1>1. /\ inbox' \in [Ends -> Seq(Items)]
      /\ Len(inbox'[end]) <= Len(inbox[end])
      /\ \A e \in Ends \ {end} : inbox'[e] = inbox[e]
      /\ UNCHANGED <<open, reset, damaged>>
  BY Receiving DEF NetType
<1>2. Len(inbox'[end]) \in Nat /\ Len(inbox[end]) \in Nat /\ SocketSize \in Nat
  BY <1>1, SocketAssumption DEF NetType
<1>3. ASSUME NEW e \in Ends PROVE Len(inbox'[e]) <= SocketSize
  <2>1. Len(inbox[e]) <= SocketSize
    BY DEF NetType
  <2>2. CASE e = end
    BY <1>1, <1>2, <2>1, <2>2
  <2>3. CASE e # end
    BY <1>1, <2>1, <2>3
  <2> QED BY <2>2, <2>3
<1>4. Items' = Items
  BY DEF Items
<1> QED BY <1>1, <1>3, <1>4 DEF NetType

LEMMA NetClose ==
    ASSUME NetType, NEW end \in Ends, Close(end), comp' = comp
    PROVE  NetType'
<1> DEFINE other == Other(end)
<1>1. other \in Ends /\ \A e \in Ends : e = end \/ e = other
  BY OtherEnd DEF Ends
<1> HIDE DEF other
<1>2. other = Other(end)
  BY DEF other
<1>3. /\ inbox' \in [Ends -> Seq(Items)]
      /\ inbox'[end] = <<>>
      /\ Len(inbox'[other]) <= Len(inbox[other])
      /\ open' \in [Ends -> BOOLEAN]
      /\ reset' = reset \/ reset' = TRUE
      /\ damaged' = damaged
  BY <1>1, <1>2, Closing DEF NetType
<1>4. Len(inbox'[other]) \in Nat /\ Len(inbox[other]) \in Nat /\ SocketSize \in Nat /\ Len(<<>>) = 0
  BY <1>1, <1>3, SocketAssumption DEF NetType
<1>5. ASSUME NEW e \in Ends PROVE Len(inbox'[e]) <= SocketSize
  <2>1. Len(inbox[e]) <= SocketSize
    BY DEF NetType
  <2>2. CASE e = other
    BY <1>3, <1>4, <2>1, <2>2
  <2>3. CASE e = end
    BY <1>3, <1>4, <2>3
  <2> QED BY <1>1, <2>2, <2>3
<1>6. Items' = Items
  BY DEF Items
<1> QED BY <1>3, <1>5, <1>6 DEF NetType

LEMMA NetSame == ASSUME NetType, UNCHANGED <<comp, socketVars>> PROVE NetType'
BY DEF NetType, socketVars, Items


\* What a move, or an end, of the server leaves of the types.
LEMMA ServerMoveType ==
    ASSUME Types, NEW from, NEW to \in ServerPlaces, ServerMove(from, to), UNCHANGED <<comp, clientVars>>
    PROVE  Types'
<1>1. NetType' /\ ServerType' /\ ClientType'
  BY NetSame DEF Types, ServerMove, ServerType, ClientType, shellVars, clientVars
<1> QED BY <1>1 DEF Types

LEMMA ServerExitType ==
    ASSUME Types, NEW c \in ServerPlaces, ServerExit(c), reported' \in BOOLEAN,
           UNCHANGED <<comp, clientVars>>
    PROVE  Types'
<1>1. "server" \in Ends
  BY DEF Ends
<1>2. NetType'
  BY <1>1, NetClose DEF Types, ServerExit
<1>3. ServerType' /\ ClientType'
  BY DEF Types, ServerExit, ServerType, ClientType, shellVars, clientVars
<1> QED BY <1>2, <1>3 DEF Types

LEMMA ReadSocketType ==
    ASSUME Types, ReadSocket, UNCHANGED <<comp, clientVars>>
    PROVE  Types'
<1>1. NetType /\ ServerType /\ ClientType /\ "server" \in Ends
  BY DEF Types, Ends
<1> DEFINE in == inbox["server"]
<1>2. PICK n \in Readable(in) :
         /\ Receive("server", n)
         /\ \/ serverBuffer' \in Inflations(SubSeq(in, 1, n), {"eot", "etx", "junk"}) /\ serverAt' = "keys"
            \/ serverAt' = "hung" /\ UNCHANGED serverBuffer
  BY DEF ReadSocket
<1>3. in \in Seq(Items) /\ Len(in) \in Nat
  BY <1>1 DEF NetType
<1>4. n \in 1 .. Len(in) /\ n <= BufferSize
  BY <1>3, ReadableBound
<1>5. NetType'
  BY <1>1, <1>2, <1>4, NetReceive
<1>6. SubSeq(in, 1, n) \in Seq(Items) /\ Len(SubSeq(in, 1, n)) <= BufferSize
  BY <1>3, <1>4
<1>7. serverBuffer' \in Seq(Bytes) /\ Len(serverBuffer') <= BufferSize
  <2>1. CASE serverBuffer' \in Inflations(SubSeq(in, 1, n), {"eot", "etx", "junk"})
    <3> DEFINE items == SubSeq(in, 1, n)
               d == serverBuffer'
               noise == {"eot", "etx", "junk"}
    <3>1. comp \in BOOLEAN /\ items \in Seq(Items) /\ Len(items) <= BufferSize
          /\ noise \in SUBSET Bytes /\ d \in Inflations(items, noise)
      BY <1>1, <1>6, <2>1 DEF NetType, Bytes
    <3> HIDE DEF items, d, noise
    <3>2. d \in Seq(Bytes) /\ Len(d) <= BufferSize
      BY <3>1, InflatedType
    <3> QED BY <3>2 DEF d
  <2>2. CASE UNCHANGED serverBuffer
    BY <1>1, <2>2 DEF ServerType
  <2> QED BY <1>2, <2>1, <2>2
<1>8. ServerType' /\ ClientType'
  BY <1>1, <1>2, <1>7 DEF ReadSocket, ServerType, ClientType, ServerPlaces, shellVars, clientVars
<1> QED BY <1>5, <1>8 DEF Types

\* One byte of the server's buffer is taken.
LEMMA NextByteType ==
    ASSUME ServerType, NEW place, NEW b, NextByte(place, b)
    PROVE  /\ b \in Bytes
           /\ serverBuffer' \in Seq(Bytes) /\ Len(serverBuffer') <= BufferSize
           /\ Len(serverBuffer') <= Len(serverBuffer)
           /\ UNCHANGED <<serverAt, serverRevents, reported>>
<1>1. BufferSize \in Nat
  BY SocketAssumption
<1> QED BY <1>1 DEF NextByte, ServerType

LEMMA ServerReadsType ==
    ASSUME Types, UNCHANGED <<comp, clientVars>>,
           \/ \E place : EndOfInput(place) \/ Interrupt(place)
           \/ GiveByte
    PROVE  Types'
<1>1. NetType /\ ServerType /\ ClientType
  BY DEF Types
<1>2. ASSUME NEW place, EndOfInput(place) \/ Interrupt(place) PROVE Types'
  <2>1. /\ serverBuffer' \in Seq(Bytes) /\ Len(serverBuffer') <= BufferSize
        /\ UNCHANGED <<serverAt, serverRevents, reported>>
    BY <1>1, <1>2, NextByteType DEF EndOfInput, Interrupt
  <2>2. UNCHANGED <<socketVars, given, to_child_pip, to_parent_pip, wrote>>
    BY <1>2 DEF EndOfInput, Interrupt, shellVars
  <2>3. input' \in BOOLEAN /\ shell' \in {"none", "running", "exited", "killed"}
    BY <1>1, <1>2 DEF EndOfInput, Interrupt, Kill, shellVars, ServerType
  <2>4. NetType' /\ ServerType' /\ ClientType'
    BY <1>1, <2>1, <2>2, <2>3, NetSame DEF ServerType, ClientType, clientVars
  <2> QED BY <2>4 DEF Types
<1>3. CASE GiveByte
  <2>1. PICK b \in Bytes \ {"eot", "etx"} :
           /\ NextByte("keys", b)
           /\ to_child_pip' = Append(to_child_pip, Newline(b))
           /\ given' = Append(given, Newline(b))
    BY <1>3 DEF GiveByte
  <2>2. /\ serverBuffer' \in Seq(Bytes) /\ Len(serverBuffer') <= BufferSize
        /\ UNCHANGED <<serverAt, serverRevents, reported>>
    BY <1>1, <2>1, NextByteType
  <2>3. UNCHANGED <<socketVars, input, to_parent_pip, shell, wrote>> /\ Len(to_child_pip) < PipeSize
    BY <1>3 DEF GiveByte
  <2> DEFINE n == Newline(b)
  <2>4. n \in Bytes
    BY NewlineType
  <2>5. to_child_pip' = Append(to_child_pip, n) /\ given' = Append(given, n)
    BY <2>1
  <2> HIDE DEF n
  <2>6. PipeSize \in Nat
    BY ServerAssumption
  <2>7. to_child_pip' \in Seq(Bytes) /\ Len(to_child_pip') <= PipeSize /\ given' \in Seq(Bytes)
    BY <1>1, <2>3, <2>4, <2>5, <2>6 DEF ServerType
  <2>8. NetType' /\ ServerType' /\ ClientType'
    BY <1>1, <2>2, <2>3, <2>7, NetSame DEF ServerType, ClientType, clientVars
  <2> QED BY <2>8 DEF Types
<1> QED BY <1>2, <1>3

LEMMA ReadPipeType ==
    ASSUME Types, ReadPipe, UNCHANGED <<comp, clientVars>>
    PROVE  Types'
<1>1. NetType /\ ServerType /\ ClientType
  BY DEF Types
<1>2. PICK n \in Readable(to_parent_pip) :
         /\ serverBuffer' = SubSeq(to_parent_pip, 1, n)
         /\ to_parent_pip' = SubSeq(to_parent_pip, n + 1, Len(to_parent_pip))
  BY DEF ReadPipe
<1>3. to_parent_pip \in Seq(Bytes) /\ Len(to_parent_pip) \in Nat /\ PipeSize \in Nat
  BY <1>1, ServerAssumption DEF ServerType
<1>4. n \in 1 .. Len(to_parent_pip) /\ n <= BufferSize
  BY <1>3, ReadableBound
<1>5. /\ serverBuffer' \in Seq(Bytes) /\ Len(serverBuffer') <= BufferSize
      /\ to_parent_pip' \in Seq(Bytes) /\ Len(to_parent_pip') <= Len(to_parent_pip)
  BY <1>2, <1>3, <1>4
<1>6. Len(to_parent_pip') <= PipeSize
  BY <1>1, <1>3, <1>5 DEF ServerType
<1>7. NetType' /\ ServerType' /\ ClientType'
  BY <1>1, <1>5, <1>6, NetSame DEF ReadPipe, ServerType, ServerPlaces, ClientType, clientVars
<1> QED BY <1>7 DEF Types

\* The shell's output goes to the client.
LEMMA ServerSendsType ==
    ASSUME Types, SendByte \/ SendPacket, UNCHANGED <<comp, clientVars>>
    PROVE  Types'
<1>1. NetType /\ ServerType /\ ClientType /\ "server" \in Ends
  BY DEF Types, Ends
<1>2. CASE SendByte
  <2>1. PICK b \in Bytes \ {"eot", "etx"} : NextByte("output", b) /\ Send("server", Newline(b))
    BY <1>2 DEF SendByte
  <2>2. Newline(b) \in Items
    BY <1>2, NewlineType DEF SendByte, Items
  <2>3. NetType'
    BY <1>1, <2>1, <2>2, NetSend
  <2>4. /\ serverBuffer' \in Seq(Bytes) /\ Len(serverBuffer') <= BufferSize
        /\ UNCHANGED <<serverAt, serverRevents, reported>>
    BY <1>1, <2>1, NextByteType
  <2>5. ServerType' /\ ClientType'
    BY <1>1, <1>2, <2>4 DEF SendByte, ServerType, ClientType, shellVars, clientVars
  <2> QED BY <2>3, <2>5 DEF Types
<1>3. CASE SendPacket
  <2>1. PICK found \in SUBSET {"eot", "etx", "cr"} :
           /\ Send("server", [data |-> serverBuffer, ok |-> found = {}])
           /\ input' = (input /\ "eot" \notin found)
           /\ IF "etx" \in found THEN Kill ELSE UNCHANGED shell
    BY <1>3 DEF SendPacket
  <2> DEFINE item == [data |-> serverBuffer, ok |-> found = {}]
  <2>2. item \in Items
    BY <1>1, <1>3 DEF SendPacket, Items, Packets, ServerType
  <2>3. Send("server", item)
    BY <2>1
  <2> HIDE DEF item
  <2>4. NetType'
    BY <1>1, <2>2, <2>3, NetSend
  <2>5. input' \in BOOLEAN /\ shell' \in {"none", "running", "exited", "killed"}
    BY <1>1, <2>1 DEF Kill, ServerType
  <2>6. <<>> \in Seq(Bytes) /\ Len(<<>>) <= BufferSize
    BY SocketAssumption
  <2>7. ServerType' /\ ClientType'
    BY <1>1, <1>3, <2>5, <2>6 DEF SendPacket, ServerType, ClientType, clientVars
  <2> QED BY <2>4, <2>7 DEF Types
<1> QED BY <1>2, <1>3


LEMMA ServerTypes ==
    ASSUME Types, Server, UNCHANGED <<comp, clientVars>>
    PROVE  Types'
<1>1. ASSUME NEW from, NEW to \in ServerPlaces, ServerMove(from, to) PROVE Types'
  BY <1>1, ServerMoveType
<1>2. ASSUME NEW c \in ServerPlaces, ServerExit(c), reported' \in BOOLEAN PROVE Types'
  BY <1>2, ServerExitType
<1>3. reported \in BOOLEAN
  BY DEF Types, ServerType
<1>4. CASE ShellIsThere \/ ReadSocketEnd \/ NoSocketIn \/ KeysDone \/ NoSocketHup
           \/ NoPipeIn \/ OutputDone \/ PipeHup
  BY <1>1, <1>4 DEF ShellIsThere, ReadSocketEnd, NoSocketIn, KeysDone, NoSocketHup, NoPipeIn,
                    OutputDone, PipeHup, ServerPlaces
<1>5. CASE ShellIsGone \/ ReadSocketFails \/ GiveByteFails \/ SocketHup \/ SendFails \/ CloseAll
  BY <1>2, <1>3, <1>5 DEF ShellIsGone, ReadSocketFails, GiveByteFails, SocketHup, SendFails, CloseAll,
                          ServerFails, ServerPlaces
<1>6. CASE Accept
  <2>1. CASE ServerFails
    BY <1>2, <1>3, <2>1 DEF ServerFails, ServerPlaces
  <2>2. CASE ~ServerFails
    <3>1. NetType' /\ ServerType' /\ ClientType'
      BY <1>6, <2>2, NetSame DEF Types, Accept, ServerType, ServerPlaces, ClientType, clientVars
    <3> QED BY <3>1 DEF Types
  <2> QED BY <2>1, <2>2
<1>7. CASE PollServer
  <2>1. serverRevents' \subseteq Events \cup {"pipe_in", "pipe_hup"} /\ serverAt' \in ServerPlaces
    BY <1>7 DEF PollServer, SocketEvents, PipeEvents, Events, ServerPlaces
  <2>2. NetType' /\ ServerType' /\ ClientType'
    BY <1>7, <2>1, NetSame DEF Types, PollServer, ServerType, ClientType, shellVars, clientVars
  <2> QED BY <2>2 DEF Types
<1>8. CASE NoPipeHup \/ WaitShell
  <2>1. NetType' /\ ServerType' /\ ClientType'
    BY <1>8, NetSame DEF Types, NoPipeHup, WaitShell, ServerType, ServerPlaces, ClientType, shellVars, clientVars
  <2> QED BY <2>1 DEF Types
<1>9. CASE EndOfInput("keys") \/ Interrupt("keys") \/ GiveByte \/ EndOfInput("output") \/ Interrupt("output")
  BY <1>9, ServerReadsType
<1>10. CASE ReadSocket \/ ReadPipe \/ SendByte \/ SendPacket
  BY <1>10, ReadSocketType, ReadPipeType, ServerSendsType
<1> QED
  BY <1>4, <1>5, <1>6, <1>7, <1>8, <1>9, <1>10 DEF Server

LEMMA ShellTypes ==
    ASSUME Types, Shell, UNCHANGED <<comp, clientVars>>
    PROVE  Types'
<1>1. NetType' /\ ClientType'
  BY NetSame DEF Types, Shell, ClientType, clientVars
<1>2. PipeSize \in Nat
  BY ServerAssumption
<1>3. CASE ShellReads
  <2>1. to_child_pip' \in Seq(Bytes) /\ Len(to_child_pip') <= PipeSize
    BY <1>2, <1>3 DEF Types, ServerType, ShellReads
  <2> QED BY <1>1, <1>3, <2>1 DEF Types, ServerType, Shell, ShellReads
<1>4. CASE ShellWrites
  <2>1. PICK b \in Bytes : to_parent_pip' = Append(to_parent_pip, b) /\ wrote' = Append(wrote, b)
    BY <1>4 DEF ShellWrites
  <2>2. to_parent_pip' \in Seq(Bytes) /\ wrote' \in Seq(Bytes) /\ Len(to_parent_pip') <= PipeSize
    BY <1>2, <1>4, <2>1 DEF Types, ServerType, ShellWrites
  <2> QED BY <1>1, <1>4, <2>2 DEF Types, ServerType, Shell, ShellWrites
<1>5. CASE ShellEnds
  BY <1>1, <1>5 DEF Types, ServerType, Shell, ShellEnds
<1> QED BY <1>3, <1>4, <1>5 DEF Shell

LEMMA ClientExitType ==
    ASSUME Types, UNCHANGED <<comp, serverVars>>, Close("client"),
           clientAt' \in ClientPlaces, terminal' \in {"cooked", "raw"},
           UNCHANGED <<script, typed, clientBuffer, clientRevents, echo, screen>>
    PROVE  Types'
<1>1. "client" \in Ends
  BY DEF Ends
<1>2. NetType'
  BY <1>1, NetClose DEF Types
<1>3. ServerType' /\ ClientType'
  BY DEF Types, ServerType, ClientType, serverVars
<1> QED BY <1>2, <1>3 DEF Types

\* What a read of the keyboard echoes.
LEMMA EchoedType ==
    ASSUME NEW s \in Seq(Bytes), NEW m \in Nat, NEW n \in Nat, m + n <= Len(s)
    PROVE  [i \in 1 .. n |-> Newline(s[m + i])] \in Seq(Bytes)
<1>1. \A i \in 1 .. n : s[m + i] \in Bytes
  <2>1. \A i \in 1 .. n : m + i \in 1 .. Len(s)
    OBVIOUS
  <2> QED BY <2>1
<1>2. \A i \in 1 .. n : Newline(s[m + i]) \in Bytes
  BY <1>1, NewlineType
<1> QED BY <1>2

LEMMA ReadKeysType ==
    ASSUME Types, ReadKeys, UNCHANGED <<comp, serverVars>>
    PROVE  Types'
<1>1. NetType /\ ServerType /\ ClientType
  BY DEF Types
<1>2. PICK n \in 1 .. KeySize :
         /\ typed + n <= Len(script)
         /\ typed' = typed + n
         /\ clientBuffer' = SubSeq(script, typed + 1, typed + n)
         /\ echo' = echo \o [i \in 1 .. n |-> Newline(script[typed + i])]
  BY DEF ReadKeys
<1>3. script \in Seq(Bytes) /\ typed \in Nat /\ n \in Nat
  BY <1>1, ClientAssumption DEF ClientType
<1>4. clientBuffer' \in Seq(Bytes) /\ typed' \in 0 .. Len(script)
  BY <1>2, <1>3, Part
<1> DEFINE new == [i \in 1 .. n |-> Newline(script[typed + i])]
<1>5. new \in Seq(Bytes)
  BY <1>2, <1>3, EchoedType
<1>6. echo' = echo \o new
  BY <1>2
<1> HIDE DEF new
<1>7. echo' \in Seq(Bytes)
  BY <1>1, <1>5, <1>6, ConcatProperties DEF ClientType
<1>8. NetType' /\ ServerType' /\ ClientType'
  BY <1>1, <1>4, <1>7, NetSame DEF ReadKeys, ServerType, ClientType, ClientPlaces, serverVars
<1> QED BY <1>8 DEF Types

LEMMA ClientSendsType ==
    ASSUME Types, SendKey \/ SendKeys, UNCHANGED <<comp, serverVars>>
    PROVE  Types'
<1>1. NetType /\ ServerType /\ ClientType /\ "client" \in Ends
  BY DEF Types, Ends
<1>2. clientBuffer # <<>> /\ Head(clientBuffer) \in Bytes /\ Tail(clientBuffer) \in Seq(Bytes)
      /\ <<>> \in Seq(Bytes)
  BY <1>1 DEF SendKey, SendKeys, ClientType
<1>3. CASE SendKey
  <2>1. Newline(Head(clientBuffer)) \in Items
    BY <1>2, <1>3, NewlineType DEF SendKey, Items
  <2>2. NetType'
    BY <1>1, <1>3, <2>1, NetSend DEF SendKey
  <2>3. ServerType' /\ ClientType'
    BY <1>1, <1>2, <1>3 DEF SendKey, ServerType, ClientType, serverVars
  <2> QED BY <2>2, <2>3 DEF Types
<1>4. CASE SendKeys
  <2>1. PICK ok \in BOOLEAN : Send("client", [data |-> clientBuffer, ok |-> ok])
    BY <1>4 DEF SendKeys
  <2> DEFINE item == [data |-> clientBuffer, ok |-> ok]
  <2>2. item \in Items
    BY <1>1, <1>4 DEF SendKeys, Items, Packets, ClientType
  <2>3. Send("client", item)
    BY <2>1
  <2> HIDE DEF item
  <2>4. NetType'
    BY <1>1, <2>2, <2>3, NetSend
  <2>5. ServerType' /\ ClientType'
    BY <1>1, <1>2, <1>4 DEF SendKeys, ServerType, ClientType, serverVars
  <2> QED BY <2>4, <2>5 DEF Types
<1> QED BY <1>3, <1>4

LEMMA NewlinesType ==
    ASSUME NEW s \in Seq(Bytes)
    PROVE  /\ Newlines(s) \in Seq(Bytes)
           /\ Newlines(s) = Replaced(s, {"cr", "nl"}, "nl")
<1>1. "nl" \in Bytes
  BY DEF Bytes
<1>2. Newlines(s) = Replaced(s, {"cr", "nl"}, "nl")
  BY DEF Newlines, Newline, Replaced
<1> QED BY <1>1, <1>2, ReplacedType

LEMMA ShowServerType ==
    ASSUME Types, ShowServer, UNCHANGED <<comp, serverVars>>
    PROVE  Types'
<1>1. NetType /\ ServerType /\ ClientType /\ "client" \in Ends
  BY DEF Types, Ends
<1> DEFINE in == inbox["client"]
<1>2. PICK n \in Readable(in) :
         /\ Receive("client", n)
         /\ \/ /\ \E d \in Inflations(SubSeq(in, 1, n), {"junk"}) :
                     screen' = screen \o [i \in DOMAIN d |-> Newline(d[i])]
               /\ clientAt' = "hup"
            \/ clientAt' = "hung" /\ UNCHANGED screen
  BY DEF ShowServer
<1>3. in \in Seq(Items) /\ Len(in) \in Nat
  BY <1>1 DEF NetType
<1>4. n \in 1 .. Len(in) /\ n <= BufferSize
  BY <1>3, ReadableBound
<1>5. NetType'
  BY <1>1, <1>2, <1>4, NetReceive
<1>6. SubSeq(in, 1, n) \in Seq(Items) /\ Len(SubSeq(in, 1, n)) <= BufferSize
  BY <1>3, <1>4
<1>7. ASSUME NEW d \in Inflations(SubSeq(in, 1, n), {"junk"}),
             screen' = screen \o [i \in DOMAIN d |-> Newline(d[i])]
      PROVE  screen' \in Seq(Bytes)
  <2> DEFINE items == SubSeq(in, 1, n)
             noise == {"junk"}
  <2>1. comp \in BOOLEAN /\ items \in Seq(Items) /\ Len(items) <= BufferSize
        /\ noise \in SUBSET Bytes /\ d \in Inflations(items, noise)
    BY <1>1, <1>6, <1>7 DEF NetType, Bytes
  <2> HIDE DEF items, noise
  <2>2. d \in Seq(Bytes)
    BY <2>1, InflatedType
  <2>3. Newlines(d) \in Seq(Bytes) /\ screen' = screen \o Newlines(d)
    BY <1>7, <2>2, NewlinesType DEF Newlines
  <2> QED BY <1>1, <2>3, ConcatProperties DEF ClientType
<1>8. screen' \in Seq(Bytes)
  BY <1>1, <1>2, <1>7 DEF ClientType
<1>9. ServerType' /\ ClientType'
  BY <1>1, <1>2, <1>8 DEF ShowServer, ServerType, ClientType, ClientPlaces, serverVars
<1> QED BY <1>5, <1>9 DEF Types

LEMMA ClientTypes ==
    ASSUME Types, Client, UNCHANGED <<comp, serverVars>>
    PROVE  Types'
<1>1. NetType /\ ServerType /\ ClientType
  BY DEF Types
<1>2. ASSUME NEW from, NEW to \in ClientPlaces, ClientMove(from, to) PROVE Types'
  <2>1. NetType' /\ ServerType' /\ ClientType'
    BY <1>1, <1>2, NetSame DEF ClientMove, ServerType, ClientType, serverVars
  <2> QED BY <2>1 DEF Types
<1>3. CASE NotATerminal \/ NoKeys \/ KeysSent \/ NothingToShow
  BY <1>2, <1>3 DEF NotATerminal, NoKeys, KeysSent, NothingToShow, ClientPlaces
<1>4. CASE ServerClosed \/ ClientHup \/ SendKeyFails
  <2>1. CASE ClientExit
    BY <2>1, ClientExitType DEF ClientExit, ClientPlaces
  <2>2. CASE ~ClientExit
    BY <1>1, <1>4, <2>2, ClientExitType DEF ServerClosed, ClientHup, SendKeyFails, ClientPlaces, ClientType
  <2> QED BY <2>1, <2>2
<1>5. CASE SetTerminal \/ PollClient \/ NoClientHup
  <2>1. clientRevents' \subseteq Events \cup {"keys_in"} /\ clientAt' \in ClientPlaces
    BY <1>1, <1>5 DEF SetTerminal, PollClient, NoClientHup, SocketEvents, Events, ClientPlaces, ClientType
  <2>2. NetType' /\ ServerType' /\ ClientType'
    BY <1>1, <1>5, <2>1, NetSame DEF SetTerminal, PollClient, NoClientHup, ServerType, ClientType, serverVars
  <2> QED BY <2>2 DEF Types
<1>6. CASE Connect \/ ConnectFails
  <2>1. open' \in [Ends -> BOOLEAN] /\ reset' \in BOOLEAN /\ UNCHANGED <<comp, inbox, damaged>>
    BY <1>1, <1>6 DEF Connect, ConnectFails, NetType
  <2>2. NetType'
    BY <1>1, <2>1 DEF NetType, Items
  <2>3. ServerType' /\ ClientType'
    BY <1>1, <1>6 DEF Connect, ConnectFails, ServerType, ClientType, ClientPlaces, serverVars
  <2> QED BY <2>2, <2>3 DEF Types
<1>7. CASE ReadKeys \/ SendKey \/ SendKeys \/ ShowServer
  BY <1>7, ReadKeysType, ClientSendsType, ShowServerType
<1> QED
  BY <1>3, <1>4, <1>5, <1>6, <1>7 DEF Client

-----------------------------------------------------------------------------
(* Where the two programs are, and how they end.                           *)

\* What the server's place says of its shell, its buffer and the connection.
ServerInv ==
    /\ ServerEndings
    /\ serverAt = "accept" => /\ shell = "none" /\ given = <<>> /\ wrote = <<>> /\ to_parent_pip = <<>>
                              /\ open["client"] => open["server"]
    /\ "socket_hup" \in serverRevents => reset
    /\ serverAt \notin {"accept", "reap", "exit0", "exit1"} => open["server"]
    /\ serverAt \notin {"keys", "output", "exit1"} => serverBuffer = <<>>

\* What the client's place says of the connection.  As long as the client runs
\* the connection breaks only when the server closes it.
ClientInv ==
    /\ TerminalRestored
    /\ clientAt \in {"start", "connect"} =>
          /\ serverAt = "accept" /\ typed = 0 /\ screen = <<>>
          /\ ~reset /\ \A e \in Ends : inbox[e] = <<>> /\ ~open[e]
    /\ clientAt = "start" => terminal = "cooked"
    /\ ~ClientEnded /\ clientAt \notin {"start", "connect"} /\ ~reset => open["client"]
    /\ ~ClientEnded /\ reset => ~open["server"]
    /\ clientAt \notin {"send", "exit0", "SIGPIPE"} => clientBuffer = <<>>

LEMMA SendNet ==
    ASSUME NEW end \in Ends, NEW other, other = Other(end), NEW item, Send(end, item)
    PROVE  open' = open /\ ~reset /\ (reset' => ~open[other])
BY DEF Send

LEMMA CloseNet ==
    ASSUME Types, NEW end \in Ends, NEW other \in Ends, other = Other(end), Close(end)
    PROVE  ~open'[end] /\ open'[other] = open[other] /\ (reset => reset')
<1>1. inbox \in [Ends -> Seq(Items)] /\ open \in [Ends -> BOOLEAN]
  BY DEF Types, NetType
<1>2. ~open'[end] /\ open'[other] = open[other] /\ (reset' = reset \/ reset' = TRUE)
  BY <1>1, Closing
<1> QED BY <1>2

\* The server breaks the connection when it closes it, or when it finds that the
\* client did.
LEMMA ServerNet ==
    ASSUME Types, Server
    PROVE  /\ open'["client"] = open["client"]
           /\ open'["server"] => open["server"]
           /\ reset => reset'
           /\ reset' => reset \/ ~open["client"] \/ ~open'["server"]
<1>1. "client" \in Ends /\ "server" \in Ends /\ Other("server") = "client"
  BY OtherEnd DEF Ends
<1>2. CASE UNCHANGED <<open, reset>>
  BY <1>2
<1>3. ASSUME NEW c, ServerExit(c)
      PROVE  /\ ~open'["server"] /\ open'["client"] = open["client"]
             /\ reset => reset'
  BY <1>1, <1>3, CloseNet DEF ServerExit
<1>4. ASSUME NEW item, Send("server", item)
      PROVE  open' = open /\ ~reset /\ (reset' => ~open["client"])
  BY <1>1, <1>4, SendNet
<1>5. CASE ShellIsThere \/ ReadSocketEnd \/ NoSocketIn \/ KeysDone \/ NoSocketHup
           \/ NoPipeIn \/ OutputDone \/ PipeHup \/ PollServer \/ NoPipeHup \/ WaitShell
  BY <1>2, <1>5 DEF ShellIsThere, ReadSocketEnd, NoSocketIn, KeysDone, NoSocketHup, NoPipeIn,
                    OutputDone, PipeHup, ServerMove, PollServer, NoPipeHup, WaitShell, socketVars
<1>6. CASE ShellIsGone \/ ReadSocketFails \/ GiveByteFails \/ SocketHup \/ SendFails \/ CloseAll
  BY <1>3, <1>6 DEF ShellIsGone, ReadSocketFails, GiveByteFails, SocketHup, SendFails, CloseAll, ServerFails
<1>7. CASE Accept
  BY <1>2, <1>3, <1>7 DEF Accept, ServerFails, socketVars
<1>8. CASE \/ EndOfInput("keys") \/ Interrupt("keys") \/ EndOfInput("output") \/ Interrupt("output")
           \/ GiveByte \/ ReadPipe
  BY <1>2, <1>8 DEF EndOfInput, Interrupt, GiveByte, ReadPipe, socketVars
<1>9. CASE ReadSocket
  BY <1>2, <1>9 DEF ReadSocket, Receive
<1>10. CASE SendByte \/ SendPacket
  BY <1>4, <1>10 DEF SendByte, SendPacket
<1> QED
  BY <1>5, <1>6, <1>7, <1>8, <1>9, <1>10 DEF Server

\* The client opens the connection, at both ends, or leaves the server's alone.
LEMMA ClientNet ==
    ASSUME Types, Client
    PROVE  /\ open["server"] => open'["server"]
           /\ open'["client"] => open["client"] \/ open'["server"]
           /\ reset => reset'
<1>1. "client" \in Ends /\ "server" \in Ends /\ Other("client") = "server"
  BY OtherEnd DEF Ends
<1>2. CASE UNCHANGED <<open, reset>>
  BY <1>2
<1>3. CASE Close("client")
  BY <1>1, <1>3, CloseNet
<1>4. ASSUME NEW item, Send("client", item) PROVE open' = open /\ ~reset
  BY <1>1, <1>4, SendNet
<1>5. CASE SetTerminal \/ NotATerminal \/ PollClient \/ ReadKeys \/ NoKeys \/ KeysSent \/ NothingToShow \/ NoClientHup
  BY <1>2, <1>5 DEF SetTerminal, NotATerminal, PollClient, ReadKeys, NoKeys, KeysSent, NothingToShow,
                    NoClientHup, ClientMove, socketVars
<1>6. CASE Connect
  BY <1>1, <1>6 DEF Connect
<1>7. CASE ConnectFails
  BY <1>7 DEF ConnectFails
<1>8. CASE ShowServer
  BY <1>2, <1>8 DEF ShowServer, Receive
<1>9. CASE ServerClosed \/ ClientHup \/ SendKeyFails
  BY <1>3, <1>9 DEF ServerClosed, ClientHup, SendKeyFails, ClientExit
<1>10. CASE SendKey \/ SendKeys
  BY <1>4, <1>10 DEF SendKey, SendKeys
<1> QED
  BY <1>5, <1>6, <1>7, <1>8, <1>9, <1>10 DEF Client

LEMMA ServerPlaceNext ==
    ASSUME Types, ServerInv, Server
    PROVE  ServerInv'
<1> USE DEF ServerInv, ServerEndings, ShellDead
<1>1. /\ open'["client"] = open["client"]
      /\ open'["server"] => open["server"]
      /\ reset => reset'
  BY ServerNet
<1>2. input \in BOOLEAN /\ reported \in BOOLEAN
  BY DEF Types, ServerType
<1>3. CASE ShellIsThere \/ ReadSocketEnd \/ NoSocketIn \/ KeysDone \/ NoSocketHup
           \/ NoPipeIn \/ OutputDone \/ PipeHup
  BY <1>3 DEF ShellIsThere, ReadSocketEnd, NoSocketIn, KeysDone, NoSocketHup, NoPipeIn,
              OutputDone, PipeHup, ServerMove, socketVars, shellVars
<1>4. CASE PollServer
  <2>1. "socket_hup" \in serverRevents' => reset
    BY <1>4 DEF PollServer, SocketEvents, PipeEvents
  <2> QED BY <1>4, <2>1 DEF PollServer, socketVars, shellVars
<1>5. CASE NoPipeHup \/ WaitShell
  BY <1>5 DEF NoPipeHup, WaitShell, socketVars, shellVars
<1>6. CASE ShellIsGone
  BY <1>1, <1>6 DEF ShellIsGone, ServerExit, shellVars
<1>7. CASE ReadSocketFails \/ GiveByteFails \/ SocketHup \/ SendFails
  BY <1>1, <1>2, <1>7 DEF ReadSocketFails, GiveByteFails, SocketHup, SendFails, ServerFails, ServerExit, shellVars
<1>8. CASE CloseAll
  BY <1>1, <1>2, <1>8 DEF CloseAll, ServerFails, ServerExit, shellVars
<1>9. CASE Accept
  <2>1. CASE ServerFails
    BY <1>1, <1>9, <2>1 DEF Accept, ServerFails, ServerExit, shellVars
  <2>2. CASE ~ServerFails
    BY <1>9, <2>2 DEF Accept, socketVars
  <2> QED BY <2>1, <2>2
<1>10. CASE EndOfInput("keys") \/ EndOfInput("output")
  BY <1>10 DEF EndOfInput, NextByte, socketVars, shellVars
<1>11. CASE Interrupt("keys") \/ Interrupt("output")
  BY <1>11 DEF Interrupt, NextByte, Kill, socketVars
<1>12. CASE GiveByte
  BY <1>12 DEF GiveByte, NextByte, socketVars
<1>13. CASE ReadSocket
  BY <1>13 DEF ReadSocket, Receive, shellVars
<1>14. CASE ReadPipe
  BY <1>14 DEF ReadPipe, socketVars
<1>15. CASE SendByte
  <2>1. open' = open /\ serverAt = "output" /\ UNCHANGED <<serverAt, serverRevents, reported>>
    BY <1>15 DEF SendByte, Send, NextByte
  <2> QED BY <1>1, <1>15, <2>1 DEF SendByte, shellVars
<1>16. CASE SendPacket
  <2>1. open' = open /\ (input' => input) /\ shell' \in {shell} \cup IF shell = "running" THEN {"killed"} ELSE {}
    BY <1>16 DEF SendPacket, Send, Kill
  <2> QED BY <1>1, <1>16, <2>1 DEF SendPacket
<1> QED
  BY <1>3, <1>4, <1>5, <1>6, <1>7, <1>8, <1>9, <1>10, <1>11, <1>12, <1>13, <1>14, <1>15, <1>16 DEF Server

LEMMA ServerPlaceOthers ==
    ASSUME Types, ServerInv,
           \/ Shell
           \/ Client /\ UNCHANGED serverVars
    PROVE  ServerInv'
<1> USE DEF ServerInv, ServerEndings, ShellDead
<1>1. CASE Shell
  BY <1>1 DEF Shell, ShellReads, ShellWrites, ShellEnds, socketVars
<1>2. CASE Client /\ UNCHANGED serverVars
  <2>1. /\ open["server"] => open'["server"]
        /\ open'["client"] => open["client"] \/ open'["server"]
        /\ reset => reset'
    BY <1>2, ClientNet
  <2> QED BY <1>2, <2>1 DEF serverVars
<1> QED BY <1>1, <1>2

LEMMA ClientPlaceNext ==
    ASSUME Types, ClientInv, Client, UNCHANGED serverVars
    PROVE  ClientInv'
<1> USE DEF ClientInv, TerminalRestored, ClientEnded
<1>1. "client" \in Ends /\ "server" \in Ends /\ Other("client") = "server"
  BY OtherEnd DEF Ends
<1>2. serverAt' = serverAt
  BY DEF serverVars
<1>3. CASE SetTerminal \/ NotATerminal \/ PollClient \/ NoKeys \/ KeysSent \/ NothingToShow \/ NoClientHup
  BY <1>2, <1>3 DEF SetTerminal, NotATerminal, PollClient, NoKeys, KeysSent, NothingToShow,
                    NoClientHup, ClientMove, socketVars
<1>4. CASE ReadKeys
  BY <1>4 DEF ReadKeys, socketVars
<1>5. CASE Connect
  BY <1>1, <1>5 DEF Connect
<1>6. CASE ConnectFails
  BY <1>1, <1>6 DEF ConnectFails
<1>7. CASE ShowServer
  BY <1>7 DEF ShowServer, Receive
<1>8. CASE ClientExit
  BY <1>8 DEF ClientExit
<1>9. CASE SendKeyFails /\ ~ClientExit
  <2>1. ~open'["server"]
    <3>1. ~open["server"]
      BY <1>9 DEF SendKeyFails
    <3> QED BY <1>1, <1>9, <3>1, CloseNet DEF SendKeyFails
  <2> QED BY <1>9, <2>1 DEF SendKeyFails
<1>10. CASE ServerClosed \/ ClientHup \/ SendKeyFails
  BY <1>8, <1>9, <1>10 DEF ServerClosed, ClientHup
<1>11. CASE SendKey \/ SendKeys
  <2>1. ASSUME NEW item, Send("client", item) PROVE open' = open /\ ~reset /\ (reset' => ~open["server"])
    BY <1>1, <2>1, SendNet
  <2> QED BY <1>11, <2>1 DEF SendKey, SendKeys
<1> QED
  BY <1>3, <1>4, <1>5, <1>6, <1>7, <1>10, <1>11 DEF Client

LEMMA ClientPlaceOthers ==
    ASSUME Types, ClientInv, Server \/ Shell, UNCHANGED clientVars
    PROVE  ClientInv'
<1> USE DEF ClientInv, TerminalRestored, ClientEnded
<1>1. CASE Shell
  BY <1>1 DEF Shell, socketVars, clientVars
<1>2. CASE Server
  <2>1. "client" \in Ends /\ "server" \in Ends
    BY DEF Ends
  <2>2. /\ open'["client"] = open["client"]
        /\ open'["server"] => open["server"]
        /\ reset => reset'
        /\ reset' => reset \/ ~open["client"] \/ ~open'["server"]
    BY <1>2, ServerNet
  <2>3. clientAt \notin {"start", "connect"}
    <3>1. ASSUME clientAt \in {"start", "connect"} PROVE FALSE
      <4>1. serverAt = "accept" /\ ~open["client"] /\ ~open["server"]
        BY <2>1, <3>1
      <4> QED
        BY <1>2, <4>1 DEF Server, Accept, ShellIsGone, ShellIsThere, PollServer, ReadSocket, ReadSocketEnd,
           ReadSocketFails, NoSocketIn, EndOfInput, Interrupt, GiveByte, GiveByteFails, KeysDone, SocketHup,
           NoSocketHup, ReadPipe, NoPipeIn, SendByte, SendPacket, SendFails, OutputDone, PipeHup, NoPipeHup,
           CloseAll, WaitShell, ServerMove, NextByte
    <3> QED BY <3>1
  <2> QED BY <2>2, <2>3 DEF clientVars
<1> QED BY <1>1, <1>2

-----------------------------------------------------------------------------
(* The types and the places, of every state.                               *)

Places == Types /\ ServerInv /\ ClientInv

LEMMA PlacesInit == Init => Places
<1> SUFFICES ASSUME Init PROVE Places
  OBVIOUS
<1>1. /\ SocketSize \in Nat /\ BufferSize \in Nat /\ PipeSize \in Nat
      /\ Scripts[comp] \in SUBSET Seq(Bytes)
  BY SocketAssumption, ServerAssumption, ClientAssumption DEF Init, SocketInit
<1> DEFINE empty == <<>>
<1>2. (\A S : empty \in Seq(S)) /\ Len(empty) = 0
  OBVIOUS
<1> HIDE DEF empty
<1>3. NetType
  <2>1. inbox = [e \in Ends |-> empty]
    BY DEF Init, SocketInit, empty
  <2>2. inbox \in [Ends -> Seq(Items)] /\ \A e \in Ends : Len(inbox[e]) <= SocketSize
    BY <1>1, <1>2, <2>1
  <2> QED BY <2>2 DEF Init, SocketInit, NetType
<1>4. ServerType
  <2>1. /\ serverBuffer = empty /\ to_child_pip = empty /\ to_parent_pip = empty
        /\ given = empty /\ wrote = empty
    BY DEF Init, ServerInit, empty
  <2>2. /\ serverBuffer \in Seq(Bytes) /\ to_child_pip \in Seq(Bytes) /\ to_parent_pip \in Seq(Bytes)
        /\ given \in Seq(Bytes) /\ wrote \in Seq(Bytes)
        /\ Len(serverBuffer) <= BufferSize
        /\ Len(to_child_pip) <= PipeSize /\ Len(to_parent_pip) <= PipeSize
    BY <1>1, <1>2, <2>1
  <2>3. /\ serverAt \in ServerPlaces /\ serverRevents = {} /\ input = TRUE /\ reported = FALSE
        /\ shell = "none"
    BY DEF Init, ServerInit, ServerPlaces
  <2> QED BY <2>2, <2>3 DEF ServerType
<1>5. ClientType
  <2>1. clientBuffer = empty /\ echo = empty /\ screen = empty
    BY DEF Init, ClientInit, empty
  <2>2. script \in Seq(Bytes) /\ Len(script) \in Nat
    BY <1>1 DEF Init, ClientInit
  <2> QED BY <1>1, <1>2, <2>1, <2>2 DEF Init, ClientInit, ClientType, ClientPlaces
<1>6. ServerInv
  BY DEF Init, SocketInit, ServerInit, ServerInv, ServerEndings, Ends
<1>7. ClientInv
  BY DEF Init, SocketInit, ServerInit, ClientInit, ClientInv, TerminalRestored, ClientEnded, Ends
<1> QED BY <1>3, <1>4, <1>5, <1>6, <1>7 DEF Places, Types

LEMMA PlacesNext == Places /\ [Next]_vars => Places'
<1> SUFFICES ASSUME Places, [Next]_vars PROVE Places'
  OBVIOUS
<1> USE DEF Places
<1>1. CASE Server /\ UNCHANGED <<comp, clientVars>>
  BY <1>1, ServerTypes, ServerPlaceNext, ClientPlaceOthers
<1>2. CASE Shell /\ UNCHANGED <<comp, clientVars>>
  BY <1>2, ShellTypes, ServerPlaceOthers, ClientPlaceOthers
<1>3. CASE Client /\ UNCHANGED <<comp, serverVars>>
  BY <1>3, ClientTypes, ServerPlaceOthers, ClientPlaceNext
<1>4. CASE UNCHANGED vars
  <2>1. UNCHANGED <<comp, socketVars, serverVars, clientVars>>
    BY <1>4 DEF vars
  <2>2. Types'
    BY <2>1, NetSame DEF Types, ServerType, ClientType, serverVars, clientVars
  <2>3. ServerInv' /\ ClientInv'
    BY <2>1 DEF ServerInv, ServerEndings, ShellDead, ClientInv, TerminalRestored, ClientEnded,
                socketVars, serverVars, clientVars
  <2> QED BY <2>2, <2>3
<1> QED BY <1>1, <1>2, <1>3, <1>4 DEF Next

LEMMA PlacesAlways == Spec => []Places
BY PlacesInit, PlacesNext, PTL DEF Spec

\* Every variable has its type, and no buffer, pipe or inbox more than it holds:
\* what inflate returns fits the buffer it is given.
THEOREM TypeCorrect == Spec => []TypeOK
<1>1. Places => TypeOK
  BY TypeParts DEF Places
<1> QED BY <1>1, PlacesAlways, PTL

\* The server reports the shell's end exactly when it ends well, with the shell
\* dead, and fails for a reason.
THEOREM ServerEnds == Spec => []ServerEndings
<1>1. Places => ServerEndings
  BY DEF Places, ServerInv
<1> QED BY <1>1, PlacesAlways, PTL

\* The client leaves the terminal as it found it, unless SIGPIPE ends it.
THEOREM TerminalIsRestored == Spec => []TerminalRestored
<1>1. Places => TerminalRestored
  BY DEF Places, ClientInv
<1> QED BY <1>1, PlacesAlways, PTL


-----------------------------------------------------------------------------
(* What becomes of a text on its way.                                      *)

LEMMA NewlinesConcat ==
    ASSUME NEW s \in Seq(Bytes), NEW t \in Seq(Bytes)
    PROVE  Newlines(s \o t) = Newlines(s) \o Newlines(t)
<1> DEFINE st == s \o t
           old == {"cr", "nl"}
           new == "nl"
<1>1. st \in Seq(Bytes) /\ new \in Bytes
  BY ConcatProperties DEF Bytes
<1> HIDE DEF old, new
<1>2. Replaced(s \o t, old, new) = Replaced(s, old, new) \o Replaced(t, old, new)
  BY <1>1, ReplacedConcat
<1> HIDE DEF st
<1>3. /\ Newlines(s) = Replaced(s, old, new) /\ Newlines(t) = Replaced(t, old, new)
      /\ Newlines(st) = Replaced(st, old, new)
  BY <1>1, NewlinesType DEF old, new
<1> QED BY <1>2, <1>3 DEF st

LEMMA NewlinesEmpty == Newlines(<<>>) = <<>>
BY DEF Newlines

LEMMA NewlinesOne == ASSUME NEW b \in Bytes PROVE Newlines(<<b>>) = <<Newline(b)>>
BY DEF Newlines

LEMMA NewlinesTwice ==
    ASSUME NEW s \in Seq(Bytes)
    PROVE  Newlines(Newlines(s)) = Newlines(s)
<1> DEFINE r == Newlines(s)
           old == {"cr", "nl"}
           new == "nl"
<1>1. new \in Bytes /\ new \in old
  BY DEF Bytes
<1>2. r \in Seq(Bytes) /\ r = Replaced(s, old, new)
  BY NewlinesType
<1> HIDE DEF r
<1>3. Newlines(r) = Replaced(r, old, new)
  BY <1>2, NewlinesType
<1> HIDE DEF old, new
<1>4. Replaced(Replaced(s, old, new), old, new) = Replaced(s, old, new)
  BY <1>1, ReplacedTwice
<1> QED BY <1>2, <1>3, <1>4 DEF r

LEMMA UserTextType == ASSUME NEW s \in Seq(Bytes) PROVE UserText(s) \in Seq(Bytes)
<1>1. Without(s, {"eot", "etx"}) \in Seq(Bytes)
  BY WithoutType
<1> QED BY <1>1, NewlinesType DEF UserText

LEMMA UserTextConcat ==
    ASSUME NEW s \in Seq(Bytes), NEW t \in Seq(Bytes)
    PROVE  UserText(s \o t) = UserText(s) \o UserText(t)
<1> DEFINE dropped == {"eot", "etx"}
           a == Without(s, dropped)
           b == Without(t, dropped)
<1>1. CASE comp
  BY <1>1, NewlinesConcat DEF UserText
<1>2. CASE ~comp
  <2> HIDE DEF dropped
  <2>1. a \in Seq(Bytes) /\ b \in Seq(Bytes)
    BY WithoutType
  <2>2. Without(s \o t, dropped) = a \o b
    BY WithoutConcat
  <2> HIDE DEF a, b
  <2>3. Newlines(a \o b) = Newlines(a) \o Newlines(b)
    BY <2>1, NewlinesConcat
  <2> QED BY <1>2, <2>2, <2>3 DEF UserText, a, b, dropped
<1> QED BY <1>1, <1>2

LEMMA UserTextEmpty == UserText(<<>>) = <<>>
BY WithoutEmpty, NewlinesEmpty DEF UserText

LEMMA UserTextOne ==
    ASSUME NEW b \in Bytes
    PROVE  /\ ~comp /\ b \in {"eot", "etx"} => UserText(<<b>>) = <<>>
           /\ b \notin {"eot", "etx"} => UserText(<<b>>) = <<Newline(b)>>
<1> DEFINE dropped == {"eot", "etx"}
           w == Without(<<b>>, dropped)
<1>1. (b \in dropped => w = <<>>) /\ (b \notin dropped => w = <<b>>)
  BY WithoutOne
<1>2. UserText(<<b>>) = Newlines(IF comp THEN <<b>> ELSE w)
  BY DEF UserText
<1> HIDE DEF w
<1> QED BY <1>1, <1>2, NewlinesEmpty, NewlinesOne

LEMMA ShellTextIs ==
    ASSUME NEW s \in Seq(Bytes)
    PROVE  ShellText(s) = Passed(s, "eot", {"cr", "nl"}, "nl", {"etx"})
<1> DEFINE b == Before(s, "eot")
<1>1. b \in Seq(Bytes)
  BY BeforeType
<1> HIDE DEF b
<1>2. Newlines(b) = Replaced(b, {"cr", "nl"}, "nl")
  BY <1>1, NewlinesType
<1> QED BY <1>2 DEF ShellText, Passed, b

LEMMA ShellTextType == ASSUME NEW s \in Seq(Bytes) PROVE ShellText(s) \in Seq(Bytes)
<1> DEFINE end == "eot"
           old == {"cr", "nl"}
           new == "nl"
           dropped == {"etx"}
<1>1. new \in Bytes
  BY DEF Bytes
<1>2. ShellText(s) = Passed(s, end, old, new, dropped)
  BY ShellTextIs
<1> HIDE DEF end, old, new, dropped
<1>3. Passed(s, end, old, new, dropped) \in Seq(Bytes)
  BY <1>1, PassedType
<1> QED BY <1>2, <1>3

LEMMA ShellTextOn ==
    ASSUME NEW s \in Seq(Bytes), NEW t \in Seq(Bytes)
    PROVE  /\ ~Contains(s, "eot") => ShellText(s \o t) = ShellText(s) \o ShellText(t)
           /\ Contains(s, "eot") => ShellText(s \o t) = ShellText(s)
<1> DEFINE end == "eot"
           old == {"cr", "nl"}
           new == "nl"
           dropped == {"etx"}
           st == s \o t
<1>1. new \in Bytes /\ st \in Seq(Bytes)
  BY ConcatProperties DEF Bytes
<1> HIDE DEF st
<1>2. /\ ShellText(s) = Passed(s, end, old, new, dropped)
      /\ ShellText(t) = Passed(t, end, old, new, dropped)
      /\ ShellText(st) = Passed(st, end, old, new, dropped)
  BY <1>1, ShellTextIs
<1> HIDE DEF end, old, new, dropped
<1>3. ~Contains(s, end) =>
         Passed(s \o t, end, old, new, dropped)
           = Passed(s, end, old, new, dropped) \o Passed(t, end, old, new, dropped)
  BY <1>1, PassedOn
<1>4. Contains(s, end) => Passed(s \o t, end, old, new, dropped) = Passed(s, end, old, new, dropped)
  BY <1>1, PassedNoMore
<1> QED BY <1>2, <1>3, <1>4 DEF st, end

LEMMA ShellTextOne ==
    ASSUME NEW b \in Bytes \ {"eot"}
    PROVE  /\ ~Contains(<<b>>, "eot")
           /\ b = "etx" => ShellText(<<b>>) = <<>>
           /\ b # "etx" => ShellText(<<b>>) = <<Newline(b)>>
<1> DEFINE end == "eot"
           old == {"cr", "nl"}
           new == "nl"
           dropped == {"etx"}
           n == Newline(b)
           s == <<b>>
<1>1. new \in Bytes /\ b \in Bytes /\ b # end /\ n = (IF b \in old THEN new ELSE b) /\ s \in Seq(Bytes)
  BY DEF Bytes, Newline
<1>2. ShellText(s) = Passed(s, end, old, new, dropped)
  BY <1>1, ShellTextIs
<1>3. n \in dropped <=> b = "etx"
  BY DEF Newline
<1> HIDE DEF end, old, new, dropped, n
<1>4. /\ Contains(<<b>>, end) <=> b = end
      /\ b # end /\ n \in dropped => Passed(<<b>>, end, old, new, dropped) = <<>>
      /\ b # end /\ n \notin dropped => Passed(<<b>>, end, old, new, dropped) = <<n>>
  BY <1>1, PassedOne
<1> QED BY <1>1, <1>2, <1>3, <1>4 DEF n, end

LEMMA ShellTextNewlines ==
    ASSUME NEW s \in Seq(Bytes)
    PROVE  ShellText(Newlines(s)) = ShellText(s)
<1> DEFINE end == "eot"
           old == {"cr", "nl"}
           new == "nl"
           b == Before(s, end)
<1>1. b \in Seq(Bytes) /\ new \in Bytes /\ end \notin old /\ end # new
  BY BeforeType DEF Bytes
<1>2. Newlines(s) = Replaced(s, old, new)
  BY NewlinesType
<1> HIDE DEF b
<1>3. Newlines(b) = Replaced(b, old, new) /\ Newlines(Newlines(b)) = Newlines(b)
  BY <1>1, NewlinesType, NewlinesTwice
<1> HIDE DEF end, old, new
<1>4. Before(Replaced(s, old, new), end) = Replaced(Before(s, end), old, new)
  BY <1>1, BeforeReplaced
<1>5. Before(Newlines(s), end) = Newlines(b)
  BY <1>2, <1>3, <1>4 DEF b
<1> QED BY <1>3, <1>5 DEF ShellText, end, b


-----------------------------------------------------------------------------
(* What travels on the connection.                                         *)

\* As long as nothing was damaged, every packet is sound, and the server keeps
\* a ^D and a ^C to itself.
Sound(e) ==
    IF comp THEN [data : Seq(Bytes), ok : {TRUE}]
    ELSE IF e = "client" THEN Bytes \ {"eot", "etx"} ELSE Bytes

ItemInv == ~damaged => \A e \in Ends : inbox[e] \in Seq(Sound(e))

LEMMA SoundItems ==
    ASSUME NEW e \in Ends, NEW s \in Seq(Sound(e))
    PROVE  s \in Seq(Items) /\ Intact(s)
<1>1. CASE comp
  <2> DEFINE X == [data : Seq(Bytes), ok : {TRUE}]
  <2>1. s \in Seq(X)
    BY <1>1 DEF Sound
  <2>2. X \subseteq Packets
    BY DEF Packets
  <2>3. \A x \in X : x.ok
    OBVIOUS
  <2> HIDE DEF X
  <2>4. \A i \in DOMAIN s : s[i].ok
    BY <2>1, <2>3
  <2>5. s \in Seq(Packets)
    BY <2>1, <2>2
  <2> QED BY <1>1, <2>4, <2>5 DEF Items, Intact
<1>2. CASE ~comp
  <2>1. Sound(e) \subseteq Bytes
    BY <1>2 DEF Sound
  <2> DEFINE X == Sound(e)
  <2>2. s \in Seq(X) /\ X \subseteq Bytes
    BY <2>1
  <2> HIDE DEF X
  <2>3. s \in Seq(Bytes)
    BY <2>2
  <2> QED BY <1>2, <2>3 DEF Items, Intact
<1> QED BY <1>1, <1>2

\* Of sound items inflate returns the data.
LEMMA InflatedSound ==
    ASSUME NEW e \in Ends, NEW s \in Seq(Sound(e)), NEW noise, NEW d \in Inflations(s, noise)
    PROVE  d = Data(s)
BY SoundItems DEF Inflations

LEMMA InboxSent ==
    ASSUME Types, NEW end \in Ends, NEW item \in Items, Send(end, item),
           NEW e \in Ends, NEW S, inbox[e] \in Seq(S), e = Other(end) => item \in S
    PROVE  inbox'[e] \in Seq(S)
<1>1. inbox \in [Ends -> Seq(Items)]
  BY DEF Types, NetType
<1>2. CASE open[Other(end)] /\ e = Other(end)
  <2>1. inbox' = [inbox EXCEPT ![e] = Append(@, item)]
    BY <1>2 DEF Send
  <2>2. inbox'[e] = Append(inbox[e], item)
    BY <1>1, <2>1
  <2> QED BY <1>2, <2>2
<1>3. CASE ~(open[Other(end)] /\ e = Other(end))
  BY <1>1, <1>3 DEF Send
<1> QED BY <1>2, <1>3

LEMMA InboxReceived ==
    ASSUME Types, NEW end \in Ends, NEW n \in 1 .. Len(inbox[end]), Receive(end, n),
           NEW e \in Ends, NEW S, inbox[e] \in Seq(S)
    PROVE  inbox'[e] \in Seq(S) /\ damaged' = damaged
<1>1. inbox \in [Ends -> Seq(Items)]
  BY DEF Types, NetType
<1> DEFINE rest == SubSeq(inbox[end], n + 1, Len(inbox[end]))
<1>2. inbox' = [inbox EXCEPT ![end] = rest] /\ damaged' = damaged
  BY DEF Receive
<1>3. CASE e = end
  <2>1. rest \in Seq(S)
    BY <1>3
  <2> HIDE DEF rest
  <2> QED BY <1>1, <1>2, <1>3, <2>1
<1>4. CASE e # end
  <2> HIDE DEF rest
  <2> QED BY <1>1, <1>2, <1>4
<1> QED BY <1>3, <1>4

LEMMA InboxClosed ==
    ASSUME Types, NEW end \in Ends, Close(end), NEW e \in Ends, NEW S, inbox[e] \in Seq(S)
    PROVE  inbox'[e] \in Seq(S) /\ damaged' = damaged
<1>1. inbox \in [Ends -> Seq(Items)] /\ damaged' = damaged
  BY DEF Types, NetType, Close
<1>2. CASE inbox[end] = <<>>
  BY <1>1, <1>2 DEF Close
<1>3. CASE inbox[end] # <<>>
  <2> DEFINE other == Other(end)
  <2>1. other \in Ends /\ other # end /\ (e = end \/ e = other)
    BY OtherEnd DEF Ends
  <2>2. PICK left \in Prefixes(inbox[other]) : inbox' = [inbox EXCEPT ![end] = <<>>, ![other] = left]
    BY <1>3 DEF Close
  <2> HIDE DEF other
  <2>3. <<>> \in Seq(S)
    OBVIOUS
  <2>4. CASE e = other
    <3>1. left \in Seq(S)
      BY <2>2, <2>4, PrefixCut
    <3> QED BY <1>1, <2>1, <2>2, <2>4, <3>1
  <2>5. CASE e = end
    BY <1>1, <2>1, <2>2, <2>3, <2>5
  <2> QED BY <2>1, <2>4, <2>5
<1> QED BY <1>2, <1>3

LEMMA ItemsServer ==
    ASSUME Types, ItemInv, Server, comp' = comp
    PROVE  ItemInv'
<1> SUFFICES ASSUME ~damaged', NEW e \in Ends PROVE inbox'[e] \in Seq(Sound(e))
  BY DEF ItemInv, Sound
<1>1. "client" \in Ends /\ "server" \in Ends /\ Other("server") = "client"
  BY OtherEnd DEF Ends
<1>2. CASE UNCHANGED socketVars
  BY <1>2 DEF ItemInv, socketVars
<1>3. ASSUME Close("server") PROVE inbox'[e] \in Seq(Sound(e))
  <2>1. damaged' = damaged
    BY <1>3 DEF Close
  <2>2. inbox[e] \in Seq(Sound(e))
    BY <2>1 DEF ItemInv
  <2> DEFINE S == Sound(e)
  <2>3. inbox[e] \in Seq(S)
    BY <2>2
  <2> HIDE DEF S
  <2>4. inbox'[e] \in Seq(S)
    BY <1>1, <1>3, <2>3, InboxClosed
  <2> QED BY <2>4 DEF S
<1>4. ASSUME NEW c, ServerExit(c) PROVE inbox'[e] \in Seq(Sound(e))
  BY <1>3, <1>4 DEF ServerExit
<1>5. ASSUME NEW item \in Items, Send("server", item), ~comp => item \in Bytes \ {"eot", "etx"}
      PROVE  inbox'[e] \in Seq(Sound(e))
  <2>1. ~damaged /\ (comp => item.ok)
    BY <1>5 DEF Send
  <2>2. e = Other("server") => item \in Sound(e)
    BY <1>1, <1>5, <2>1 DEF Sound, Items, Packets
  <2> DEFINE S == Sound(e)
  <2>3. inbox[e] \in Seq(S) /\ (e = Other("server") => item \in S)
    BY <2>1, <2>2 DEF ItemInv
  <2> HIDE DEF S
  <2>4. inbox'[e] \in Seq(S)
    BY <1>1, <1>5, <2>3, InboxSent
  <2> QED BY <2>4 DEF S
<1>6. CASE ShellIsThere \/ ReadSocketEnd \/ NoSocketIn \/ KeysDone \/ NoSocketHup
           \/ NoPipeIn \/ OutputDone \/ PipeHup \/ PollServer \/ NoPipeHup \/ WaitShell
  BY <1>2, <1>6 DEF ShellIsThere, ReadSocketEnd, NoSocketIn, KeysDone, NoSocketHup, NoPipeIn,
                    OutputDone, PipeHup, ServerMove, PollServer, NoPipeHup, WaitShell
<1>7. CASE ShellIsGone \/ ReadSocketFails \/ GiveByteFails \/ SocketHup \/ SendFails \/ CloseAll
  BY <1>4, <1>7 DEF ShellIsGone, ReadSocketFails, GiveByteFails, SocketHup, SendFails, CloseAll, ServerFails
<1>8. CASE Accept
  BY <1>2, <1>4, <1>8 DEF Accept, ServerFails
<1>9. CASE \/ EndOfInput("keys") \/ Interrupt("keys") \/ EndOfInput("output") \/ Interrupt("output")
           \/ GiveByte \/ ReadPipe
  BY <1>2, <1>9 DEF EndOfInput, Interrupt, GiveByte, ReadPipe
<1>10. CASE ReadSocket
  <2>1. PICK n \in Readable(inbox["server"]) : Receive("server", n)
    BY <1>10 DEF ReadSocket
  <2>2. n \in 1 .. Len(inbox["server"])
    BY <1>1, ReadableBound DEF Types, NetType
  <2>3. damaged' = damaged
    BY <2>1 DEF Receive
  <2> DEFINE S == Sound(e)
  <2>4. inbox[e] \in Seq(S)
    BY <2>3 DEF ItemInv
  <2> HIDE DEF S
  <2>5. inbox'[e] \in Seq(S)
    BY <1>1, <2>1, <2>2, <2>4, InboxReceived
  <2> QED BY <2>5 DEF S
<1>11. CASE SendByte
  <2>1. PICK b \in Bytes \ {"eot", "etx"} : Send("server", Newline(b))
    BY <1>11 DEF SendByte
  <2>2. ~comp /\ Newline(b) \in Bytes \ {"eot", "etx"}
    BY <1>11 DEF SendByte, Newline, Bytes
  <2>3. Newline(b) \in Items
    BY <2>2 DEF Items
  <2> QED BY <1>5, <2>1, <2>2, <2>3
<1>12. CASE SendPacket
  <2>1. PICK found \in SUBSET {"eot", "etx", "cr"} :
           Send("server", [data |-> serverBuffer, ok |-> found = {}])
    BY <1>12 DEF SendPacket
  <2>2. comp /\ [data |-> serverBuffer, ok |-> found = {}] \in Items
    BY <1>12 DEF SendPacket, Items, Packets, Types, ServerType
  <2> QED BY <1>5, <2>1, <2>2
<1> QED
  BY <1>6, <1>7, <1>8, <1>9, <1>10, <1>11, <1>12 DEF Server

LEMMA ItemsClient ==
    ASSUME Types, ItemInv, Client, comp' = comp
    PROVE  ItemInv'
<1> SUFFICES ASSUME ~damaged', NEW e \in Ends PROVE inbox'[e] \in Seq(Sound(e))
  BY DEF ItemInv, Sound
<1>1. "client" \in Ends /\ "server" \in Ends /\ Other("client") = "server"
  BY OtherEnd DEF Ends
<1>2. CASE UNCHANGED <<inbox, damaged>>
  BY <1>2 DEF ItemInv
<1>3. ASSUME Close("client") PROVE inbox'[e] \in Seq(Sound(e))
  <2>1. damaged' = damaged
    BY <1>3 DEF Close
  <2> DEFINE S == Sound(e)
  <2>2. inbox[e] \in Seq(S)
    BY <2>1 DEF ItemInv
  <2> HIDE DEF S
  <2>3. inbox'[e] \in Seq(S)
    BY <1>1, <1>3, <2>2, InboxClosed
  <2> QED BY <2>3 DEF S
<1>4. ASSUME NEW item \in Items, Send("client", item)
      PROVE  inbox'[e] \in Seq(Sound(e))
  <2>1. ~damaged /\ (comp => item.ok)
    BY <1>4 DEF Send
  <2>2. e = Other("client") => item \in Sound(e)
    BY <1>1, <2>1 DEF Sound, Items, Packets
  <2> DEFINE S == Sound(e)
  <2>3. inbox[e] \in Seq(S) /\ (e = Other("client") => item \in S)
    BY <2>1, <2>2 DEF ItemInv
  <2> HIDE DEF S
  <2>4. inbox'[e] \in Seq(S)
    BY <1>1, <1>4, <2>3, InboxSent
  <2> QED BY <2>4 DEF S
<1>5. CASE SetTerminal \/ NotATerminal \/ Connect \/ ConnectFails \/ PollClient \/ ReadKeys \/ NoKeys
           \/ KeysSent \/ NothingToShow \/ NoClientHup
  BY <1>2, <1>5 DEF SetTerminal, NotATerminal, Connect, ConnectFails, PollClient, ReadKeys, NoKeys, KeysSent,
                    NothingToShow, NoClientHup, ClientMove, socketVars
<1>6. CASE ServerClosed \/ ClientHup \/ SendKeyFails
  BY <1>3, <1>6 DEF ServerClosed, ClientHup, SendKeyFails, ClientExit
<1>7. CASE ShowServer
  <2>1. PICK n \in Readable(inbox["client"]) : Receive("client", n)
    BY <1>7 DEF ShowServer
  <2>2. n \in 1 .. Len(inbox["client"])
    BY <1>1, ReadableBound DEF Types, NetType
  <2>3. damaged' = damaged
    BY <2>1 DEF Receive
  <2> DEFINE S == Sound(e)
  <2>4. inbox[e] \in Seq(S)
    BY <2>3 DEF ItemInv
  <2> HIDE DEF S
  <2>5. inbox'[e] \in Seq(S)
    BY <1>1, <2>1, <2>2, <2>4, InboxReceived
  <2> QED BY <2>5 DEF S
<1>8. CASE SendKey
  <2>1. ~comp /\ Newline(Head(clientBuffer)) \in Items /\ Send("client", Newline(Head(clientBuffer)))
    BY <1>8, NewlineType DEF SendKey, Items, Types, ClientType
  <2> QED BY <1>4, <2>1
<1>9. CASE SendKeys
  <2>1. PICK ok \in BOOLEAN : Send("client", [data |-> clientBuffer, ok |-> ok])
    BY <1>9 DEF SendKeys
  <2>2. [data |-> clientBuffer, ok |-> ok] \in Items
    BY <1>9 DEF SendKeys, Items, Packets, Types, ClientType
  <2> QED BY <1>4, <2>1, <2>2
<1> QED
  BY <1>5, <1>6, <1>7, <1>8, <1>9 DEF Client


-----------------------------------------------------------------------------
(* Steps and the connection.                                               *)

LEMMA ServerConnected ==
    ASSUME Types, Server, clientAt' = clientAt
    PROVE  Connected' => Connected
<1>1. serverAt # "hung"
  BY DEF Server, Accept, ShellIsGone, ShellIsThere, PollServer, ReadSocket, ReadSocketEnd,
         ReadSocketFails, NoSocketIn, EndOfInput, Interrupt, GiveByte, GiveByteFails, KeysDone, SocketHup,
         NoSocketHup, ReadPipe, NoPipeIn, SendByte, SendPacket, SendFails, OutputDone, PipeHup, NoPipeHup,
         CloseAll, WaitShell, ServerMove, NextByte
<1>2. /\ open'["client"] = open["client"]
      /\ open'["server"] => open["server"]
      /\ reset => reset'
  BY ServerNet
<1> QED BY <1>1, <1>2 DEF Connected

LEMMA ClientConnected ==
    ASSUME Types, Client, ~Connect, serverAt' = serverAt
    PROVE  clientAt # "hung" /\ (Connected' => Connected)
<1>1. "client" \in Ends /\ "server" \in Ends /\ Other("client") = "server"
  BY OtherEnd DEF Ends
<1>2. clientAt # "hung"
  BY DEF Client, SetTerminal, NotATerminal, Connect, ConnectFails, PollClient, ReadKeys, NoKeys, SendKey,
         SendKeys, SendKeyFails, KeysSent, ShowServer, ServerClosed, NothingToShow, ClientHup, NoClientHup,
         ClientMove
<1>3. reset => reset'
  BY ClientNet
<1>4. \A e \in Ends : open'[e] => open[e]
  <2>1. CASE Close("client")
    BY <1>1, <2>1, CloseNet DEF Ends
  <2>2. CASE open' = open
    BY <2>2
  <2>3. ASSUME NEW item, Send("client", item) PROVE open' = open
    BY <2>3 DEF Send
  <2>4. CASE ServerClosed \/ ClientHup \/ SendKeyFails
    BY <2>1, <2>4 DEF ServerClosed, ClientHup, SendKeyFails, ClientExit
  <2>5. CASE SendKey \/ SendKeys
    BY <2>2, <2>3, <2>5 DEF SendKey, SendKeys
  <2>6. CASE ShowServer
    BY <2>2, <2>6 DEF ShowServer, Receive
  <2>7. CASE SetTerminal \/ NotATerminal \/ ConnectFails \/ PollClient \/ ReadKeys \/ NoKeys \/ KeysSent
             \/ NothingToShow \/ NoClientHup
    BY <2>2, <2>7 DEF SetTerminal, NotATerminal, ConnectFails, PollClient, ReadKeys, NoKeys, KeysSent,
                      NothingToShow, NoClientHup, ClientMove, socketVars
  <2> QED BY <2>4, <2>5, <2>6, <2>7 DEF Client
<1> QED BY <1>1, <1>2, <1>3, <1>4 DEF Connected

-----------------------------------------------------------------------------
(* From the shell to the screen.                                           *)

OnWay == Newlines(Data(inbox["client"]))
Buffered(place) == IF serverAt = place THEN serverBuffer ELSE <<>>
Behind == Buffered("output") \o to_parent_pip
Shown == IF clientAt = "hung" THEN screen ELSE screen \o OnWay

\* What is shown and on its way is the beginning of what was written; while the
\* two are connected what the server has of it is all that is missing.
OutInv ==
    ~damaged =>
        /\ IsPrefix(Shown, UserText(wrote))
        /\ Connected => (screen \o OnWay) \o UserText(Behind) = UserText(wrote)

LEMMA OutTypes ==
    ASSUME Types
    PROVE  /\ inbox["client"] \in Seq(Items) /\ inbox["server"] \in Seq(Items)
           /\ OnWay \in Seq(Bytes) /\ Behind \in Seq(Bytes) /\ Shown \in Seq(Bytes)
           /\ screen \in Seq(Bytes) /\ wrote \in Seq(Bytes) /\ to_parent_pip \in Seq(Bytes)
           /\ screen \o OnWay \in Seq(Bytes)
           /\ UserText(Behind) \in Seq(Bytes) /\ UserText(wrote) \in Seq(Bytes)
<1>1. /\ inbox["client"] \in Seq(Items) /\ inbox["server"] \in Seq(Items)
      /\ screen \in Seq(Bytes) /\ wrote \in Seq(Bytes) /\ to_parent_pip \in Seq(Bytes)
      /\ serverBuffer \in Seq(Bytes)
  BY DEF Types, NetType, ServerType, ClientType, Ends
<1>2. OnWay \in Seq(Bytes)
  BY <1>1, DataType, NewlinesType DEF OnWay
<1>3. Buffered("output") \in Seq(Bytes)
  <2>1. <<>> \in Seq(Bytes)
    OBVIOUS
  <2> QED BY <1>1, <2>1 DEF Buffered
<1>4. Behind \in Seq(Bytes) /\ screen \o OnWay \in Seq(Bytes)
  BY <1>1, <1>2, <1>3, ConcatProperties DEF Behind
<1>5. Shown \in Seq(Bytes)
  BY <1>1, <1>4 DEF Shown
<1> QED BY <1>1, <1>2, <1>4, <1>5, UserTextType

LEMMA PrefixShorter ==
    ASSUME NEW S, NEW s \in Seq(S), NEW r \in Seq(S), NEW t \in Seq(S), IsPrefix(s \o r, t)
    PROVE  IsPrefix(s, t)
<1> DEFINE sr == s \o r
<1>1. sr \in Seq(S) /\ IsPrefix(sr, t)
  OBVIOUS
<1> HIDE DEF sr
<1>2. PICK q \in Seq(S) : t = sr \o q
  BY <1>1, PrefixFollowed
<1>3. t = s \o (r \o q)
  BY <1>2, ConcatAssociative DEF sr
<1> DEFINE rq == r \o q
<1>4. rq \in Seq(S)
  BY ConcatProperties
<1> HIDE DEF rq
<1>5. IsPrefix(s, s \o rq)
  BY <1>4, PrefixOfConcat
<1> QED BY <1>3, <1>5 DEF rq

\* Concatenation under a name of its own: the provers lose their way among the
\* properties they know of \o.
Cat(s, t) == s \o t

LEMMA Regrouped ==
    ASSUME NEW S, NEW a \in Seq(S), NEW b \in Seq(S), NEW c \in Seq(S)
    PROVE  Cat(Cat(a, b), c) = Cat(a, Cat(b, c)) /\ Cat(a, b) \in Seq(S)
<1>1. (a \o b) \o c = a \o (b \o c) /\ a \o b \in Seq(S)
  BY ConcatAssociative, ConcatProperties
<1> QED BY <1>1 DEF Cat

\* The end of what was on its way is lost.
LEMMA OutStops ==
    ASSUME Types, OutInv, NEW all, all = UserText(wrote), all = UserText(wrote)',
           ~damaged' => ~damaged, ~Connected',
           NEW shown \in Seq(Bytes), shown = Shown', NEW lost \in Seq(Bytes), Shown = shown \o lost
    PROVE  OutInv'
<1> SUFFICES ASSUME ~damaged' PROVE IsPrefix(shown, all)
  BY DEF OutInv
<1>1. IsPrefix(shown \o lost, all)
  BY DEF OutInv
<1>2. all \in Seq(Bytes)
  BY OutTypes
<1> QED BY <1>1, <1>2, PrefixShorter

\* What the server has of the output goes on its way, or nothing changes.
LEMMA OutMoves ==
    ASSUME Types, OutInv, NEW all, all = UserText(wrote), all = UserText(wrote)',
           ~damaged' => ~damaged, Connected' => Connected,
           screen' = screen, clientAt' = clientAt,
           NEW x \in Seq(Bytes), NEW rest \in Seq(Bytes), NEW way \in Seq(Bytes), way = OnWay',
           Connected' => UserText(Behind)' = rest,
           Connected => UserText(Behind) = x \o rest /\ way = OnWay \o x,
           ~Connected /\ clientAt # "hung" => way = OnWay
    PROVE  OutInv'
<1>1. /\ OnWay \in Seq(Bytes) /\ screen \in Seq(Bytes) /\ Shown \in Seq(Bytes)
      /\ screen \o OnWay \in Seq(Bytes) /\ all \in Seq(Bytes)
  BY OutTypes
<1> DEFINE gone == screen \o way
<1>2. gone \in Seq(Bytes)
  BY <1>1, ConcatProperties
<1> SUFFICES ASSUME ~damaged'
             PROVE  /\ IsPrefix(IF clientAt = "hung" THEN screen ELSE gone, all)
                    /\ Connected' => gone \o rest = all
  BY DEF OutInv, Shown
<1>3. CASE Connected
  <2>1. (screen \o OnWay) \o (x \o rest) = all
    BY <1>3 DEF OutInv
  <2>2. PICK z \in Seq(Bytes), w \in Seq(Bytes), zw \in Seq(Bytes), xr \in Seq(Bytes) :
           z = screen /\ w = OnWay /\ zw = z \o w /\ xr = x \o rest
    BY <1>1, ConcatProperties
  <2>3. gone \o rest = all
    <3>1. zw \o xr = all /\ gone = z \o way /\ way = w \o x
      BY <1>3, <2>1, <2>2
    <3>2. /\ zw = Cat(z, w) /\ way = Cat(w, x) /\ xr = Cat(x, rest)
          /\ all = Cat(zw, xr) /\ gone = Cat(z, way)
      BY <2>2, <3>1 DEF Cat
    <3>3. Cat(zw, x) = Cat(z, way)
      BY <3>2, Regrouped
    <3>4. Cat(Cat(zw, x), rest) = Cat(zw, xr)
      BY <3>2, Regrouped
    <3> QED BY <3>2, <3>3, <3>4 DEF Cat
  <2>4. clientAt # "hung"
    BY <1>3 DEF Connected
  <2> HIDE DEF gone
  <2>5. IsPrefix(gone, gone \o rest)
    BY <1>2, PrefixOfConcat
  <2> QED BY <2>3, <2>4, <2>5
<1>4. CASE ~Connected
  BY <1>4 DEF OutInv, Shown
<1> QED BY <1>3, <1>4


LEMMA SameData ==
    ASSUME comp' = comp
    PROVE  /\ OnWay' = Newlines(Data(inbox'["client"]))
           /\ UserText(wrote)' = UserText(wrote')
           /\ UserText(Behind)' = UserText(Behind')
BY DEF OnWay, Data, UserText

LEMMA OutSame ==
    ASSUME OutInv, comp' = comp, ~damaged' => ~damaged, Connected' => Connected,
           UNCHANGED <<screen, clientAt, wrote>>, inbox'["client"] = inbox["client"], Behind' = Behind
    PROVE  OutInv'
<1>1. OnWay' = OnWay /\ UserText(wrote)' = UserText(wrote) /\ UserText(Behind)' = UserText(Behind)
  BY SameData DEF OnWay
<1>2. Shown' = Shown
  BY <1>1 DEF Shown
<1> QED BY <1>1, <1>2 DEF OutInv

LEMMA OutLost ==
    ASSUME Types, OutInv, comp' = comp, damaged' = damaged, ~Connected',
           UNCHANGED <<screen, clientAt, wrote>>,
           NEW left \in Seq(Items), left = inbox'["client"],
           NEW r \in Seq(Items), inbox["client"] = left \o r
    PROVE  OutInv'
<1>1. PICK all \in Seq(Bytes) : all = UserText(wrote) /\ all = UserText(wrote)'
  BY SameData, OutTypes
<1>2. PICK a \in Seq(Bytes), b \in Seq(Bytes) : a = Data(left) /\ b = Data(r)
  BY DataType
<1>3. Data(inbox["client"]) = a \o b
  BY <1>2, DataConcat
<1>4. PICK na \in Seq(Bytes), nb \in Seq(Bytes) : na = Newlines(a) /\ nb = Newlines(b)
  BY NewlinesType
<1>5. Newlines(a \o b) = na \o nb
  BY <1>4, NewlinesConcat
<1>6. OnWay = na \o nb /\ OnWay' = na
  BY <1>2, <1>3, <1>4, <1>5, SameData DEF OnWay
<1>7. PICK z \in Seq(Bytes) : z = screen
  BY OutTypes
<1>8. PICK za \in Seq(Bytes) : za = z \o na
  BY ConcatProperties
<1>9. z \o (na \o nb) = za \o nb
  <2>1. Cat(z, Cat(na, nb)) = Cat(Cat(z, na), nb)
    BY Regrouped
  <2> QED BY <1>8, <2>1 DEF Cat
<1>10. <<>> \in Seq(Bytes) /\ z \o <<>> = z
  OBVIOUS
<1>11. CASE clientAt = "hung"
  <2>1. Shown' = z /\ Shown = z \o <<>>
    BY <1>7, <1>10, <1>11 DEF Shown
  <2> QED BY <1>1, <1>10, <2>1, OutStops
<1>12. CASE clientAt # "hung"
  <2>1. Shown' = za /\ Shown = za \o nb
    BY <1>6, <1>7, <1>8, <1>9, <1>12 DEF Shown
  <2> QED BY <1>1, <2>1, OutStops
<1> QED BY <1>11, <1>12

\* The server leaves out the next byte of its buffer, or sends x on.
LEMMA OutSent ==
    ASSUME Types, OutInv, comp' = comp, ~damaged' => ~damaged, Connected' => Connected,
           UNCHANGED <<screen, clientAt, wrote>>,
           NEW x \in Seq(Bytes), NEW rest \in Seq(Bytes), Behind = x \o rest, rest = Behind',
           NEW more \in Seq(Items), Connected => Newlines(Data(more)) = UserText(x),
           Connected => inbox'["client"] = inbox["client"] \o more,
           ~Connected /\ clientAt # "hung" => inbox'["client"] = inbox["client"],
           inbox'["client"] \in Seq(Items)
    PROVE  OutInv'
<1>1. PICK all \in Seq(Bytes) : all = UserText(wrote) /\ all = UserText(wrote)'
  BY SameData, OutTypes
<1>2. PICK ux \in Seq(Bytes), ur \in Seq(Bytes) : ux = UserText(x) /\ ur = UserText(rest)
  BY UserTextType
<1>3. UserText(Behind) = ux \o ur /\ UserText(Behind)' = ur
  BY <1>2, UserTextConcat, SameData
<1>4. PICK way \in Seq(Bytes) : way = OnWay'
  BY SameData, DataType, NewlinesType
<1>5. Connected => way = OnWay \o ux
  <2> SUFFICES ASSUME Connected PROVE way = OnWay \o ux
    OBVIOUS
  <2>1. PICK in \in Seq(Items) : in = inbox["client"]
    BY OutTypes
  <2>2. Data(in \o more) = Data(in) \o Data(more)
    BY DataConcat
  <2>3. PICK a \in Seq(Bytes), b \in Seq(Bytes) : a = Data(in) /\ b = Data(more)
    BY DataType
  <2>4. Newlines(a \o b) = Newlines(a) \o Newlines(b)
    BY NewlinesConcat
  <2> QED BY <1>2, <1>4, <2>1, <2>2, <2>3, <2>4, SameData DEF OnWay
<1>6. ~Connected /\ clientAt # "hung" => way = OnWay
  BY <1>4, SameData DEF OnWay
<1> QED BY <1>1, <1>2, <1>3, <1>4, <1>5, <1>6, OutMoves


LEMMA OutServer ==
    ASSUME Types, Types', ServerInv, ItemInv, OutInv, Server, UNCHANGED <<comp, clientVars>>
    PROVE  OutInv'
<1>1. "client" \in Ends /\ "server" \in Ends /\ Other("server") = "client" /\ Other("client") = "server"
  BY OtherEnd DEF Ends
<1>2. comp' = comp /\ screen' = screen /\ clientAt' = clientAt /\ (Connected' => Connected)
  BY ServerConnected DEF clientVars
<1>3. /\ inbox["client"] \in Seq(Items) /\ inbox'["client"] \in Seq(Items)
      /\ serverBuffer \in Seq(Bytes) /\ to_parent_pip \in Seq(Bytes)
  <2>1. Items' = Items
    BY <1>2 DEF Items
  <2> QED BY <1>1, <2>1 DEF Types, NetType, ServerType
<1>4. PICK none \in Seq(Bytes), nothing \in Seq(Items) : none = <<>> /\ nothing = <<>>
  <2>1. <<>> \in Seq(Bytes) /\ <<>> \in Seq(Items)
    OBVIOUS
  <2> QED BY <2>1
<1>5. /\ UserText(none) = none /\ Newlines(Data(nothing)) = none
      /\ inbox["client"] \o nothing = inbox["client"] /\ none \o to_parent_pip = to_parent_pip
  BY <1>3, <1>4, UserTextEmpty, DataEmpty, NewlinesEmpty
\* Most steps.
<1>6. ASSUME UNCHANGED <<wrote, damaged, to_parent_pip>>, inbox'["client"] = inbox["client"],
             Buffered("output")' = Buffered("output")
      PROVE  OutInv'
  BY <1>2, <1>6, OutSame DEF Behind
\* exit.
<1>7. ASSUME Close("server"), UNCHANGED <<wrote>>
      PROVE  OutInv'
  <2>1. inbox \in [Ends -> Seq(Items)] /\ open \in [Ends -> BOOLEAN]
    BY DEF Types, NetType
  <2>2. /\ ~open'["server"] /\ damaged' = damaged
        /\ \E r \in Seq(Items) : inbox["client"] = inbox'["client"] \o r
    BY <1>1, <1>7, <2>1, Closing
  <2>3. PICK left \in Seq(Items), r \in Seq(Items) : left = inbox'["client"] /\ inbox["client"] = left \o r
    BY <1>3, <2>2
  <2>4. ~Connected'
    BY <2>2 DEF Connected
  <2> QED BY <1>2, <1>7, <2>2, <2>3, <2>4, OutLost
<1>8. ASSUME NEW c, ServerExit(c) PROVE OutInv'
  BY <1>7, <1>8 DEF ServerExit, shellVars
<1>9. CASE ShellIsThere \/ ReadSocketEnd \/ NoSocketIn \/ KeysDone \/ NoSocketHup
           \/ NoPipeIn \/ OutputDone \/ PipeHup \/ PollServer \/ NoPipeHup \/ WaitShell
  <2>1. UNCHANGED <<wrote, damaged, to_parent_pip, inbox, serverBuffer>>
    BY <1>9 DEF ShellIsThere, ReadSocketEnd, NoSocketIn, KeysDone, NoSocketHup, NoPipeIn,
                OutputDone, PipeHup, ServerMove, PollServer, NoPipeHup, WaitShell, socketVars, shellVars
  <2>2. serverAt = "output" => serverBuffer = <<>>
    BY <1>9 DEF ShellIsThere, ReadSocketEnd, NoSocketIn, KeysDone, NoSocketHup, NoPipeIn,
                OutputDone, PipeHup, ServerMove, PollServer, NoPipeHup, WaitShell
  <2>3. serverAt' # "output"
    BY <1>9 DEF ShellIsThere, ReadSocketEnd, NoSocketIn, KeysDone, NoSocketHup, NoPipeIn,
                OutputDone, PipeHup, ServerMove, PollServer, NoPipeHup, WaitShell
  <2> QED BY <1>6, <2>1, <2>2, <2>3 DEF Buffered
<1>10. CASE ShellIsGone \/ ReadSocketFails \/ GiveByteFails \/ SocketHup \/ SendFails \/ CloseAll
  BY <1>8, <1>10 DEF ShellIsGone, ReadSocketFails, GiveByteFails, SocketHup, SendFails, CloseAll, ServerFails
<1>11. CASE Accept
  <2>1. CASE ServerFails
    BY <1>8, <2>1 DEF ServerFails
  <2>2. CASE ~ServerFails
    BY <1>6, <1>11, <2>2 DEF Accept, Buffered, socketVars
  <2> QED BY <2>1, <2>2
<1>12. CASE EndOfInput("keys") \/ Interrupt("keys") \/ GiveByte
  BY <1>6, <1>12 DEF EndOfInput, Interrupt, GiveByte, NextByte, Buffered, socketVars, shellVars
<1>13. CASE ReadSocket
  <2>1. inbox'["client"] = inbox["client"] /\ damaged' = damaged
    BY <1>1, <1>3, <1>13 DEF ReadSocket, Receive, Types, NetType
  <2> QED BY <1>6, <1>13, <2>1 DEF ReadSocket, Buffered, shellVars
\* The server leaves out a byte of the shell's output.
<1>14. CASE ~comp /\ (EndOfInput("output") \/ Interrupt("output"))
  <2>1. PICK b \in {"eot", "etx"} : NextByte("output", b)
    BY <1>14 DEF EndOfInput, Interrupt
  <2>2. UNCHANGED <<wrote, damaged, to_parent_pip, inbox>>
    BY <1>14 DEF EndOfInput, Interrupt, socketVars, shellVars
  <2>3. serverAt = "output" /\ serverAt' = "output" /\ serverBuffer = <<b>> \o serverBuffer'
        /\ serverBuffer' \in Seq(Bytes)
    BY <1>3, <2>1, HeadAndTail DEF NextByte
  <2>4. PICK x \in Seq(Bytes), t \in Seq(Bytes) : x = <<b>> /\ t = serverBuffer'
    <3>1. <<b>> \in Seq(Bytes)
      BY DEF Bytes
    <3> QED BY <2>3, <3>1
  <2>5. Behind = x \o (t \o to_parent_pip) /\ Behind' = t \o to_parent_pip
    <3>1. PICK p \in Seq(Bytes) : p = to_parent_pip
      BY <1>3
    <3>2. Cat(Cat(x, t), p) = Cat(x, Cat(t, p))
      BY Regrouped
    <3> QED BY <2>2, <2>3, <2>4, <3>1, <3>2 DEF Cat, Behind, Buffered
  <2>6. PICK rest \in Seq(Bytes) : rest = t \o to_parent_pip
    BY <1>3, ConcatProperties
  <2>7. UserText(x) = none
    BY <1>4, <1>14, <2>4, UserTextOne DEF Bytes
  <2> QED BY <1>2, <1>3, <1>5, <2>2, <2>5, <2>6, <2>7, OutSent
<1>15. CASE ReadPipe
  <2>1. PICK n \in Readable(to_parent_pip) :
           /\ serverBuffer' = SubSeq(to_parent_pip, 1, n)
           /\ to_parent_pip' = SubSeq(to_parent_pip, n + 1, Len(to_parent_pip))
    BY <1>15 DEF ReadPipe
  <2>2. UNCHANGED <<wrote, damaged, inbox>> /\ serverAt = "pipe" /\ serverAt' = "output"
    BY <1>15 DEF ReadPipe, socketVars
  <2>3. n \in 0 .. Len(to_parent_pip)
    <3>1. Len(to_parent_pip) \in Nat
      BY <1>3
    <3>2. n \in 1 .. Len(to_parent_pip)
      BY <3>1, ReadableBound
    <3> QED BY <3>1, <3>2
  <2>4. serverBuffer' \o to_parent_pip' = to_parent_pip
    BY <1>3, <2>1, <2>3, CutAndJoin
  <2>5. Behind' = to_parent_pip /\ Behind = none \o to_parent_pip
    BY <1>4, <2>2, <2>4 DEF Behind, Buffered
  <2> QED BY <1>2, <1>5, <2>2, <2>5, OutSame
\* What is sent is what the user is to see of it.
<1>16. ASSUME NEW item \in Items, Send("server", item), serverAt = "output",
              NEW x \in Seq(Bytes), NEW t \in Seq(Bytes), serverBuffer = x \o t, t = serverBuffer',
              UNCHANGED <<serverAt, wrote, to_parent_pip>>,
              Newlines(IF comp THEN item.data ELSE <<item>>) = UserText(x)
       PROVE  OutInv'
  <2>1. Behind = x \o (t \o to_parent_pip) /\ Behind' = t \o to_parent_pip
    <3>1. PICK p \in Seq(Bytes) : p = to_parent_pip
      BY <1>3
    <3>2. Cat(Cat(x, t), p) = Cat(x, Cat(t, p))
      BY Regrouped
    <3> QED BY <1>16, <3>1, <3>2 DEF Cat, Behind, Buffered
  <2>2. PICK rest \in Seq(Bytes) : rest = t \o to_parent_pip
    BY <1>3, ConcatProperties
  <2>3. open["server"] /\ ~reset /\ (~damaged' => ~damaged)
    BY <1>16 DEF ServerInv, Send
  <2>4. Connected <=> open["client"] /\ clientAt # "hung"
    BY <1>16, <2>3 DEF Connected
  <2>5. inbox'["client"] = IF open["client"] THEN Append(inbox["client"], item) ELSE inbox["client"]
    BY <1>1, <1>3, <1>16 DEF Send, Types, NetType
  <2>6. PICK more \in Seq(Items) : more = <<item>>
    <3>1. <<item>> \in Seq(Items)
      OBVIOUS
    <3> QED BY <3>1
  <2>7. Append(inbox["client"], item) = inbox["client"] \o more
    BY <1>3, <2>6, AppendIsConcat
  <2>8. Data(more) = IF comp THEN item.data ELSE <<item>>
    <3>1. Data(Append(nothing, item)) = Data(nothing) \o (IF comp THEN item.data ELSE <<item>>)
      BY DataAppend
    <3>2. Append(nothing, item) = more
      BY <1>4, <2>6
    <3>3. PICK d \in Seq(Bytes) : d = IF comp THEN item.data ELSE <<item>>
      <4>1. comp => item.data \in Seq(Bytes)
        BY DEF Items, Packets
      <4>2. ~comp => <<item>> \in Seq(Bytes)
        BY DEF Items
      <4> QED BY <4>1, <4>2
    <3>4. Data(nothing) = <<>>
      BY <1>4, DataEmpty
    <3>5. <<>> \o d = d
      OBVIOUS
    <3> QED BY <3>1, <3>2, <3>3, <3>4, <3>5
  <2> QED BY <1>2, <1>3, <1>16, <2>1, <2>2, <2>3, <2>4, <2>5, <2>6, <2>7, <2>8, OutSent
<1>17. CASE SendByte
  <2>1. PICK b \in Bytes \ {"eot", "etx"} : NextByte("output", b) /\ Send("server", Newline(b))
    BY <1>17 DEF SendByte
  <2>2. ~comp /\ Newline(b) \in Items /\ Newline(b) \in Bytes
    BY <1>17, NewlineType DEF SendByte, Items
  <2>3. PICK x \in Seq(Bytes), t \in Seq(Bytes) : x = <<b>> /\ t = serverBuffer'
    <3>1. <<b>> \in Seq(Bytes)
      OBVIOUS
    <3> QED BY <1>3, <2>1, <3>1, HeadAndTail DEF NextByte
  <2>4. serverBuffer = x \o t /\ serverAt = "output"
    BY <1>3, <2>1, <2>3, HeadAndTail DEF NextByte
  <2>5. UserText(x) = <<Newline(b)>>
    BY <2>1, <2>3, UserTextOne
  <2>6. Newlines(<<Newline(b)>>) = <<Newline(b)>>
    <3>1. Newlines(<<Newline(b)>>) = <<Newline(Newline(b))>>
      BY <2>2, NewlinesOne
    <3> QED BY <3>1 DEF Newline
  <2> QED BY <1>16, <1>17, <2>1, <2>2, <2>3, <2>4, <2>5, <2>6 DEF SendByte, NextByte, shellVars
<1>18. CASE SendPacket
  <2>1. PICK found \in SUBSET {"eot", "etx", "cr"} :
           Send("server", [data |-> serverBuffer, ok |-> found = {}])
    BY <1>18 DEF SendPacket
  <2> DEFINE item == [data |-> serverBuffer, ok |-> found = {}]
  <2>2. comp /\ item \in Items /\ item.data = serverBuffer
    BY <1>3, <1>18 DEF SendPacket, Items, Packets
  <2>3. Send("server", item)
    BY <2>1
  <2> HIDE DEF item
  <2>4. serverBuffer = serverBuffer \o none /\ none = serverBuffer'
    BY <1>3, <1>4, <1>18 DEF SendPacket
  <2>5. Newlines(serverBuffer) = UserText(serverBuffer)
    BY <2>2 DEF UserText
  <2> QED BY <1>3, <1>16, <1>18, <2>2, <2>3, <2>4, <2>5 DEF SendPacket
<1> QED
  BY <1>9, <1>10, <1>11, <1>12, <1>13, <1>14, <1>15, <1>17, <1>18 DEF Server


LEMMA OutShell ==
    ASSUME Types, OutInv, Shell, UNCHANGED <<comp, clientVars>>
    PROVE  OutInv'
<1>1. /\ UNCHANGED <<inbox, open, reset, damaged, serverAt, serverBuffer>>
      /\ UNCHANGED <<screen, clientAt, comp>>
  BY DEF Shell, socketVars, clientVars
<1>2. Connected' = Connected
  BY <1>1 DEF Connected
<1>3. CASE ShellReads \/ ShellEnds
  <2>1. UNCHANGED <<to_parent_pip, wrote>>
    BY <1>3 DEF ShellReads, ShellEnds
  <2>2. Behind' = Behind
    BY <1>1, <2>1 DEF Behind, Buffered
  <2> QED BY <1>1, <1>2, <2>1, <2>2, OutSame
<1>4. CASE ShellWrites
  <2>1. PICK b \in Bytes : /\ to_parent_pip' = Append(to_parent_pip, b)
                           /\ wrote' = Append(wrote, b)
    BY <1>4 DEF ShellWrites
  <2>2. PICK x \in Seq(Bytes) : x = <<b>>
    <3>1. <<b>> \in Seq(Bytes)
      OBVIOUS
    <3> QED BY <3>1
  <2>3. /\ wrote \in Seq(Bytes) /\ to_parent_pip \in Seq(Bytes) /\ Behind \in Seq(Bytes)
        /\ Buffered("output") \in Seq(Bytes) /\ screen \o OnWay \in Seq(Bytes) /\ Shown \in Seq(Bytes)
    <3>1. <<>> \in Seq(Bytes)
      OBVIOUS
    <3> QED BY <3>1, OutTypes DEF Buffered, Types, ServerType
  <2>4. wrote' = wrote \o x
    BY <2>1, <2>2, <2>3, AppendIsConcat
  <2>5. Behind' = Behind \o x
    <3>1. PICK p \in Seq(Bytes), u \in Seq(Bytes) : p = to_parent_pip /\ u = Buffered("output")
      BY <2>3
    <3>2. Cat(Cat(u, p), x) = Cat(u, Cat(p, x))
      BY Regrouped
    <3>3. Append(p, b) = Cat(p, x)
      BY <2>2, AppendIsConcat DEF Cat
    <3>4. Behind' = Cat(u, Cat(p, x)) /\ Behind = Cat(u, p)
      BY <1>1, <2>1, <3>1, <3>3 DEF Behind, Buffered, Cat
    <3> QED BY <3>2, <3>4 DEF Cat
  <2>6. PICK ux \in Seq(Bytes), ub \in Seq(Bytes), all \in Seq(Bytes), so \in Seq(Bytes), shown \in Seq(Bytes) :
           /\ ux = UserText(x) /\ ub = UserText(Behind) /\ all = UserText(wrote)
           /\ so = screen \o OnWay /\ shown = Shown
    BY <2>3, UserTextType
  <2>7. UserText(wrote \o x) = all \o ux /\ UserText(Behind \o x) = ub \o ux
    BY <2>3, <2>6, UserTextConcat
  <2>8. UserText(wrote)' = all \o ux /\ UserText(Behind)' = ub \o ux
    BY <1>1, <2>4, <2>5, <2>7, SameData
  <2>9. OnWay' = OnWay
    BY <1>1, SameData DEF OnWay
  <2>10. Shown' = shown /\ screen' \o OnWay' = so
    BY <1>1, <2>6, <2>9 DEF Shown
  <2>11. IsPrefix(shown, all) => IsPrefix(shown, all \o ux)
    BY PrefixLonger
  <2>12. so \o ub = all => so \o (ub \o ux) = all \o ux
    <3>1. Cat(Cat(so, ub), ux) = Cat(so, Cat(ub, ux))
      BY Regrouped
    <3> QED BY <3>1 DEF Cat
  <2> QED BY <1>1, <1>2, <2>6, <2>8, <2>10, <2>11, <2>12 DEF OutInv
<1> QED BY <1>3, <1>4 DEF Shell

LEMMA OutClient ==
    ASSUME Types, Types', ServerInv, ClientInv, ItemInv, OutInv, Client, UNCHANGED <<comp, serverVars>>
    PROVE  OutInv'
<1>1. "client" \in Ends /\ "server" \in Ends /\ Other("server") = "client" /\ Other("client") = "server"
  BY OtherEnd DEF Ends
<1>2. UNCHANGED <<comp, serverAt, serverBuffer, to_parent_pip, wrote>>
  BY DEF serverVars
<1>3. Behind' = Behind /\ UserText(wrote)' = UserText(wrote) /\ UserText(Behind)' = UserText(Behind)
  <2>1. Behind' = Behind
    BY <1>2 DEF Behind, Buffered
  <2> QED BY <1>2, <2>1, SameData
<1>4. inbox["client"] \in Seq(Items) /\ inbox'["client"] \in Seq(Items) /\ inbox \in [Ends -> Seq(Items)]
  <2>1. Items' = Items
    BY <1>2 DEF Items
  <2> QED BY <1>1, <2>1 DEF Types, NetType
<1>5. PICK all \in Seq(Bytes), z \in Seq(Bytes), w \in Seq(Bytes), ub \in Seq(Bytes) :
         all = UserText(wrote) /\ z = screen /\ w = OnWay /\ ub = UserText(Behind)
  BY OutTypes
<1>6. PICK none \in Seq(Bytes) : none = <<>>
  <2>1. <<>> \in Seq(Bytes)
    OBVIOUS
  <2> QED BY <2>1
<1>7. ASSUME ~Connect, screen' = screen, inbox'["client"] = inbox["client"], ~damaged' => ~damaged,
             clientAt' # "hung"
      PROVE  OutInv'
  <2>1. OnWay' = OnWay
    BY <1>2, <1>7, SameData DEF OnWay
  <2>2. clientAt # "hung" /\ (Connected' => Connected)
    BY <1>2, ClientConnected, <1>7
  <2>3. Shown' = Shown
    BY <1>7, <2>1, <2>2 DEF Shown
  <2> QED BY <1>3, <1>7, <2>1, <2>2, <2>3 DEF OutInv
\* The client ends: what it did not read is lost.
<1>8. ASSUME ~Connect, Close("client"), screen' = screen, clientAt' # "hung"
      PROVE  OutInv'
  <2>1. open \in [Ends -> BOOLEAN]
    BY DEF Types, NetType
  <2>2. inbox'["client"] = <<>> /\ ~open'["client"] /\ damaged' = damaged
    BY <1>1, <1>4, <1>8, <2>1, Closing
  <2>3. clientAt # "hung"
    BY <1>2, <1>8, ClientConnected
  <2>4. OnWay' = none
    BY <1>2, <1>6, <2>2, SameData, DataEmpty, NewlinesEmpty
  <2>5. Shown' = z /\ Shown = z \o w
    BY <1>5, <1>6, <1>8, <2>3, <2>4 DEF Shown
  <2>6. ~Connected'
    BY <2>2 DEF Connected
  <2> QED BY <1>3, <1>5, <2>2, <2>5, <2>6, OutStops
<1>9. ASSUME ~Connect, \/ SetTerminal \/ NotATerminal \/ ConnectFails \/ PollClient \/ ReadKeys \/ NoKeys
                         \/ KeysSent \/ NothingToShow \/ NoClientHup
      PROVE  OutInv'
  <2>1. UNCHANGED <<screen, inbox, damaged>> /\ clientAt' # "hung"
    BY <1>9 DEF SetTerminal, NotATerminal, ConnectFails, PollClient, ReadKeys, NoKeys, KeysSent,
                NothingToShow, NoClientHup, ClientMove, socketVars
  <2> QED BY <1>7, <1>9, <2>1
<1>10. CASE ServerClosed \/ ClientHup \/ SendKeyFails
  <2>1. Close("client") /\ screen' = screen /\ clientAt' # "hung" /\ ~Connect
    BY <1>10 DEF ServerClosed, ClientHup, SendKeyFails, ClientExit, Connect
  <2> QED BY <1>8, <2>1
<1>11. CASE SendKey \/ SendKeys
  <2>1. ASSUME NEW item, Send("client", item)
        PROVE  inbox'["client"] = inbox["client"] /\ (~damaged' => ~damaged)
    BY <1>1, <1>4, <2>1 DEF Send
  <2>2. screen' = screen /\ clientAt' # "hung" /\ ~Connect
    BY <1>11 DEF SendKey, SendKeys, Connect
  <2> QED BY <1>7, <1>11, <2>1, <2>2 DEF SendKey, SendKeys
\* Nothing has been written before the two are connected.
<1>12. CASE Connect
  <2>1. /\ clientAt = "connect" /\ clientAt' = "poll" /\ UNCHANGED <<inbox, damaged, screen>>
        /\ inbox["client"] = <<>> /\ screen = <<>>
        /\ wrote = <<>> /\ to_parent_pip = <<>> /\ serverAt = "accept"
    BY <1>1, <1>12 DEF Connect, ClientInv, ServerInv
  <2>2. w = none /\ OnWay' = none
    BY <1>2, <1>5, <1>6, <2>1, SameData, DataEmpty, NewlinesEmpty DEF OnWay
  <2>3. Behind = none /\ wrote = none
    BY <1>6, <2>1 DEF Behind, Buffered
  <2>4. ub = none /\ all = none
    BY <1>5, <1>6, <2>3, UserTextEmpty
  <2>5. z = none /\ none \o none = none
    BY <1>5, <1>6, <2>1
  <2>6. Shown' = none
    BY <1>5, <2>1, <2>2, <2>5 DEF Shown
  <2>7. IsPrefix(none, none)
    BY PrefixSelf
  <2> QED BY <1>3, <1>5, <2>1, <2>2, <2>4, <2>5, <2>6, <2>7 DEF OutInv
<1>13. CASE ShowServer
  <2>1. PICK n \in Readable(inbox["client"]) :
           /\ Receive("client", n)
           /\ \/ /\ \E d \in Inflations(SubSeq(inbox["client"], 1, n), {"junk"}) :
                       screen' = screen \o [i \in DOMAIN d |-> Newline(d[i])]
                 /\ clientAt' = "hup"
              \/ clientAt' = "hung" /\ screen' = screen
    BY <1>13 DEF ShowServer
  <2>2. n \in 1 .. Len(inbox["client"])
    <3>1. Len(inbox["client"]) \in Nat
      BY <1>4
    <3> QED BY <3>1, ReadableBound
  <2>3. ~Connect
    BY <1>13 DEF ShowServer, Connect
  <2>4. clientAt # "hung" /\ (Connected' => Connected)
    BY <1>2, <2>3, ClientConnected
  <2>5. damaged' = damaged
    BY <2>1 DEF Receive
  <2>6. CASE clientAt' = "hung" /\ screen' = screen
    <3>1. ~Connected' /\ Shown' = z /\ Shown = z \o w
      BY <1>5, <2>4, <2>6 DEF Connected, Shown
    <3> QED BY <1>3, <1>5, <2>5, <3>1, OutStops
  <2>7. ASSUME NEW d \in Inflations(SubSeq(inbox["client"], 1, n), {"junk"}),
               screen' = screen \o Newlines(d), clientAt' = "hup", ~damaged'
        PROVE  OutInv'
    <3> DEFINE S == Sound("client")
               items == SubSeq(inbox["client"], 1, n)
               rest == inbox'["client"]
    <3>1. inbox["client"] \in Seq(S)
      BY <1>1, <2>5, <2>7 DEF ItemInv
    <3>2. /\ items \in Seq(Items)
          /\ inbox["client"] = items \o rest
      BY <1>1, <1>4, <2>1, <2>2, Receiving
    <3> HIDE DEF S
    <3>3. items \in Seq(S)
      BY <1>4, <2>2, <3>1
    <3> HIDE DEF items
    <3>4. d = Data(items)
      BY <1>1, <2>7, <3>3, InflatedSound DEF S, items
    <3> HIDE DEF rest
    <3>5. rest \in Seq(Items) /\ rest = inbox'["client"]
      BY <1>4 DEF rest
    <3>6. PICK a \in Seq(Bytes), b \in Seq(Bytes) : a = d /\ b = Data(rest)
      BY <3>2, <3>4, <3>5, DataType
    <3>7. Data(items \o rest) = a \o b
      BY <3>2, <3>4, <3>5, <3>6, DataConcat
    <3>8. PICK na \in Seq(Bytes), nb \in Seq(Bytes) : na = Newlines(a) /\ nb = Newlines(b)
      BY NewlinesType
    <3>9. Newlines(a \o b) = na \o nb
      BY <3>8, NewlinesConcat
    <3>10. w = Cat(na, nb) /\ OnWay' = nb /\ screen' = Cat(z, na)
      BY <1>2, <1>5, <2>7, <3>2, <3>5, <3>6, <3>7, <3>8, <3>9, SameData DEF OnWay, Cat
    <3>11. Cat(Cat(z, na), nb) = Cat(z, Cat(na, nb))
      BY Regrouped
    <3>12. screen' \o OnWay' = screen \o OnWay
      BY <1>5, <3>10, <3>11 DEF Cat
    <3>13. Shown' = Shown
      BY <2>4, <2>7, <3>12 DEF Shown
    <3> QED BY <1>3, <2>4, <2>5, <3>12, <3>13 DEF OutInv
  <2>8. CASE damaged'
    BY <2>8 DEF OutInv
  <2> QED BY <2>1, <2>6, <2>7, <2>8 DEF Newlines
<1> QED
  BY <1>9, <1>10, <1>11, <1>12, <1>13 DEF Client


-----------------------------------------------------------------------------
(* From the keyboard to the shell.                                         *)

Keys == SubSeq(script, 1, typed)
Got == Buffered("keys") \o Data(inbox["server"])

\* What was handed over, what the server has of the keys, and the rest make up
\* what was typed; while the two are connected the rest is with the client.
KeysInv ==
    ~damaged =>
        /\ IsPrefix(given, ShellText(Keys))
        /\ input /\ serverAt # "hung" =>
              \E pre, rest \in Seq(Bytes) :
                 /\ Newlines(Keys) = (pre \o Newlines(Got)) \o rest
                 /\ ~Contains(pre, "eot")
                 /\ given = ShellText(pre)
                 /\ Connected => rest = Newlines(clientBuffer)

LEMMA KeysTypes ==
    ASSUME Types
    PROVE  /\ inbox["server"] \in Seq(Items) /\ inbox["client"] \in Seq(Items)
           /\ script \in Seq(Bytes) /\ typed \in Nat /\ typed <= Len(script)
           /\ Keys \in Seq(Bytes) /\ Newlines(Keys) \in Seq(Bytes) /\ ShellText(Keys) \in Seq(Bytes)
           /\ Buffered("keys") \in Seq(Bytes) /\ Data(inbox["server"]) \in Seq(Bytes)
           /\ Got \in Seq(Bytes) /\ Newlines(Got) \in Seq(Bytes)
           /\ clientBuffer \in Seq(Bytes) /\ Newlines(clientBuffer) \in Seq(Bytes)
           /\ given \in Seq(Bytes) /\ serverBuffer \in Seq(Bytes)
<1>1. /\ inbox["server"] \in Seq(Items) /\ inbox["client"] \in Seq(Items)
      /\ script \in Seq(Bytes) /\ typed \in Nat /\ typed <= Len(script)
      /\ clientBuffer \in Seq(Bytes) /\ given \in Seq(Bytes) /\ serverBuffer \in Seq(Bytes)
  BY DEF Types, NetType, ServerType, ClientType, Ends
<1>2. Keys \in Seq(Bytes)
  BY <1>1 DEF Keys
<1>3. Data(inbox["server"]) \in Seq(Bytes)
  BY <1>1, DataType
<1>4. Buffered("keys") \in Seq(Bytes)
  <2>1. <<>> \in Seq(Bytes)
    OBVIOUS
  <2> QED BY <1>1, <2>1 DEF Buffered
<1>5. Got \in Seq(Bytes)
  BY <1>3, <1>4, ConcatProperties DEF Got
<1> QED BY <1>1, <1>2, <1>3, <1>4, <1>5, NewlinesType, ShellTextType

LEMMA SameKeys ==
    ASSUME comp' = comp
    PROVE  Newlines(Got)' = Newlines(Buffered("keys")' \o Data(inbox'["server"]))
BY DEF Got, Data

\* What holds of the parts after a step shows all of KeysInv.
LEMMA KeysFrom ==
    ASSUME NEW keys \in Seq(Bytes), keys = Keys', NEW got \in Seq(Bytes), got = Newlines(Got)',
           NEW pre \in Seq(Bytes), NEW rest \in Seq(Bytes),
           Newlines(keys) = Cat(Cat(pre, got), rest), ~Contains(pre, "eot"),
           given' = ShellText(pre), Connected' => rest = Newlines(clientBuffer')
    PROVE  KeysInv'
<1>1. Newlines(keys) = (pre \o got) \o rest
  BY DEF Cat
<1>2. IsPrefix(ShellText(pre), ShellText(keys))
  <2>1. PICK tail \in Seq(Bytes) : tail = Cat(got, rest)
    BY Regrouped
  <2>2. Newlines(keys) = pre \o tail
    <3>1. Cat(Cat(pre, got), rest) = Cat(pre, Cat(got, rest))
      BY Regrouped
    <3> QED BY <2>1, <3>1 DEF Cat
  <2>3. PICK a \in Seq(Bytes), b \in Seq(Bytes) : a = ShellText(pre) /\ b = ShellText(tail)
    BY ShellTextType
  <2>4. ShellText(pre \o tail) = a \o b
    BY <2>3, ShellTextOn
  <2>5. ShellText(keys) = a \o b
    BY <2>2, <2>4, ShellTextNewlines
  <2>6. IsPrefix(a, a \o b)
    BY PrefixOfConcat
  <2> QED BY <2>3, <2>5, <2>6
<1> QED BY <1>1, <1>2 DEF KeysInv

LEMMA KeysSame ==
    ASSUME KeysInv, comp' = comp, ~damaged' => ~damaged, Connected' => Connected,
           UNCHANGED <<given, script, typed, clientBuffer>>, input' => input,
           serverAt' # "hung" => serverAt # "hung",
           inbox'["server"] = inbox["server"], Buffered("keys")' = Buffered("keys")
    PROVE  KeysInv'
<1>1. Newlines(Got)' = Newlines(Got) /\ Keys' = Keys
  BY SameKeys DEF Got, Keys
<1> QED BY <1>1 DEF KeysInv

\* The shell's input has been closed, or the server hangs.
LEMMA KeysStopped ==
    ASSUME Types, KeysInv, ~damaged' => ~damaged, ~(input' /\ serverAt' # "hung"),
           given' = given, NEW more \in Seq(Bytes), Keys' = Keys \o more
    PROVE  KeysInv'
<1> SUFFICES ASSUME ~damaged' PROVE IsPrefix(given, ShellText(Keys \o more))
  BY DEF KeysInv
<1>1. IsPrefix(given, ShellText(Keys))
  BY DEF KeysInv
<1>2. PICK keys \in Seq(Bytes), a \in Seq(Bytes), b \in Seq(Bytes), g \in Seq(Bytes) :
         keys = Keys /\ a = ShellText(keys) /\ b = ShellText(more) /\ g = given
  BY KeysTypes, ShellTextType
<1>3. ShellText(keys \o more) = a \o b \/ ShellText(keys \o more) = a
  BY <1>2, ShellTextOn
<1>4. IsPrefix(g, a) => IsPrefix(g, a \o b)
  BY PrefixLonger
<1> QED BY <1>1, <1>2, <1>3, <1>4


\* The server hands over the next byte of its buffer, or keeps a ^C.
LEMMA KeysHanded ==
    ASSUME Types, Types', KeysInv, comp' = comp, damaged' = damaged, Connected' => Connected,
           UNCHANGED <<script, typed, clientBuffer, serverAt, inbox>>, serverAt = "keys", input,
           NEW b \in Bytes \ {"eot"}, serverBuffer = <<b>> \o serverBuffer',
           b = "etx" => given' = given,
           b # "etx" => given' = Append(given, Newline(b))
    PROVE  KeysInv'
<1> SUFFICES ASSUME ~damaged PROVE KeysInv'
  BY DEF KeysInv
<1>1. PICK pre \in Seq(Bytes), rest \in Seq(Bytes) :
         /\ Newlines(Keys) = (pre \o Newlines(Got)) \o rest
         /\ ~Contains(pre, "eot")
         /\ given = ShellText(pre)
         /\ Connected => rest = Newlines(clientBuffer)
  BY DEF KeysInv
<1>2. PICK t \in Seq(Bytes), d \in Seq(Bytes), x \in Seq(Bytes), keys \in Seq(Bytes) :
         /\ t = serverBuffer' /\ d = Data(inbox["server"]) /\ x = <<b>> /\ keys = Keys
  <2>1. <<b>> \in Seq(Bytes)
    OBVIOUS
  <2>2. serverBuffer' \in Seq(Bytes)
    BY DEF Types, ServerType
  <2> QED BY <2>1, <2>2, KeysTypes
<1>3. PICK td \in Seq(Bytes) : td = Cat(t, d)
  BY Regrouped
<1>4. Got = x \o td
  <2>1. Cat(Cat(x, t), d) = Cat(x, Cat(t, d))
    BY Regrouped
  <2> QED BY <1>2, <1>3, <2>1 DEF Cat, Got, Buffered
<1>5. PICK n \in Seq(Bytes), g \in Seq(Bytes) : n = <<Newline(b)>> /\ g = Newlines(td)
  <2>1. Newline(b) \in Bytes
    BY NewlineType
  <2>2. <<Newline(b)>> \in Seq(Bytes)
    BY <2>1
  <2> QED BY <2>2, NewlinesType
<1>6. Newlines(Got) = Cat(n, g)
  <2>1. Newlines(x) = n
    BY <1>2, <1>5, NewlinesOne
  <2>2. Newlines(x \o td) = Newlines(x) \o Newlines(td)
    BY NewlinesConcat
  <2> QED BY <1>4, <1>5, <2>1, <2>2 DEF Cat
<1>7. g = Newlines(Got)' /\ keys = Keys'
  BY <1>2, <1>3, <1>5, SameKeys DEF Buffered, Cat, Keys
<1>8. PICK pn \in Seq(Bytes) : pn = Cat(pre, n)
  BY Regrouped
<1>9. Newlines(keys) = Cat(Cat(pn, g), rest)
  <2>1. Cat(Cat(pre, n), g) = Cat(pre, Cat(n, g))
    BY Regrouped
  <2> QED BY <1>1, <1>2, <1>6, <1>8, <2>1 DEF Cat
<1>10. /\ ~Contains(n, "eot")
       /\ b = "etx" => ShellText(n) = <<>>
       /\ b # "etx" => ShellText(n) = n
  <2> DEFINE m == Newline(b)
  <2>1. m \in Bytes \ {"eot"} /\ m = Newline(b) /\ Newline(m) = m /\ (m = "etx" <=> b = "etx")
    <3>1. CASE b \in {"cr", "nl"}
      BY <3>1 DEF Newline, Bytes
    <3>2. CASE b \notin {"cr", "nl"}
      BY <3>2 DEF Newline
    <3> QED BY <3>1, <3>2
  <2> HIDE DEF m
  <2>2. /\ ~Contains(<<m>>, "eot")
        /\ m = "etx" => ShellText(<<m>>) = <<>>
        /\ m # "etx" => ShellText(<<m>>) = <<Newline(m)>>
    BY <2>1, ShellTextOne
  <2> QED BY <1>5, <2>1, <2>2
<1>11. ~Contains(pn, "eot")
  BY <1>1, <1>8, <1>10, ContainsConcat DEF Cat
<1>12. given' = ShellText(pn)
  <2>1. ShellText(pre \o n) = ShellText(pre) \o ShellText(n)
    BY <1>1, ShellTextOn
  <2>2. PICK gv \in Seq(Bytes) : gv = given
    BY KeysTypes
  <2>3. gv \o <<>> = gv /\ Append(gv, Newline(b)) = gv \o n
    BY <1>5, AppendIsConcat, NewlineType
  <2> QED BY <1>1, <1>8, <1>10, <2>1, <2>2, <2>3 DEF Cat
<1>13. Connected' => rest = Newlines(clientBuffer')
  BY <1>1
<1> QED BY <1>7, <1>9, <1>11, <1>12, <1>13, KeysFrom

LEMMA KeysServer ==
    ASSUME Types, Types', ServerInv, ItemInv, KeysInv, Server, UNCHANGED <<comp, clientVars>>
    PROVE  KeysInv'
<1>1. "client" \in Ends /\ "server" \in Ends /\ Other("server") = "client" /\ Other("client") = "server"
  BY OtherEnd DEF Ends
<1>2. comp' = comp /\ UNCHANGED <<script, typed, clientBuffer>> /\ (Connected' => Connected)
  BY ServerConnected DEF clientVars
<1>3. inbox["server"] \in Seq(Items) /\ inbox \in [Ends -> Seq(Items)]
  BY <1>1 DEF Types, NetType
<1>4. serverAt # "hung"
  BY DEF Server, Accept, ShellIsGone, ShellIsThere, PollServer, ReadSocket, ReadSocketEnd,
         ReadSocketFails, NoSocketIn, EndOfInput, Interrupt, GiveByte, GiveByteFails, KeysDone, SocketHup,
         NoSocketHup, ReadPipe, NoPipeIn, SendByte, SendPacket, SendFails, OutputDone, PipeHup, NoPipeHup,
         CloseAll, WaitShell, ServerMove, NextByte
<1>5. PICK none \in Seq(Bytes) : none = <<>>
  <2>1. <<>> \in Seq(Bytes)
    OBVIOUS
  <2> QED BY <2>1
<1>6. Keys' = Keys /\ Keys \in Seq(Bytes) /\ Keys' = Keys \o none
  BY <1>2, <1>5, KeysTypes DEF Keys
\* Most steps.
<1>7. ASSUME given' = given, ~damaged' => ~damaged, input' => input, inbox'["server"] = inbox["server"],
             Buffered("keys")' = Buffered("keys")
      PROVE  KeysInv'
  BY <1>2, <1>4, <1>7, KeysSame
\* exit: what the server has of the keys is lost.
<1>8. ASSUME Close("server"), UNCHANGED <<given, input>>, serverAt' # "keys"
      PROVE  KeysInv'
  <2>1. open \in [Ends -> BOOLEAN]
    BY DEF Types, NetType
  <2>2. inbox'["server"] = <<>> /\ ~open'["server"] /\ damaged' = damaged
    BY <1>1, <1>3, <1>8, <2>1, Closing
  <2>3. ~Connected'
    BY <2>2 DEF Connected
  <2>4. CASE ~input \/ damaged
    BY <1>5, <1>6, <1>8, <2>2, <2>4, KeysStopped DEF KeysInv
  <2>5. CASE input /\ ~damaged
    <3>1. PICK pre \in Seq(Bytes), rest \in Seq(Bytes) :
             /\ Newlines(Keys) = (pre \o Newlines(Got)) \o rest
             /\ ~Contains(pre, "eot")
             /\ given = ShellText(pre)
      BY <1>4, <2>5 DEF KeysInv
    <3>2. none = Newlines(Got)'
      BY <1>2, <1>5, <1>8, <2>2, SameKeys, DataEmpty, NewlinesEmpty DEF Buffered
    <3>3. PICK keys \in Seq(Bytes), g \in Seq(Bytes) : keys = Keys' /\ g = Newlines(Got)
      BY <1>6, KeysTypes
    <3>4. PICK lost \in Seq(Bytes) : lost = Cat(g, rest)
      BY Regrouped
    <3>5. Newlines(keys) = Cat(Cat(pre, none), lost)
      <4>1. Cat(Cat(pre, g), rest) = Cat(pre, Cat(g, rest))
        BY Regrouped
      <4>2. pre \o none = pre
        BY <1>5
      <4> QED BY <1>6, <3>1, <3>3, <3>4, <4>1, <4>2 DEF Cat
    <3> QED BY <1>8, <2>3, <3>1, <3>2, <3>3, <3>5, KeysFrom
  <2> QED BY <2>4, <2>5
<1>9. ASSUME NEW c, c # "keys", ServerExit(c) PROVE KeysInv'
  BY <1>8, <1>9 DEF ServerExit
<1>10. CASE ShellIsThere \/ ReadSocketEnd \/ NoSocketIn \/ KeysDone \/ NoSocketHup
           \/ NoPipeIn \/ OutputDone \/ PipeHup \/ PollServer \/ NoPipeHup \/ WaitShell
  <2>1. UNCHANGED <<given, damaged, input, inbox, serverBuffer>>
    BY <1>10 DEF ShellIsThere, ReadSocketEnd, NoSocketIn, KeysDone, NoSocketHup, NoPipeIn,
                OutputDone, PipeHup, ServerMove, PollServer, NoPipeHup, WaitShell, socketVars, shellVars
  <2>2. serverAt = "keys" => serverBuffer = <<>>
    BY <1>10 DEF ShellIsThere, ReadSocketEnd, NoSocketIn, KeysDone, NoSocketHup, NoPipeIn,
                OutputDone, PipeHup, ServerMove, PollServer, NoPipeHup, WaitShell
  <2>3. serverAt' # "keys"
    BY <1>10 DEF ShellIsThere, ReadSocketEnd, NoSocketIn, KeysDone, NoSocketHup, NoPipeIn,
                OutputDone, PipeHup, ServerMove, PollServer, NoPipeHup, WaitShell
  <2> QED BY <1>7, <2>1, <2>2, <2>3 DEF Buffered
<1>11. CASE ShellIsGone \/ ReadSocketFails \/ GiveByteFails \/ SocketHup \/ SendFails \/ CloseAll
  BY <1>9, <1>11 DEF ShellIsGone, ReadSocketFails, GiveByteFails, SocketHup, SendFails, CloseAll, ServerFails
<1>12. CASE Accept
  <2>1. CASE ServerFails
    BY <1>9, <2>1 DEF ServerFails
  <2>2. CASE ~ServerFails
    BY <1>7, <1>12, <2>2 DEF Accept, Buffered, socketVars
  <2> QED BY <2>1, <2>2
\* The shell's input is closed.
<1>13. CASE EndOfInput("keys") \/ EndOfInput("output")
  <2>1. UNCHANGED <<given, damaged>> /\ ~input'
    BY <1>13 DEF EndOfInput, socketVars
  <2> QED BY <1>5, <1>6, <2>1, KeysStopped
<1>14. CASE Interrupt("output") \/ ReadPipe
  BY <1>7, <1>14 DEF Interrupt, ReadPipe, NextByte, Buffered, socketVars
<1>15. CASE Interrupt("keys") \/ GiveByte
  <2>1. PICK b \in Bytes \ {"eot"} :
           /\ NextByte("keys", b)
           /\ b = "etx" => given' = given
           /\ b # "etx" => given' = Append(given, Newline(b))
    BY <1>15 DEF Interrupt, GiveByte, Bytes
  <2>2. serverAt = "keys" /\ serverBuffer = <<b>> \o serverBuffer' /\ serverAt' = serverAt
    BY <2>1, KeysTypes, HeadAndTail DEF NextByte
  <2>3. UNCHANGED <<inbox, damaged, input>>
    BY <1>15 DEF Interrupt, GiveByte, socketVars
  <2>4. CASE input
    BY <1>2, <2>1, <2>2, <2>3, <2>4, KeysHanded
  <2>5. CASE ~input
    <3>1. given' = given
      BY <1>15, <2>5 DEF Interrupt, GiveByte
    <3> QED BY <1>5, <1>6, <2>3, <2>5, <3>1, KeysStopped
  <2> QED BY <2>4, <2>5
<1>16. CASE ReadSocket
  <2>1. PICK n \in Readable(inbox["server"]) :
           /\ Receive("server", n)
           /\ \/ /\ serverBuffer' \in Inflations(SubSeq(inbox["server"], 1, n), {"eot", "etx", "junk"})
                 /\ serverAt' = "keys"
              \/ serverAt' = "hung"
    BY <1>16 DEF ReadSocket
  <2>2. n \in 1 .. Len(inbox["server"])
    <3>1. Len(inbox["server"]) \in Nat
      BY <1>3
    <3> QED BY <3>1, ReadableBound
  <2>3. UNCHANGED <<given, input>> /\ damaged' = damaged /\ serverAt = "socket"
    BY <1>16 DEF ReadSocket, Receive
  <2>4. CASE serverAt' = "hung" \/ ~input \/ damaged
    BY <1>5, <1>6, <2>3, <2>4, KeysStopped DEF KeysInv
  <2>5. ASSUME serverBuffer' \in Inflations(SubSeq(inbox["server"], 1, n), {"eot", "etx", "junk"}),
               serverAt' = "keys", ~damaged, input
        PROVE  KeysInv'
    <3> DEFINE S == Sound("server")
               items == SubSeq(inbox["server"], 1, n)
               left == inbox'["server"]
    <3>1. inbox["server"] \in Seq(S)
      BY <1>1, <2>5 DEF ItemInv
    <3>2. /\ items \in Seq(Items) /\ left \in Seq(Items)
          /\ inbox["server"] = items \o left
      BY <1>1, <1>3, <2>1, <2>2, Receiving
    <3> HIDE DEF S
    <3>3. items \in Seq(S)
      BY <1>3, <2>2, <3>1
    <3> HIDE DEF items
    <3>4. serverBuffer' = Data(items)
      BY <1>1, <2>5, <3>3, InflatedSound DEF S, items
    <3>5. left = inbox'["server"]
      OBVIOUS
    <3> HIDE DEF left
    <3>6. Data(items \o left) = Data(items) \o Data(left)
      BY <3>2, DataConcat
    <3>7. Buffered("keys") = none /\ Buffered("keys")' = Data(items)
      BY <1>5, <2>3, <2>5, <3>4 DEF Buffered
    <3>8. none \o Data(inbox["server"]) = Data(inbox["server"])
      BY <1>5, KeysTypes
    <3>9. Newlines(Got)' = Newlines(Got)
      BY <1>2, <3>2, <3>5, <3>6, <3>7, <3>8, SameKeys DEF Got
    <3> QED BY <1>2, <1>4, <1>6, <2>3, <2>5, <3>9 DEF KeysInv
  <2> QED BY <2>1, <2>4, <2>5
<1>17. CASE SendByte \/ SendPacket
  <2>1. ASSUME NEW item, Send("server", item)
        PROVE  inbox'["server"] = inbox["server"] /\ (~damaged' => ~damaged)
    BY <1>1, <1>3, <2>1 DEF Send
  <2>2. serverAt = "output" /\ serverAt' = "output" /\ given' = given /\ (input' => input)
    <3>1. CASE SendByte
      BY <3>1 DEF SendByte, NextByte
    <3>2. CASE SendPacket
      BY <3>2 DEF SendPacket
    <3> QED BY <1>17, <3>1, <3>2
  <2> QED BY <1>7, <1>17, <2>1, <2>2 DEF SendByte, SendPacket, Buffered
<1> QED
  BY <1>10, <1>11, <1>12, <1>13, <1>14, <1>15, <1>16, <1>17 DEF Server


\* The client sends x, the first of what it has still to send.
LEMMA KeysLeave ==
    ASSUME Types, Types', ClientInv, KeysInv, UNCHANGED <<comp, serverVars>>,
           UNCHANGED <<script, typed, clientAt>>, clientAt = "send",
           NEW item \in Items, Send("client", item),
           NEW x \in Seq(Bytes), clientBuffer = x \o clientBuffer',
           Newlines(IF comp THEN item.data ELSE <<item>>) = Newlines(x)
    PROVE  KeysInv'
<1>1. "client" \in Ends /\ "server" \in Ends /\ Other("client") = "server"
  BY OtherEnd DEF Ends
<1>2. UNCHANGED <<serverAt, serverBuffer, input, given>>
  BY DEF serverVars
<1>3. open' = open /\ ~reset /\ (~damaged' => ~damaged)
  BY DEF Send
<1>4. open["client"]
  BY <1>3 DEF ClientInv, ClientEnded
<1>5. Connected' => Connected
  BY <1>2, <1>3 DEF Connected
<1>6. inbox \in [Ends -> Seq(Items)]
  BY DEF Types, NetType
<1>7. PICK keys \in Seq(Bytes), g \in Seq(Bytes), in \in Seq(Items), none \in Seq(Bytes) :
         /\ keys = Keys /\ g = Newlines(Got) /\ in = inbox["server"] /\ none = <<>>
  <2>1. <<>> \in Seq(Bytes) /\ Keys' = Keys
    BY DEF Keys
  <2> QED BY <2>1, KeysTypes
<1>8. CASE damaged'
  BY <1>8 DEF KeysInv
<1>9. CASE ~input \/ serverAt = "hung"
  <2>1. Keys' = Keys \o none
    BY <1>7 DEF Keys
  <2> QED BY <1>2, <1>3, <1>9, <2>1, KeysStopped
<1>10. ASSUME ~damaged', input, serverAt # "hung" PROVE KeysInv'
  <2>1. PICK pre \in Seq(Bytes), rest \in Seq(Bytes) :
           /\ Newlines(Keys) = (pre \o Newlines(Got)) \o rest
           /\ ~Contains(pre, "eot")
           /\ given = ShellText(pre)
           /\ Connected => rest = Newlines(clientBuffer)
    BY <1>3, <1>10 DEF KeysInv
  <2>2. Newlines(keys) = Cat(Cat(pre, g), rest) /\ keys = Keys'
    BY <1>7, <2>1 DEF Cat, Keys
  <2>3. Buffered("keys")' = Buffered("keys")
    BY <1>2 DEF Buffered
  <2>4. CASE ~open["server"]
    <3>1. inbox'["server"] = inbox["server"]
      BY <1>1, <2>4 DEF Send
    <3>2. Newlines(Got)' = g
      BY <1>7, <2>3, <3>1, SameKeys DEF Got
    <3>3. ~Connected'
      BY <1>3, <2>4 DEF Connected
    <3> QED BY <1>2, <1>7, <2>1, <2>2, <3>2, <3>3, KeysFrom
  <2>5. CASE open["server"]
    <3>1. Connected
      BY <1>3, <1>4, <1>10, <2>5 DEF Connected
    <3>2. inbox'["server"] = Append(in, item)
      BY <1>1, <1>6, <1>7, <2>5 DEF Send
    <3>3. PICK d \in Seq(Bytes), b \in Seq(Bytes), e \in Seq(Bytes) :
             /\ d = (IF comp THEN item.data ELSE <<item>>)
             /\ b = Buffered("keys") /\ e = Data(in)
      <4>1. comp => item.data \in Seq(Bytes)
        BY DEF Items, Packets
      <4>2. ~comp => <<item>> \in Seq(Bytes)
        BY DEF Items
      <4> QED BY <1>7, <4>1, <4>2, KeysTypes
    <3>4. Data(Append(in, item)) = Cat(e, d)
      BY <3>3, DataAppend DEF Cat
    <3>5. PICK be \in Seq(Bytes), nx \in Seq(Bytes), nb \in Seq(Bytes) :
             be = Cat(b, e) /\ nx = Newlines(x) /\ nb = Newlines(clientBuffer')
      BY Regrouped, NewlinesType DEF Types, ClientType
    <3>6. Newlines(Got)' = Cat(g, nx)
      <4>1. Cat(Cat(b, e), d) = Cat(b, Cat(e, d))
        BY Regrouped
      <4>2. Newlines(be \o d) = Newlines(be) \o Newlines(d)
        BY NewlinesConcat
      <4>3. be = Got
        BY <1>7, <3>3, <3>5 DEF Cat, Got
      <4> QED BY <1>7, <2>3, <3>2, <3>3, <3>4, <3>5, <4>1, <4>2, <4>3, SameKeys DEF Cat
    <3>7. PICK gx \in Seq(Bytes) : gx = Cat(g, nx)
      BY Regrouped
    <3>8. rest = Cat(nx, nb)
      <4>1. PICK cb \in Seq(Bytes) : cb = clientBuffer'
        BY DEF Types, ClientType
      <4>2. Newlines(x \o cb) = Newlines(x) \o Newlines(cb)
        BY NewlinesConcat
      <4> QED BY <2>1, <3>1, <3>5, <4>1, <4>2 DEF Cat
    <3>9. PICK pg \in Seq(Bytes) : pg = Cat(pre, g)
      BY Regrouped
    <3>10. Newlines(keys) = Cat(Cat(pre, gx), nb)
      <4>1. Cat(Cat(pg, nx), nb) = Cat(pg, Cat(nx, nb))
        BY Regrouped
      <4>2. Cat(Cat(pre, g), nx) = Cat(pre, Cat(g, nx))
        BY Regrouped
      <4> QED BY <2>2, <3>7, <3>8, <3>9, <4>1, <4>2
    <3> QED BY <1>2, <2>1, <2>2, <3>5, <3>6, <3>7, <3>10, KeysFrom
  <2> QED BY <2>4, <2>5
<1> QED BY <1>8, <1>9, <1>10

LEMMA KeysRead ==
    ASSUME Types, Types', ClientInv, KeysInv, ReadKeys, UNCHANGED <<comp, serverVars>>
    PROVE  KeysInv'
<1>1. UNCHANGED <<comp, serverAt, serverBuffer, input, given, inbox, damaged, script>>
  BY DEF serverVars, ReadKeys, socketVars
<1>2. Connected' => Connected
  BY <1>1 DEF Connected, ReadKeys, socketVars
<1>3. clientBuffer = <<>>
  BY DEF ReadKeys, ClientInv
<1>4. PICK n \in 1 .. KeySize : /\ typed + n <= Len(script)
                                /\ typed' = typed + n
                                /\ clientBuffer' = SubSeq(script, typed + 1, typed + n)
  BY DEF ReadKeys
<1>5. PICK s \in Seq(Bytes), m \in Nat, old \in Seq(Bytes), new \in Seq(Bytes), more \in Seq(Bytes), g \in Seq(Bytes) :
         /\ s = script /\ m = typed /\ old = Keys /\ more = clientBuffer' /\ new = Keys'
         /\ g = Newlines(Got)
  <2>1. Keys' \in Seq(Bytes)
    BY DEF Keys, Types, ClientType
  <2> QED BY <2>1, KeysTypes DEF Types, ClientType
<1>6. new = Cat(old, more)
  <2>1. n \in Nat
    BY ClientAssumption
  <2>2. SubSeq(s, 1, m) \o SubSeq(s, m + 1, m + n) = SubSeq(s, 1, m + n)
    BY <1>4, <1>5, <2>1, GoesOn
  <2> QED BY <1>1, <1>4, <1>5, <2>2 DEF Keys, Cat
<1>7. CASE damaged
  BY <1>1, <1>7 DEF KeysInv
<1>8. CASE ~input \/ serverAt = "hung"
  BY <1>1, <1>5, <1>6, <1>8, KeysStopped DEF Cat
<1>9. ASSUME ~damaged, input, serverAt # "hung" PROVE KeysInv'
  <2>1. PICK pre \in Seq(Bytes), rest \in Seq(Bytes) :
           /\ Newlines(Keys) = (pre \o Newlines(Got)) \o rest
           /\ ~Contains(pre, "eot")
           /\ given = ShellText(pre)
           /\ Connected => rest = Newlines(clientBuffer)
    BY <1>9 DEF KeysInv
  <2>2. g = Newlines(Got)'
    BY <1>1, <1>5, SameKeys DEF Got, Buffered
  <2>3. PICK nm \in Seq(Bytes), all \in Seq(Bytes) : nm = Newlines(more) /\ all = Newlines(old)
    BY NewlinesType
  <2>4. PICK last \in Seq(Bytes), pg \in Seq(Bytes) : last = Cat(rest, nm) /\ pg = Cat(pre, g)
    BY Regrouped
  <2>5. Newlines(old \o more) = all \o nm
    BY <2>3, NewlinesConcat
  <2>6. Newlines(new) = Cat(Cat(pre, g), last)
    <3>1. Cat(Cat(pg, rest), nm) = Cat(pg, Cat(rest, nm))
      BY Regrouped
    <3> QED BY <1>5, <1>6, <2>1, <2>3, <2>4, <2>5, <3>1 DEF Cat
  <2>7. Connected' => last = Newlines(clientBuffer')
    <3>1. Connected' => rest = <<>>
      BY <1>2, <1>3, <2>1, NewlinesEmpty
    <3>2. <<>> \o nm = nm
      OBVIOUS
    <3> QED BY <1>5, <2>3, <2>4, <3>1, <3>2 DEF Cat
  <2> QED BY <1>1, <1>5, <2>1, <2>2, <2>6, <2>7, KeysFrom
<1> QED BY <1>7, <1>8, <1>9


LEMMA KeysClient ==
    ASSUME Types, Types', ServerInv, ClientInv, ItemInv, KeysInv, Client, UNCHANGED <<comp, serverVars>>
    PROVE  KeysInv'
<1>1. "client" \in Ends /\ "server" \in Ends /\ Other("server") = "client" /\ Other("client") = "server"
  BY OtherEnd DEF Ends
<1>2. UNCHANGED <<comp, serverAt, serverBuffer, given, input>>
  BY DEF serverVars
<1>3. inbox \in [Ends -> Seq(Items)] /\ open \in [Ends -> BOOLEAN]
  BY DEF Types, NetType
<1>4. Buffered("keys")' = Buffered("keys")
  BY <1>2 DEF Buffered
<1>5. PICK none \in Seq(Bytes) : none = <<>>
  <2>1. <<>> \in Seq(Bytes)
    OBVIOUS
  <2> QED BY <2>1
\* Most steps.
<1>6. ASSUME ~Connect, UNCHANGED <<script, typed, clientBuffer>>, inbox'["server"] = inbox["server"],
             damaged' = damaged
      PROVE  KeysInv'
  <2>1. Connected' => Connected
    BY <1>2, <1>6, ClientConnected
  <2> QED BY <1>2, <1>4, <1>6, <2>1, KeysSame
\* The client ends: the last of what it sent may be lost.
<1>7. ASSUME Close("client"), UNCHANGED <<script, typed, clientBuffer>> PROVE KeysInv'
  <2>1. /\ ~open'["client"] /\ damaged' = damaged
        /\ \E r \in Seq(Items) : inbox["server"] = inbox'["server"] \o r
        /\ inbox' \in [Ends -> Seq(Items)]
    BY <1>1, <1>3, <1>7, Closing
  <2>2. ~Connected'
    BY <2>1 DEF Connected
  <2>3. PICK keys \in Seq(Bytes) : keys = Keys /\ keys = Keys' /\ Keys' = Keys \o none
    <3>1. Keys' = Keys
      BY <1>7 DEF Keys
    <3>2. PICK keys \in Seq(Bytes) : keys = Keys
      BY KeysTypes
    <3>3. keys \o none = keys
      BY <1>5
    <3> QED BY <3>1, <3>2, <3>3
  <2>4. CASE ~input \/ damaged \/ serverAt = "hung"
    BY <1>2, <1>5, <2>1, <2>3, <2>4, KeysStopped DEF KeysInv
  <2>5. ASSUME input, ~damaged, serverAt # "hung" PROVE KeysInv'
    <3>1. PICK pre \in Seq(Bytes), rest \in Seq(Bytes) :
             /\ Newlines(Keys) = (pre \o Newlines(Got)) \o rest
             /\ ~Contains(pre, "eot")
             /\ given = ShellText(pre)
      BY <2>5 DEF KeysInv
    <3>2. PICK left \in Seq(Items), r \in Seq(Items) :
             left = inbox'["server"] /\ inbox["server"] = left \o r
      BY <1>1, <2>1
    <3>3. PICK a \in Seq(Bytes), b \in Seq(Bytes), u \in Seq(Bytes) :
             a = Data(left) /\ b = Data(r) /\ u = Buffered("keys")
      BY DataType, KeysTypes
    <3>4. Data(inbox["server"]) = Cat(a, b)
      BY <3>2, <3>3, DataConcat DEF Cat
    <3>5. PICK ua \in Seq(Bytes) : ua = Cat(u, a)
      BY Regrouped
    <3>6. PICK g \in Seq(Bytes), nb \in Seq(Bytes) : g = Newlines(ua) /\ nb = Newlines(b)
      BY NewlinesType
    <3>7. Newlines(Got) = Cat(g, nb)
      <4>1. Cat(Cat(u, a), b) = Cat(u, Cat(a, b))
        BY Regrouped
      <4>2. Newlines(ua \o b) = Newlines(ua) \o Newlines(b)
        BY NewlinesConcat
      <4> QED BY <3>3, <3>4, <3>5, <3>6, <4>1, <4>2 DEF Cat, Got
    <3>8. g = Newlines(Got)'
      BY <1>2, <1>4, <3>2, <3>3, <3>5, <3>6, SameKeys DEF Cat
    <3>9. PICK lost \in Seq(Bytes), pg \in Seq(Bytes) : lost = Cat(nb, rest) /\ pg = Cat(pre, g)
      BY Regrouped
    <3>10. Newlines(keys) = Cat(Cat(pre, g), lost)
      <4>1. Cat(Cat(pg, nb), rest) = Cat(pg, Cat(nb, rest))
        BY Regrouped
      <4>2. Cat(Cat(pre, g), nb) = Cat(pre, Cat(g, nb))
        BY Regrouped
      <4>3. Newlines(keys) = Cat(Cat(pre, Cat(g, nb)), rest)
        BY <2>3, <3>1, <3>7 DEF Cat
      <4> QED BY <3>9, <4>1, <4>2, <4>3
    <3> QED BY <1>2, <2>2, <2>3, <3>1, <3>8, <3>10, KeysFrom
  <2> QED BY <2>4, <2>5
<1>8. ASSUME ~Connect, \/ SetTerminal \/ NotATerminal \/ ConnectFails \/ PollClient \/ NoKeys
                       \/ KeysSent \/ NothingToShow \/ NoClientHup
      PROVE  KeysInv'
  <2>1. UNCHANGED <<script, typed, clientBuffer, inbox, damaged>>
    BY <1>8 DEF SetTerminal, NotATerminal, ConnectFails, PollClient, NoKeys, KeysSent,
                NothingToShow, NoClientHup, ClientMove, socketVars
  <2> QED BY <1>6, <1>8, <2>1
<1>9. CASE ServerClosed \/ ClientHup \/ SendKeyFails
  BY <1>7, <1>9 DEF ServerClosed, ClientHup, SendKeyFails, ClientExit
<1>10. CASE ShowServer
  <2>1. inbox'["server"] = inbox["server"] /\ damaged' = damaged
    BY <1>1, <1>3, <1>10 DEF ShowServer, Receive
  <2>2. ~Connect
    BY <1>10 DEF ShowServer, Connect
  <2> QED BY <1>6, <1>10, <2>1, <2>2 DEF ShowServer
\* Nothing has been typed before the two are connected.
<1>11. CASE Connect
  <2>1. /\ UNCHANGED <<script, typed, clientBuffer, inbox, damaged>>
        /\ inbox["server"] = <<>> /\ typed = 0 /\ serverAt = "accept" /\ given = <<>> /\ clientBuffer = <<>>
    BY <1>1, <1>11 DEF Connect, ClientInv, ServerInv
  <2>2. none = Keys'
    BY <1>5, <2>1, KeysTypes DEF Keys
  <2>3. none = Newlines(Got)'
    BY <1>2, <1>4, <1>5, <2>1, SameKeys, DataEmpty, NewlinesEmpty DEF Buffered
  <2>4. Newlines(none) = Cat(Cat(none, none), none)
    BY <1>5, NewlinesEmpty DEF Cat
  <2>5. given' = ShellText(none) /\ ~Contains(none, "eot")
    <3>1. Passed(<<>>, "eot", {"cr", "nl"}, "nl", {"etx"}) = <<>>
      BY PassedEmpty
    <3>2. ShellText(none) = none
      BY <1>5, <3>1, ShellTextIs
    <3> QED BY <1>2, <1>5, <2>1, <3>2 DEF Contains
  <2>6. none = Newlines(clientBuffer')
    BY <1>5, <2>1, NewlinesEmpty
  <2> QED BY <2>2, <2>3, <2>4, <2>5, <2>6, KeysFrom
<1>12. CASE SendKey
  <2>1. /\ ~comp /\ clientAt = "send" /\ clientBuffer # <<>>
        /\ Send("client", Newline(Head(clientBuffer)))
        /\ clientBuffer' = Tail(clientBuffer)
        /\ UNCHANGED <<script, typed, clientAt>>
    BY <1>12 DEF SendKey
  <2>2. PICK b \in Bytes, x \in Seq(Bytes) : b = Head(clientBuffer) /\ x = <<b>>
    <3>1. Head(clientBuffer) \in Bytes
      BY <2>1, KeysTypes, HeadAndTail
    <3>2. <<Head(clientBuffer)>> \in Seq(Bytes)
      BY <3>1
    <3> QED BY <3>1, <3>2
  <2>3. clientBuffer = x \o clientBuffer'
    BY <2>1, <2>2, KeysTypes, HeadAndTail
  <2>4. Newline(b) \in Items /\ Newline(b) \in Bytes
    BY <2>1, NewlineType DEF Items
  <2>5. Newlines(<<Newline(b)>>) = Newlines(x)
    <3>1. Newlines(x) = <<Newline(b)>> /\ Newlines(<<Newline(b)>>) = <<Newline(Newline(b))>>
      BY <2>2, <2>4, NewlinesOne
    <3> QED BY <3>1 DEF Newline
  <2> QED BY <2>1, <2>2, <2>3, <2>4, <2>5, KeysLeave
<1>13. CASE SendKeys
  <2>1. /\ comp /\ clientAt = "send" /\ clientBuffer' = <<>>
        /\ UNCHANGED <<script, typed, clientAt>>
    BY <1>13 DEF SendKeys
  <2>2. PICK ok \in BOOLEAN : Send("client", [data |-> clientBuffer, ok |-> ok])
    BY <1>13 DEF SendKeys
  <2>3. PICK item \in Items, x \in Seq(Bytes) : item = [data |-> clientBuffer, ok |-> ok] /\ x = clientBuffer
    <3>1. [data |-> clientBuffer, ok |-> ok] \in Items
      BY <2>1, KeysTypes DEF Items, Packets
    <3> QED BY <3>1, KeysTypes
  <2>4. clientBuffer = x \o clientBuffer'
    BY <2>1, <2>3
  <2>5. item.data = x
    BY <2>3
  <2> QED BY <2>1, <2>2, <2>3, <2>4, <2>5, KeysLeave
<1> QED
  BY <1>8, <1>9, <1>10, <1>11, <1>12, <1>13, KeysRead DEF Client

-----------------------------------------------------------------------------
(* What is delivered, in every state.                                      *)

TextsInv == ItemInv /\ OutInv /\ KeysInv

LEMMA TextsInit == Init => TextsInv
<1> SUFFICES ASSUME Init PROVE TextsInv
  OBVIOUS
<1>1. Types
  BY PlacesInit DEF Places
<1>2. PICK none \in Seq(Bytes) : none = <<>>
  <2>1. <<>> \in Seq(Bytes)
    OBVIOUS
  <2> QED BY <2>1
<1>3. /\ \A e \in Ends : inbox[e] = <<>>
      /\ ~open["client"]
      /\ serverAt = "accept" /\ to_parent_pip = none /\ given = none /\ wrote = none
      /\ typed = 0 /\ clientAt = "start" /\ screen = none
  BY <1>2 DEF Init, SocketInit, ServerInit, ClientInit, Ends
<1>4. inbox["client"] = <<>> /\ inbox["server"] = <<>>
  BY <1>3 DEF Ends
<1>5. ~Connected
  BY <1>3 DEF Connected
<1>6. ItemInv
  <2>1. \A S : <<>> \in Seq(S)
    OBVIOUS
  <2> QED BY <1>3, <2>1 DEF ItemInv
<1>7. none \o none = none
  BY <1>2
<1>8. OutInv
  <2>1. OnWay = none
    BY <1>2, <1>4, DataEmpty, NewlinesEmpty DEF OnWay
  <2>2. Shown = none
    BY <1>3, <1>7, <2>1 DEF Shown
  <2>3. UserText(wrote) = none
    BY <1>2, <1>3, UserTextEmpty
  <2>4. IsPrefix(none, none)
    BY PrefixSelf
  <2> QED BY <1>5, <2>2, <2>3, <2>4 DEF OutInv
<1>9. KeysInv
  <2>1. Keys = none
    BY <1>1, <1>2, <1>3, KeysTypes DEF Keys
  <2>2. Got = none
    <3>1. Buffered("keys") = none
      BY <1>2, <1>3 DEF Buffered
    <3>2. Data(inbox["server"]) = none
      BY <1>2, <1>4, DataEmpty
    <3> QED BY <1>7, <3>1, <3>2 DEF Got
  <2>3. Newlines(none) = none
    BY <1>2, NewlinesEmpty
  <2>4. ShellText(none) = none
    <3>1. Passed(<<>>, "eot", {"cr", "nl"}, "nl", {"etx"}) = <<>>
      BY PassedEmpty
    <3> QED BY <1>2, <3>1, ShellTextIs
  <2>5. ~Contains(none, "eot")
    BY <1>2 DEF Contains
  <2>6. Newlines(Keys) = (none \o Newlines(Got)) \o none
    <3>1. Newlines(Keys) = none /\ Newlines(Got) = none
      BY <2>1, <2>2, <2>3
    <3> QED BY <1>7, <3>1
  <2>7. IsPrefix(given, ShellText(Keys))
    BY <1>2, <1>3, <2>1, <2>4, PrefixSelf
  <2> QED BY <1>2, <1>3, <1>5, <2>4, <2>5, <2>6, <2>7 DEF KeysInv
<1> QED BY <1>6, <1>8, <1>9 DEF TextsInv

LEMMA TextsNext == Places /\ Places' /\ TextsInv /\ [Next]_vars => TextsInv'
<1> SUFFICES ASSUME Places, Places', TextsInv, [Next]_vars PROVE TextsInv'
  OBVIOUS
<1>1. /\ Types /\ Types' /\ ServerInv /\ ClientInv
      /\ ItemInv /\ OutInv /\ KeysInv
  BY DEF Places, TextsInv
<1>2. CASE Server /\ UNCHANGED <<comp, clientVars>>
  BY <1>1, <1>2, ItemsServer, OutServer, KeysServer DEF TextsInv
<1>3. CASE Shell /\ UNCHANGED <<comp, clientVars>>
  <2>1. /\ UNCHANGED <<inbox, open, reset, damaged, serverAt, serverBuffer, given, input>>
        /\ UNCHANGED <<comp, script, typed, clientBuffer, clientAt>>
    BY <1>3 DEF Shell, socketVars, clientVars
  <2>2. ItemInv'
    BY <1>1, <2>1 DEF ItemInv, Sound
  <2>3. Connected' = Connected /\ Buffered("keys")' = Buffered("keys")
    BY <2>1 DEF Connected, Buffered
  <2>4. KeysInv'
    BY <1>1, <2>1, <2>3, KeysSame
  <2> QED BY <1>1, <1>3, <2>2, <2>4, OutShell DEF TextsInv
<1>4. CASE Client /\ UNCHANGED <<comp, serverVars>>
  BY <1>1, <1>4, ItemsClient, OutClient, KeysClient DEF TextsInv
<1>5. CASE UNCHANGED vars
  <2>1. UNCHANGED <<comp, inbox, open, reset, damaged, serverAt, serverBuffer, given, input, wrote,
                    to_parent_pip, script, typed, clientBuffer, clientAt, screen>>
    BY <1>5 DEF vars, socketVars, serverVars, clientVars
  <2>2. ItemInv'
    BY <1>1, <2>1 DEF ItemInv, Sound
  <2>3. Connected' = Connected /\ Buffered("keys")' = Buffered("keys") /\ Behind' = Behind
    BY <2>1 DEF Connected, Buffered, Behind
  <2>4. KeysInv'
    BY <1>1, <2>1, <2>3, KeysSame
  <2>5. OutInv'
    BY <1>1, <2>1, <2>3, OutSame
  <2> QED BY <2>2, <2>4, <2>5 DEF TextsInv
<1> QED BY <1>2, <1>3, <1>4, <1>5 DEF Next

LEMMA TextsAlways == Spec => [](Places /\ TextsInv)
BY PlacesInit, PlacesNext, TextsInit, TextsNext, PTL DEF Spec

\* What is typed reaches the shell in order, once, with nothing left out, as
\* long as nothing is damaged on the way.
THEOREM KeysKept == Spec => []KeysDelivered
<1>1. Places /\ TextsInv => KeysDelivered
  <2> SUFFICES ASSUME Types, KeysInv, ~damaged
               PROVE  LET underWay == (IF serverAt = "keys" THEN serverBuffer ELSE <<>>)
                                      \o Data(inbox["server"]) \o clientBuffer
                          whole == ShellText(SubSeq(script, 1, typed))
                      IN  /\ IsPrefix(given, whole)
                          /\ (Connected /\ input) => given \o ShellText(underWay) = whole
    BY DEF KeysDelivered, Places, TextsInv
  <2>1. IsPrefix(given, ShellText(Keys))
    BY DEF KeysInv
  <2>2. ASSUME Connected, input
        PROVE  given \o ShellText(Got \o clientBuffer) = ShellText(Keys)
    <3>1. serverAt # "hung"
      BY <2>2 DEF Connected
    <3>2. PICK pre \in Seq(Bytes), rest \in Seq(Bytes) :
             /\ Newlines(Keys) = (pre \o Newlines(Got)) \o rest
             /\ ~Contains(pre, "eot")
             /\ given = ShellText(pre)
             /\ rest = Newlines(clientBuffer)
      BY <2>2, <3>1 DEF KeysInv
    <3>3. PICK got \in Seq(Bytes), cb \in Seq(Bytes), g \in Seq(Bytes), keys \in Seq(Bytes) :
             got = Got /\ cb = clientBuffer /\ g = Newlines(got) /\ keys = Keys
      BY KeysTypes
    <3>4. PICK all \in Seq(Bytes), nall \in Seq(Bytes) : all = got \o cb /\ nall = Cat(g, rest)
      BY Regrouped, ConcatProperties
    <3>5. nall = Newlines(all)
      BY <3>2, <3>3, <3>4, NewlinesConcat DEF Cat
    <3>6. Newlines(keys) = pre \o nall
      <4>1. Cat(Cat(pre, g), rest) = Cat(pre, Cat(g, rest))
        BY Regrouped
      <4> QED BY <3>2, <3>3, <3>4, <4>1 DEF Cat
    <3>7. ShellText(pre \o nall) = ShellText(pre) \o ShellText(nall)
      BY <3>2, ShellTextOn
    <3>8. ShellText(nall) = ShellText(all) /\ ShellText(Newlines(keys)) = ShellText(keys)
      BY <3>5, ShellTextNewlines
    <3> QED BY <3>2, <3>3, <3>4, <3>6, <3>7, <3>8
  <2> QED BY <2>1, <2>2 DEF Got, Buffered, Keys
<1> QED BY <1>1, TextsAlways, PTL

\* What the shell writes reaches the screen in order, once, with nothing left
\* out, as long as nothing is damaged on the way.
THEOREM OutputKept == Spec => []OutputDelivered
<1>1. Places /\ TextsInv => OutputDelivered
  <2> SUFFICES ASSUME Types, ItemInv, OutInv, ~damaged
               PROVE  LET underWay == Data(inbox["client"])
                                      \o (IF serverAt = "output" THEN serverBuffer ELSE <<>>)
                                      \o to_parent_pip
                      IN  /\ IsPrefix(screen, UserText(wrote))
                          /\ Connected => screen \o UserText(underWay) = UserText(wrote)
    BY DEF OutputDelivered, Places, TextsInv
  <2>1. PICK z \in Seq(Bytes), w \in Seq(Bytes), u \in Seq(Bytes), p \in Seq(Bytes), all \in Seq(Bytes),
             d \in Seq(Bytes) :
           /\ z = screen /\ w = OnWay /\ u = Buffered("output") /\ p = to_parent_pip
           /\ all = UserText(wrote) /\ d = Data(inbox["client"])
    <3>1. <<>> \in Seq(Bytes)
      OBVIOUS
    <3> QED BY <3>1, OutTypes, DataType DEF Buffered, Types, ServerType
  <2>2. IsPrefix(screen, UserText(wrote))
    <3>1. IsPrefix(Shown, all)
      BY <2>1 DEF OutInv
    <3>2. CASE clientAt = "hung"
      BY <2>1, <3>1, <3>2 DEF Shown
    <3>3. CASE clientAt # "hung"
      <4>1. IsPrefix(z \o w, all)
        BY <2>1, <3>1, <3>3 DEF Shown
      <4> QED BY <2>1, <4>1, PrefixShorter
    <3> QED BY <3>2, <3>3
  <2>3. ASSUME Connected PROVE screen \o UserText((d \o u) \o p) = UserText(wrote)
    <3>1. (z \o w) \o UserText(u \o p) = all
      BY <2>1, <2>3 DEF OutInv, Behind
    <3>2. UserText(d) = w
      <4>1. CASE comp
        BY <2>1, <4>1 DEF UserText, OnWay
      <4>2. CASE ~comp
        <5> DEFINE S == Bytes \ {"eot", "etx"}
                   dropped == {"eot", "etx"}
        <5>1. inbox["client"] \in Seq(S)
          BY <4>2 DEF ItemInv, Sound, Ends
        <5>2. d = inbox["client"] /\ S \cap dropped = {}
          BY <2>1, <4>2 DEF Data
        <5> HIDE DEF S, dropped
        <5>3. Without(d, dropped) = d
          BY <5>1, <5>2, WithoutNone
        <5> QED BY <2>1, <4>2, <5>3 DEF UserText, OnWay, dropped
      <4> QED BY <4>1, <4>2
    <3>3. PICK up \in Seq(Bytes), tup \in Seq(Bytes) : up = Cat(u, p) /\ tup = UserText(up)
      BY Regrouped, UserTextType
    <3>4. UserText(d \o up) = UserText(d) \o UserText(up)
      BY UserTextConcat
    <3>5. Cat(Cat(d, u), p) = Cat(d, Cat(u, p))
      BY Regrouped
    <3>6. UserText((d \o u) \o p) = Cat(w, tup)
      BY <3>2, <3>3, <3>4, <3>5 DEF Cat
    <3>7. Cat(Cat(z, w), tup) = Cat(z, Cat(w, tup))
      BY Regrouped
    <3> QED BY <2>1, <3>1, <3>3, <3>6, <3>7 DEF Cat
  <2> QED BY <2>1, <2>2, <2>3 DEF Buffered
<1> QED BY <1>1, TextsAlways, PTL


=============================================================================
