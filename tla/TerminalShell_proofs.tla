------------------------ MODULE TerminalShell_proofs ------------------------
(***************************************************************************)
(* Theorems about TerminalShell, for all keys, outputs, buffers and pipes. *)
(***************************************************************************)
EXTENDS TerminalShell, Texts_proofs

LoopPlaces == {"poll", "keys", "give", "write", "pipe", "hup"}

\* Where the program can be for the options and the state of the shell.
PlaceInv ==
    /\ at \in LoopPlaces => shell /\ child # "none"
    /\ at = "start" => terminal = "cooked"
    /\ at = "fork" => shell
    /\ at \in {"read", "echo"} => ~shell
    /\ at \in {"start", "fork", "read", "echo"} \/ ~shell => child = "none"
    /\ at = "write" => buffer # <<>>
    /\ "pipe_hup" \in revents => ChildDead
    /\ at = "wait" /\ shell => code = 1

Controls == IF shell THEN {"etx"} ELSE {}
Typed == SubSeq(script, 1, typed)
Done == IF shell THEN given ELSE echo
Owed == IF input THEN KeyText(buffer, Controls) ELSE <<>>

\* What was handed on and what is owed of the keys.  Until ^D is met the buffer
\* is the end of what was typed, and there is no ^D before it.
TextInv ==
    /\ Done \o Owed = KeyText(Typed, Controls)
    /\ input => \E pre \in Seq(Bytes) : Typed = pre \o buffer /\ ~Contains(pre, "eot")
    /\ ~input => Contains(Typed, "eot")

\* A key is shown and not yet given only between the two writes, or for ever
\* when the second fails.
EchoInv ==
    /\ at \in {"start", "fork", "read", "poll", "keys", "pipe", "hup"} => buffer = <<>>
    /\ ~shell => input /\ given = <<>>
    /\ at = "write" => /\ Head(buffer) \notin {"eot", "etx"}
                       /\ echo = Append(given, Newline(Head(buffer)))
    /\ shell /\ at \notin {"write", "wait", "exit0", "exit1"} => echo = given
    /\ shell => echo = given \/ \E b \in Bytes : echo = Append(given, b)

IInv == TypeOK /\ PlaceInv /\ Endings /\ OutputDelivered /\ TextInv /\ EchoInv

-----------------------------------------------------------------------------
(* Types.                                                                  *)

LEMMA TypeInit == Init => TypeOK
<1> SUFFICES ASSUME Init PROVE TypeOK
  OBVIOUS
<1> USE TerminalAssumption
<1>1. script \in Scripts /\ typed = 0 /\ Len(script) \in Nat
  BY DEF Init
<1>2. \A s \in {buffer, echo, screen, to_child_pip, to_parent_pip, given, wrote} :
         s \in Seq(Bytes) /\ Len(s) = 0
  <2>1. ASSUME NEW s \in {buffer, echo, screen, to_child_pip, to_parent_pip, given, wrote} PROVE s = <<>>
    BY Zenon DEF Init
  <2>2. <<>> \in Seq(Bytes) /\ Len(<<>>) = 0
    OBVIOUS
  <2> QED BY <2>1, <2>2
<1>3. Len(buffer) <= BufferSize /\ Len(to_child_pip) <= PipeSize /\ Len(to_parent_pip) <= PipeSize
  BY <1>2
<1>4. typed \in 0 .. Len(script)
  BY <1>1
<1> QED BY <1>1, <1>2, <1>3, <1>4 DEF Init, TypeOK

\* A read of the keyboard returns bytes of the script.
LEMMA ReadTypes ==
    ASSUME TypeOK, NEW from, NEW to \in {"echo", "give"}, ReadBytes(from, to)
    PROVE  TypeOK'
<1> USE TerminalAssumption
<1>1. PICK n \in 1 .. BufferSize :
         /\ typed + n <= Len(script)
         /\ typed' = typed + n
         /\ buffer' = SubSeq(script, typed + 1, typed + n)
  BY DEF ReadBytes
<1>2. script \in Seq(Bytes) /\ typed \in Nat /\ n \in Nat
  BY DEF TypeOK
<1>3. buffer' \in Seq(Bytes) /\ Len(buffer') = n
  BY <1>1, <1>2, Part
<1>4. typed' \in 0 .. Len(script) /\ Len(buffer') <= BufferSize
  BY <1>1, <1>2, <1>3
<1>5. UNCHANGED <<shell, script, revents, code, terminal, echo, screen, input, reported, childVars>> /\ at' = to
  BY DEF ReadBytes
<1> QED BY <1>3, <1>4, <1>5 DEF TypeOK, childVars

LEMMA ShowTypes == ASSUME TypeOK, ShowOutput PROVE TypeOK'
<1> USE TerminalAssumption
<1>1. PICK n \in 1 .. BufferSize :
         /\ n <= Len(to_parent_pip)
         /\ screen' = screen \o SubSeq(to_parent_pip, 1, n)
         /\ to_parent_pip' = SubSeq(to_parent_pip, n + 1, Len(to_parent_pip))
  BY DEF ShowOutput
<1>2. to_parent_pip \in Seq(Bytes) /\ screen \in Seq(Bytes) /\ n \in Nat
  BY DEF TypeOK
<1>3. SubSeq(to_parent_pip, 1, n) \in Seq(Bytes)
  BY <1>1, <1>2
<1>4. screen' \in Seq(Bytes)
  BY <1>1, <1>2, <1>3, ConcatProperties
<1>5. to_parent_pip' \in Seq(Bytes) /\ Len(to_parent_pip') <= Len(to_parent_pip)
  BY <1>1, <1>2
<1>6. Len(to_parent_pip') <= PipeSize
  BY <1>2, <1>5 DEF TypeOK
<1> QED BY <1>4, <1>5, <1>6 DEF TypeOK, ShowOutput

LEMMA TypeNext == TypeOK /\ PlaceInv /\ [Next]_vars => TypeOK'
<1> USE TerminalAssumption
<1> SUFFICES ASSUME TypeOK, PlaceInv, [Next]_vars PROVE TypeOK'
  OBVIOUS
<1>1. CASE UNCHANGED vars
  BY <1>1 DEF TypeOK, vars, loopVars, childVars
<1>2. CASE Program
  <2>1. ASSUME NEW c \in {0, 1}, Exit(c) PROVE TypeOK'
    BY <2>1 DEF TypeOK, Exit, childVars
  <2>2. ASSUME NEW from, NEW to \in {"exit1", "read", "pipe", "hup", "poll"}, Move(from, to) PROVE TypeOK'
    BY <2>2 DEF TypeOK, Move, loopVars, childVars
  <2>3. CASE NotATerminal \/ EchoDone \/ NoKeys \/ KeysDone \/ NoOutput \/ NoPipeHup
    BY <2>2, <2>3 DEF NotATerminal, EchoDone, NoKeys, KeysDone, NoOutput, NoPipeHup
  <2>4. CASE EchoEnds \/ GiveKeyFails \/ PipeHup
    BY <2>1, <2>4 DEF EchoEnds, GiveKeyFails, PipeHup
  <2>5. CASE SetTerminal
    BY <2>5 DEF TypeOK, SetTerminal, childVars
  <2>6. CASE WaitForChild
    BY <2>6 DEF TypeOK, WaitForChild, childVars, ExitPlace
  <2>7. CASE Read \/ ReadKeys
    BY <2>7, ReadTypes DEF Read, ReadKeys
  <2>8. CASE EchoByte
    <3>1. Newline(Head(buffer)) \in Bytes /\ Tail(buffer) \in Seq(Bytes) /\ Len(Tail(buffer)) <= BufferSize
      BY <2>8 DEF TypeOK, EchoByte, Newline, Bytes
    <3> QED BY <3>1, <2>8 DEF TypeOK, EchoByte, childVars
  <2>9. CASE Fork
    <3>1. CASE Exit(1)
      BY <2>1, <3>1
    <3> QED BY <2>9, <3>1 DEF TypeOK, Fork, loopVars
  <2>10. CASE Poll
    BY <2>10 DEF TypeOK, Poll, childVars
  <2>11. CASE EndOfInput \/ Interrupt
    <3>1. Tail(buffer) \in Seq(Bytes) /\ Len(Tail(buffer)) <= BufferSize
      BY <2>11 DEF TypeOK, EndOfInput, Interrupt, NextKey
    <3> QED BY <3>1, <2>11 DEF TypeOK, EndOfInput, Interrupt, NextKey, childVars
  <2>12. CASE EchoKey
    <3>1. Newline(Head(buffer)) \in Bytes
      BY <2>12 DEF TypeOK, EchoKey, Newline, Bytes
    <3> QED BY <3>1, <2>12 DEF TypeOK, EchoKey, childVars
  <2>13. CASE ShowOutput
    BY <2>13, ShowTypes
  <2>14. CASE GiveKey
    <3>1. buffer # <<>>
      BY <2>14 DEF PlaceInv, GiveKey
    <3>2. Head(buffer) \in Bytes /\ Tail(buffer) \in Seq(Bytes) /\ Len(Tail(buffer)) <= BufferSize
      BY <3>1 DEF TypeOK
    <3>3. Newline(Head(buffer)) \in Bytes
      BY <3>2 DEF Newline, Bytes
    <3> DEFINE b == Newline(Head(buffer))
    <3>4. /\ to_child_pip' \in Seq(Bytes) /\ Len(to_child_pip') <= PipeSize
          /\ given' \in Seq(Bytes)
      <4>1. b \in Bytes
        BY <3>3
      <4>2. to_child_pip' = Append(to_child_pip, b) /\ given' = Append(given, b)
        BY <2>14 DEF GiveKey
      <4>3. /\ to_child_pip \in Seq(Bytes) /\ given \in Seq(Bytes)
            /\ Len(to_child_pip) < PipeSize
        BY <2>14 DEF TypeOK, GiveKey
      <4> HIDE DEF b
      <4> QED BY <4>1, <4>2, <4>3
    <3> QED BY <3>2, <3>4, <2>14 DEF TypeOK, GiveKey
  <2> QED
    BY <1>2, <2>3, <2>4, <2>5, <2>6, <2>7, <2>8, <2>9, <2>10, <2>11, <2>12, <2>13, <2>14 DEF Program
<1>3. CASE Child
  <2>1. CASE ChildReads
    <3>1. Tail(to_child_pip) \in Seq(Bytes) /\ Len(Tail(to_child_pip)) <= PipeSize
      BY <2>1 DEF TypeOK, ChildReads
    <3> QED BY <3>1, <2>1, <1>3 DEF TypeOK, Child, ChildReads, loopVars
  <2>2. CASE ChildWrites
    <3>1. PICK b \in Bytes : to_parent_pip' = Append(to_parent_pip, b) /\ wrote' = Append(wrote, b)
      BY <2>2 DEF ChildWrites
    <3>2. to_parent_pip' \in Seq(Bytes) /\ wrote' \in Seq(Bytes) /\ Len(to_parent_pip') <= PipeSize
      BY <3>1, <2>2 DEF TypeOK, ChildWrites
    <3> QED BY <3>2, <2>2, <1>3 DEF TypeOK, Child, ChildWrites, loopVars
  <2>3. CASE ChildEnds
    BY <2>3, <1>3 DEF TypeOK, Child, ChildEnds, loopVars
  <2> QED BY <1>3, <2>1, <2>2, <2>3 DEF Child
<1> QED BY <1>1, <1>2, <1>3 DEF Next

-----------------------------------------------------------------------------
(* Where the program is, and how it ends.                                  *)

LEMMA PlaceNext ==
    ASSUME TypeOK, PlaceInv, Endings, [Next]_vars
    PROVE  PlaceInv' /\ Endings'
<1> USE DEF PlaceInv, Endings, ChildDead, LoopPlaces
<1>1. CASE UNCHANGED vars
  BY <1>1 DEF vars, loopVars, childVars
<1>2. CASE Program
  <2>1. CASE NotATerminal \/ SetTerminal
    BY <2>1 DEF NotATerminal, SetTerminal, Move, loopVars, childVars
  <2>2. CASE WaitForChild
    BY <2>2 DEF WaitForChild, ExitPlace, childVars, TypeOK
  <2>3. CASE Read \/ ReadKeys
    <3>1. CASE ReadBytes("read", "echo")
      BY <3>1 DEF ReadBytes, childVars
    <3>2. CASE ReadBytes("keys", "give")
      BY <3>2 DEF ReadBytes, childVars
    <3> QED BY <2>3, <3>1, <3>2 DEF Read, ReadKeys
  <2>4. CASE EchoByte \/ EchoEnds \/ EchoDone
    BY <2>4 DEF EchoByte, EchoEnds, EchoDone, Exit, Move, loopVars, childVars
  <2>5. CASE Fork
    <3>1. CASE at' = "poll" /\ child' = "running" /\ UNCHANGED <<shell, script, loopVars>>
      BY <2>5, <3>1 DEF Fork, loopVars
    <3>2. CASE Exit(1)
      BY <2>5, <3>2 DEF Fork, Exit, childVars
    <3> QED BY <2>5, <3>1, <3>2 DEF Fork
  <2>6. CASE Poll
    BY <2>6 DEF Poll, childVars
  <2>7. CASE NoKeys \/ KeysDone \/ NoOutput \/ NoPipeHup
    BY <2>7 DEF NoKeys, KeysDone, NoOutput, NoPipeHup, Move, loopVars, childVars
  <2>8. CASE EndOfInput \/ Interrupt
    BY <2>8 DEF EndOfInput, Interrupt, NextKey, childVars
  <2>9. CASE EchoKey \/ GiveKey
    BY <2>9 DEF EchoKey, GiveKey, childVars
  <2>10. CASE GiveKeyFails \/ PipeHup
    BY <2>10 DEF GiveKeyFails, PipeHup, Exit, childVars
  <2>11. CASE ShowOutput
    BY <2>11 DEF ShowOutput
  <2> QED
    BY <1>2, <2>1, <2>2, <2>3, <2>4, <2>5, <2>6, <2>7, <2>8, <2>9, <2>10, <2>11 DEF Program
<1>3. CASE Child
  <2>1. UNCHANGED <<shell, at, revents, code, terminal, input, reported, buffer>> /\ child = "running"
    BY <1>3 DEF Child, loopVars
  <2>2. child' = child \/ child' \in {"exited", "killed"}
    BY <1>3 DEF Child, ChildReads, ChildWrites, ChildEnds
  <2> QED BY <2>1, <2>2
<1> QED BY <1>1, <1>2, <1>3 DEF Next

-----------------------------------------------------------------------------
(* The shell's output.                                                     *)

LEMMA OutputNext ==
    ASSUME TypeOK, OutputDelivered, [Next]_vars
    PROVE  OutputDelivered'
<1>1. CASE UNCHANGED <<screen, to_parent_pip, wrote>>
  BY <1>1 DEF OutputDelivered
<1>2. CASE ShowOutput
  <2> USE TerminalAssumption
  <2>1. PICK n \in 1 .. BufferSize :
           /\ n <= Len(to_parent_pip)
           /\ screen' = screen \o SubSeq(to_parent_pip, 1, n)
           /\ to_parent_pip' = SubSeq(to_parent_pip, n + 1, Len(to_parent_pip))
    BY <1>2 DEF ShowOutput
  <2>2. screen \in Seq(Bytes) /\ to_parent_pip \in Seq(Bytes) /\ n \in 0 .. Len(to_parent_pip)
    BY <2>1 DEF TypeOK
  <2>3. (screen \o SubSeq(to_parent_pip, 1, n)) \o SubSeq(to_parent_pip, n + 1, Len(to_parent_pip))
           = screen \o to_parent_pip
    BY <2>2, Moved
  <2>4. wrote' = wrote
    BY <1>2 DEF ShowOutput
  <2> QED BY <2>1, <2>3, <2>4, Zenon DEF OutputDelivered
<1>3. CASE Child /\ ChildWrites
  <2>1. PICK b \in Bytes : to_parent_pip' = Append(to_parent_pip, b) /\ wrote' = Append(wrote, b)
    BY <1>3 DEF ChildWrites
  <2>2. screen \in Seq(Bytes) /\ to_parent_pip \in Seq(Bytes) /\ screen' = screen
    BY <1>3 DEF TypeOK, Child, loopVars
  <2>3. screen \o Append(to_parent_pip, b) = Append(screen \o to_parent_pip, b)
    BY <2>2, Appended
  <2> QED BY <2>1, <2>2, <2>3, Zenon DEF OutputDelivered
<1>4. CASE Child /\ ~ChildWrites
  BY <1>1, <1>4 DEF Child, ChildReads, ChildEnds, loopVars
<1>5. CASE Program /\ ~ShowOutput
  <2>1. ASSUME NEW c, Exit(c) PROVE UNCHANGED <<screen, to_parent_pip, wrote>>
    BY <2>1 DEF Exit, childVars
  <2>2. ASSUME NEW from, NEW to, Move(from, to) PROVE UNCHANGED <<screen, to_parent_pip, wrote>>
    BY <2>2 DEF Move, loopVars, childVars
  <2>3. CASE NotATerminal \/ EchoDone \/ NoKeys \/ KeysDone \/ NoOutput \/ NoPipeHup
    BY <1>1, <2>2, <2>3 DEF NotATerminal, EchoDone, NoKeys, KeysDone, NoOutput, NoPipeHup
  <2>4. CASE EchoEnds \/ GiveKeyFails \/ PipeHup
    BY <1>1, <2>1, <2>4 DEF EchoEnds, GiveKeyFails, PipeHup
  <2>5. CASE SetTerminal \/ WaitForChild \/ Poll \/ EchoByte \/ EchoKey \/ GiveKey
    BY <1>1, <2>5 DEF SetTerminal, WaitForChild, Poll, EchoByte, EchoKey, GiveKey, childVars
  <2>6. CASE Read \/ ReadKeys
    BY <1>1, <2>6 DEF Read, ReadKeys, ReadBytes, childVars
  <2>7. CASE Fork
    BY <1>1, <2>1, <2>7 DEF Fork, loopVars
  <2>8. CASE EndOfInput \/ Interrupt
    BY <1>1, <2>8 DEF EndOfInput, Interrupt, NextKey, childVars
  <2> QED
    BY <1>5, <2>3, <2>4, <2>5, <2>6, <2>7, <2>8 DEF Program
<1> QED
  BY <1>1, <1>2, <1>3, <1>4, <1>5 DEF Next, vars, loopVars, childVars

-----------------------------------------------------------------------------
(* The keys.                                                               *)

LEMMA KeyTextPassed ==
    ASSUME NEW s, NEW controls
    PROVE  KeyText(s, controls) = Passed(s, "eot", {"cr", "nl"}, "nl", controls)
BY DEF KeyText, Newlines, Newline, Passed, Replaced

LEMMA KeyTextType ==
    ASSUME NEW s \in Seq(Bytes), NEW controls
    PROVE  KeyText(s, controls) \in Seq(Bytes)
<1>1. "nl" \in Bytes
  BY DEF Bytes
<1> QED BY <1>1, PassedType, KeyTextPassed

\* What is passed on of keys without ^D is followed by that of the next.
LEMMA KeyTextOn ==
    ASSUME NEW s \in Seq(Bytes), NEW t \in Seq(Bytes), ~Contains(s, "eot"), NEW controls
    PROVE  KeyText(s \o t, controls) = KeyText(s, controls) \o KeyText(t, controls)
<1>1. "nl" \in Bytes
  BY DEF Bytes
<1>2. Passed(s \o t, "eot", {"cr", "nl"}, "nl", controls)
        = Passed(s, "eot", {"cr", "nl"}, "nl", controls) \o Passed(t, "eot", {"cr", "nl"}, "nl", controls)
  BY <1>1, PassedOn
<1> QED BY <1>2, KeyTextPassed

\* After ^D nothing is.
LEMMA KeyTextNoMore ==
    ASSUME NEW s \in Seq(Bytes), NEW t \in Seq(Bytes), Contains(s, "eot"), NEW controls
    PROVE  KeyText(s \o t, controls) = KeyText(s, controls)
<1>1. Passed(s \o t, "eot", {"cr", "nl"}, "nl", controls) = Passed(s, "eot", {"cr", "nl"}, "nl", controls)
  BY PassedNoMore
<1> QED BY <1>1, KeyTextPassed

LEMMA KeyTextEmpty == ASSUME NEW controls PROVE KeyText(<<>>, controls) = <<>>
<1>1. Passed(<<>>, "eot", {"cr", "nl"}, "nl", controls) = <<>>
  BY PassedEmpty
<1> QED BY <1>1, KeyTextPassed

\* One key and those that follow it.
LEMMA KeyTextFirst ==
    ASSUME NEW b \in Bytes, NEW rest \in Seq(Bytes), NEW controls, NEW n, n = Newline(b)
    PROVE  /\ Contains(<<b>>, "eot") <=> b = "eot"
           /\ b = "eot" => KeyText(<<b>> \o rest, controls) = <<>>
           /\ b # "eot" /\ n \in controls =>
                 KeyText(<<b>> \o rest, controls) = KeyText(rest, controls)
           /\ b # "eot" /\ n \notin controls =>
                 KeyText(<<b>> \o rest, controls) = <<n>> \o KeyText(rest, controls)
<1> DEFINE one == <<b>>
           k == KeyText(rest, controls)
<1>1. "nl" \in Bytes /\ n = IF b \in {"cr", "nl"} THEN "nl" ELSE b
  BY DEF Bytes, Newline
<1>2. one \in Seq(Bytes)
  OBVIOUS
<1>3. k \in Seq(Bytes)
  BY KeyTextType
<1>4. /\ Contains(one, "eot") <=> b = "eot"
      /\ b = "eot" => KeyText(one, controls) = <<>>
      /\ b # "eot" /\ n \in controls => KeyText(one, controls) = <<>>
      /\ b # "eot" /\ n \notin controls => KeyText(one, controls) = <<n>>
  <2> DEFINE end == "eot"
             old == {"cr", "nl"}
             new == "nl"
  <2>1. n = (IF b \in old THEN new ELSE b) /\ new \in Bytes
    BY <1>1
  <2> HIDE DEF end, old, new
  <2>2. /\ Contains(<<b>>, end) <=> b = end
        /\ b = end => Passed(<<b>>, end, old, new, controls) = <<>>
        /\ b # end /\ n \in controls => Passed(<<b>>, end, old, new, controls) = <<>>
        /\ b # end /\ n \notin controls => Passed(<<b>>, end, old, new, controls) = <<n>>
    BY <2>1, PassedOne
  <2> QED BY <2>2, KeyTextPassed DEF end, old, new
<1> HIDE DEF one
<1>5. CASE b = "eot"
  <2>1. KeyText(one \o rest, controls) = KeyText(one, controls)
    BY <1>2, <1>4, <1>5, KeyTextNoMore
  <2> QED BY <1>4, <1>5, <2>1 DEF one
<1>6. CASE b # "eot"
  <2>1. KeyText(one \o rest, controls) = KeyText(one, controls) \o k
    BY <1>2, <1>4, <1>6, KeyTextOn
  <2> HIDE DEF k
  <2>2. <<>> \o k = k
    BY <1>3
  <2> QED BY <1>4, <1>6, <2>1, <2>2 DEF one, k
<1> QED BY <1>5, <1>6

\* A read of the keyboard: the buffer was empty, and is owed.
LEMMA TextRead ==
    ASSUME TypeOK, TextInv, buffer = <<>>, NEW from, NEW to, ReadBytes(from, to)
    PROVE  TextInv'
<1> DEFINE new == buffer'
<1>1. PICK n \in 1 .. BufferSize :
         /\ typed + n <= Len(script)
         /\ typed' = typed + n
         /\ new = SubSeq(script, typed + 1, typed + n)
  BY DEF ReadBytes
<1>2. script \in Seq(Bytes) /\ typed \in Nat /\ n \in Nat
  BY TerminalAssumption DEF TypeOK
<1>3. new \in Seq(Bytes) /\ Typed \o new = SubSeq(script, 1, typed + n)
  BY <1>1, <1>2, Part, GoesOn DEF Typed
<1>4. UNCHANGED <<shell, script, echo, given, input>>
  BY DEF ReadBytes, childVars
<1>5. /\ Typed' = Typed \o new /\ Controls' = Controls /\ Done' = Done
      /\ Owed' = IF input THEN KeyText(new, Controls) ELSE <<>>
  BY <1>1, <1>3, <1>4 DEF Typed, Controls, Done, Owed
<1>6. Typed \in Seq(Bytes) /\ Done \in Seq(Bytes)
  <2>1. typed \in 0 .. Len(script) /\ Len(script) \in Nat
    BY <1>2 DEF TypeOK
  <2>2. Typed \in Seq(Bytes)
    BY <1>2, <2>1 DEF Typed
  <2> QED BY <2>2 DEF TypeOK, Done
<1> HIDE DEF new
<1>7. CASE input
  <2>1. PICK pre \in Seq(Bytes) : Typed = pre \o buffer /\ ~Contains(pre, "eot")
    BY <1>7 DEF TextInv
  <2>2. pre \o <<>> = pre /\ Done \o <<>> = Done
    BY <1>6
  <2>3. ~Contains(Typed, "eot")
    BY <2>1, <2>2
  <2>4. Owed = <<>>
    BY KeyTextEmpty DEF Owed
  <2>5. Done = KeyText(Typed, Controls)
    BY <2>2, <2>4 DEF TextInv
  <2>6. KeyText(Typed \o new, Controls) = KeyText(Typed, Controls) \o KeyText(new, Controls)
    <3>1. Typed \in Seq(Bytes) /\ new \in Seq(Bytes)
      BY <1>3, <1>6
    <3> QED BY <2>3, <3>1, KeyTextOn, Zenon
  <2>7. Done' \o Owed' = KeyText(Typed', Controls')
    BY <1>5, <1>7, <2>5, <2>6
  <2>8. \E p \in Seq(Bytes) : Typed' = p \o new /\ ~Contains(p, "eot")
    BY <1>5, <1>6, <2>3
  <2> QED BY <1>4, <1>7, <2>7, <2>8 DEF TextInv, new
<1>8. CASE ~input
  <2>1. Contains(Typed, "eot") /\ Owed = <<>>
    BY <1>8 DEF TextInv, Owed
  <2>2. KeyText(Typed \o new, Controls) = KeyText(Typed, Controls)
    BY <1>3, <1>6, <2>1, KeyTextNoMore
  <2>3. Done' \o Owed' = KeyText(Typed', Controls')
    BY <1>5, <1>8, <2>1, <2>2 DEF TextInv
  <2>4. Contains(Typed \o new, "eot")
    BY <1>3, <1>6, <2>1, ContainsConcat
  <2> QED BY <1>4, <1>5, <1>8, <2>3, <2>4 DEF TextInv
<1> QED BY <1>7, <1>8

\* A key leaves the buffer: it is ^D, or it is not handed on, or it is.
LEMMA TextKey ==
    ASSUME TypeOK, TextInv, buffer # <<>>, buffer' = Tail(buffer),
           UNCHANGED <<shell, script, typed>>,
           input' = (input /\ Head(buffer) # "eot"),
           Done' = IF Head(buffer) = "eot" \/ Newline(Head(buffer)) \in Controls \/ ~input THEN Done
                   ELSE Append(Done, Newline(Head(buffer)))
    PROVE  TextInv'
<1> DEFINE b == Head(buffer)
           rest == Tail(buffer)
           k == KeyText(rest, Controls)
           done == Done
           n == Newline(b)
<1>1. b \in Bytes /\ rest \in Seq(Bytes) /\ buffer = <<b>> \o rest
  BY HeadAndTail DEF TypeOK
<1>2. done \in Seq(Bytes)
  BY DEF TypeOK, Done
<1>3. k \in Seq(Bytes)
  BY <1>1, KeyTextType
<1>4. Typed' = Typed /\ Controls' = Controls
  BY DEF Typed, Controls
<1>5. n \in Bytes
  BY <1>1 DEF Newline, Bytes
<1>6. Owed' = IF input' THEN k ELSE <<>>
  BY <1>4 DEF Owed
<1>7. /\ Contains(<<b>>, "eot") <=> b = "eot"
      /\ b = "eot" => KeyText(buffer, Controls) = <<>>
      /\ b # "eot" /\ n \in Controls => KeyText(buffer, Controls) = k
      /\ b # "eot" /\ n \notin Controls => KeyText(buffer, Controls) = <<n>> \o k
  <2> HIDE DEF b, rest, n
  <2>1. n = Newline(b)
    BY DEF n
  <2>2. /\ Contains(<<b>>, "eot") <=> b = "eot"
        /\ b = "eot" => KeyText(<<b>> \o rest, Controls) = <<>>
        /\ b # "eot" /\ n \in Controls => KeyText(<<b>> \o rest, Controls) = k
        /\ b # "eot" /\ n \notin Controls => KeyText(<<b>> \o rest, Controls) = <<n>> \o k
    BY <1>1, <2>1, KeyTextFirst
  <2> QED BY <1>1, <2>2
<1> HIDE DEF b, rest, k, n, done
<1>8. CASE ~input
  BY <1>4, <1>6, <1>8 DEF TextInv, Owed, done
<1>9. CASE input
  <2>1. PICK pre \in Seq(Bytes) : Typed = pre \o buffer /\ ~Contains(pre, "eot")
    BY <1>9 DEF TextInv
  <2>2. done \o KeyText(buffer, Controls) = KeyText(Typed, Controls)
    BY <1>9 DEF TextInv, Owed, done
  <2> DEFINE one == <<b>>
  <2>3. one \in Seq(Bytes) /\ (Contains(one, "eot") <=> b = "eot")
    <3>1. one \in Seq(Bytes)
      BY <1>1
    <3> QED BY <1>7, <3>1
  <2>4. buffer = one \o rest
    BY <1>1
  <2> HIDE DEF one
  <2>5. CASE b = "eot"
    <3>1. Contains(buffer, "eot")
      BY <1>1, <2>3, <2>4, <2>5, ContainsConcat
    <3>2. Contains(Typed, "eot")
      BY <2>1, <3>1, ContainsConcat DEF TypeOK
    <3>3. ~input' /\ Done' = done /\ Owed' = <<>>
      BY <1>6, <2>5 DEF b, done
    <3>4. done \o <<>> = KeyText(Typed, Controls)
      BY <1>7, <2>2, <2>5
    <3> QED BY <1>4, <3>2, <3>3, <3>4 DEF TextInv
  <2>6. CASE b # "eot"
    <3>1. input' /\ Owed' = k
      BY <1>6, <1>9, <2>6 DEF b
    <3>2. Typed = (pre \o one) \o rest /\ pre \o one \in Seq(Bytes)
      <4>1. one \in Seq(Bytes) /\ rest \in Seq(Bytes)
        BY <1>1, <2>3
      <4>2. pre \o (one \o rest) = (pre \o one) \o rest
        BY <4>1, <2>1, ConcatAssociative, SMTT(60)
      <4>3. pre \o one \in Seq(Bytes)
        BY <4>1, ConcatProperties
      <4> QED BY <2>1, <2>4, <4>2, <4>3
    <3>3. ~Contains(pre \o one, "eot")
      BY <2>1, <2>3, <2>6, ContainsConcat
    <3>4. \E p \in Seq(Bytes) : Typed' = p \o buffer' /\ ~Contains(p, "eot")
      BY <1>4, <3>2, <3>3 DEF rest
    <3>5. Done' \o k = KeyText(Typed, Controls)
      <4>1. CASE n \in Controls
        BY <1>7, <2>2, <2>6, <4>1 DEF done, n, b
      <4>2. CASE n \notin Controls
        <5>1. Done' = Append(done, n)
          BY <1>9, <2>6, <4>2 DEF done, n, b
        <5>2. Append(done, n) = done \o <<n>> /\ <<n>> \in Seq(Bytes)
          BY <1>2, <1>5, AppendIsConcat
        <5>3. (done \o <<n>>) \o k = done \o (<<n>> \o k)
          BY <1>2, <1>3, <5>2, ConcatAssociative
        <5> QED BY <1>7, <2>2, <2>6, <4>2, <5>1, <5>2, <5>3
      <4> QED BY <4>1, <4>2
    <3> QED BY <1>4, <3>1, <3>4, <3>5 DEF TextInv
  <2> QED BY <2>5, <2>6
<1> QED BY <1>8, <1>9

LEMMA TextNext ==
    ASSUME TypeOK, PlaceInv, TextInv, EchoInv, [Next]_vars
    PROVE  TextInv'
<1>1. CASE UNCHANGED <<shell, script, typed, buffer, input, given>> /\ (UNCHANGED echo \/ shell)
  BY <1>1 DEF TextInv, Typed, Controls, Done, Owed
<1>2. ASSUME NEW c, Exit(c) PROVE TextInv'
  BY <1>1, <1>2 DEF Exit, childVars
<1>3. ASSUME NEW from, NEW to, Move(from, to) PROVE TextInv'
  BY <1>1, <1>3 DEF Move, loopVars, childVars
<1>4. CASE NotATerminal \/ EchoDone \/ NoKeys \/ KeysDone \/ NoOutput \/ NoPipeHup
  BY <1>3, <1>4 DEF NotATerminal, EchoDone, NoKeys, KeysDone, NoOutput, NoPipeHup
<1>5. CASE EchoEnds \/ GiveKeyFails \/ PipeHup
  BY <1>2, <1>5 DEF EchoEnds, GiveKeyFails, PipeHup
<1>6. CASE SetTerminal \/ WaitForChild \/ Poll \/ ShowOutput
  BY <1>1, <1>6 DEF SetTerminal, WaitForChild, Poll, ShowOutput, childVars
<1>7. CASE Read \/ ReadKeys
  <2>1. buffer = <<>>
    BY <1>7 DEF Read, ReadKeys, ReadBytes, EchoInv
  <2> QED BY <1>7, <2>1, TextRead DEF Read, ReadKeys
<1>8. CASE Fork
  BY <1>1, <1>2, <1>8 DEF Fork, loopVars
<1>9. CASE EchoByte
  <2>1. ~shell /\ input
    BY <1>9 DEF EchoByte, PlaceInv, EchoInv
  <2>2. Controls = {} /\ Done = echo /\ Done' = echo'
    BY <1>9, <2>1 DEF EchoByte, Controls, Done
  <2> QED BY <1>9, <2>1, <2>2, TextKey DEF EchoByte
<1>10. CASE EndOfInput
  <2>1. buffer # <<>> /\ Head(buffer) = "eot" /\ UNCHANGED <<echo, shell, script, typed>> /\ given' = given
    BY <1>10 DEF EndOfInput, NextKey, childVars
  <2>2. Done' = Done
    BY <2>1 DEF Done
  <2> QED BY <1>10, <2>1, <2>2, TextKey DEF EndOfInput, NextKey
<1>11. CASE Interrupt
  <2>1. buffer # <<>> /\ Head(buffer) = "etx" /\ shell
    BY <1>11 DEF Interrupt, NextKey, PlaceInv, LoopPlaces
  <2>2. Done' = Done /\ Newline(Head(buffer)) \in Controls /\ Head(buffer) # "eot"
    BY <1>11, <2>1 DEF Interrupt, NextKey, Done, Newline, Controls
  <2>3. UNCHANGED <<shell, script, typed, input>> /\ buffer' = Tail(buffer)
    BY <1>11 DEF Interrupt, NextKey
  <2>4. input' = (input /\ Head(buffer) # "eot")
    BY <2>2, <2>3 DEF TypeOK
  <2> QED BY <2>1, <2>2, <2>3, <2>4, TextKey
<1>12. CASE EchoKey
  <2>1. shell
    BY <1>12 DEF EchoKey, PlaceInv, LoopPlaces
  <2> QED BY <1>1, <1>12, <2>1 DEF EchoKey, childVars
<1>13. CASE GiveKey
  <2>1. shell /\ buffer # <<>> /\ Head(buffer) \notin {"eot", "etx"} /\ input
    BY <1>13 DEF GiveKey, PlaceInv, LoopPlaces, EchoInv
  <2>2. Newline(Head(buffer)) \notin Controls
    BY <2>1 DEF Newline, Controls
  <2>3. /\ UNCHANGED <<shell, script, typed, input>> /\ buffer' = Tail(buffer)
        /\ given' = Append(given, Newline(Head(buffer)))
    BY <1>13 DEF GiveKey
  <2>4. Done' = Append(Done, Newline(Head(buffer)))
    BY <2>1, <2>3 DEF Done
  <2> QED BY <2>1, <2>2, <2>3, <2>4, TextKey
<1>14. CASE Child
  BY <1>1, <1>14 DEF Child, ChildReads, ChildWrites, ChildEnds, loopVars
<1>15. CASE UNCHANGED vars
  BY <1>1, <1>15 DEF vars, loopVars, childVars
<1> QED
  BY <1>4, <1>5, <1>6, <1>7, <1>8, <1>9, <1>10, <1>11, <1>12, <1>13, <1>14, <1>15 DEF Next, Program

LEMMA EchoNext ==
    ASSUME TypeOK, PlaceInv, EchoInv, [Next]_vars
    PROVE  EchoInv'
<1> USE DEF PlaceInv, EchoInv, LoopPlaces
<1>1. ASSUME NEW c, Exit(c) PROVE EchoInv'
  BY <1>1 DEF Exit, childVars
<1>2. CASE NotATerminal \/ SetTerminal \/ WaitForChild \/ Poll
  BY <1>2 DEF NotATerminal, SetTerminal, WaitForChild, ExitPlace, Poll, Move, loopVars, childVars
<1>3. CASE EchoDone \/ NoKeys \/ KeysDone \/ NoOutput \/ NoPipeHup
  BY <1>3 DEF EchoDone, NoKeys, KeysDone, NoOutput, NoPipeHup, Move, loopVars, childVars
<1>4. CASE EchoEnds \/ GiveKeyFails \/ PipeHup
  BY <1>1, <1>4 DEF EchoEnds, GiveKeyFails, PipeHup
<1>5. CASE Read \/ ReadKeys
  BY <1>5 DEF Read, ReadKeys, ReadBytes, childVars
<1>6. CASE EchoByte
  BY <1>6 DEF EchoByte, childVars
<1>7. CASE Fork
  BY <1>1, <1>7 DEF Fork, loopVars
<1>8. CASE ShowOutput
  BY <1>8 DEF ShowOutput
<1>9. CASE EndOfInput \/ Interrupt
  BY <1>9 DEF EndOfInput, Interrupt, NextKey, childVars
<1>10. CASE EchoKey
  <2>1. buffer \in Seq(Bytes) /\ buffer # <<>>
    BY <1>10 DEF EchoKey, TypeOK
  <2>2. Newline(Head(buffer)) \in Bytes
    BY <2>1 DEF Newline, Bytes
  <2> QED BY <1>10, <2>2 DEF EchoKey, childVars
<1>11. CASE GiveKey
  BY <1>11 DEF GiveKey
<1>12. CASE Child
  BY <1>12 DEF Child, ChildReads, ChildWrites, ChildEnds, loopVars
<1>13. CASE UNCHANGED vars
  BY <1>13 DEF vars, loopVars, childVars
<1> QED
  BY <1>2, <1>3, <1>4, <1>5, <1>6, <1>7, <1>8, <1>9, <1>10, <1>11, <1>12, <1>13 DEF Next, Program

\* The invariant says what KeysDelivered does.
LEMMA Delivered == ASSUME TypeOK, TextInv, EchoInv PROVE KeysDelivered
<1> DEFINE controls == IF shell THEN {"etx"} ELSE {}
           whole == KeyText(SubSeq(script, 1, typed), controls)
           done == IF shell THEN given ELSE echo
<1>1. done \o (IF input THEN KeyText(buffer, controls) ELSE <<>>) = whole
  BY DEF TextInv, Done, Owed, Typed, Controls
<1>2. given \in Seq(Bytes) /\ echo \in Seq(Bytes)
  BY DEF TypeOK
<1>3. CASE echo = given
  <2>1. IsPrefix(given, echo)
    BY <1>2, <1>3, PrefixSelf
  <2>2. Len(echo) <= Len(given) + 1
    BY <1>2, <1>3
  <2> QED BY <1>1, <2>1, <2>2 DEF KeysDelivered
<1>4. ASSUME shell, NEW b \in Bytes, echo = Append(given, b) PROVE KeysDelivered
  <2>1. <<b>> \in Seq(Bytes) /\ echo = given \o <<b>>
    BY <1>2, <1>4, AppendIsConcat
  <2>2. IsPrefix(given, echo)
    BY <1>2, <2>1, PrefixOfConcat
  <2>3. Len(echo) <= Len(given) + 1
    BY <1>2, <1>4
  <2> QED BY <1>1, <2>2, <2>3 DEF KeysDelivered
<1>5. CASE ~shell
  <2>1. given = <<>> /\ <<>> \o echo = echo
    BY <1>2, <1>5 DEF EchoInv
  <2>2. IsPrefix(given, given \o echo)
    BY <1>2, PrefixOfConcat
  <2> QED BY <1>1, <1>5, <2>1, <2>2 DEF KeysDelivered
<1> QED BY <1>3, <1>4, <1>5 DEF EchoInv

-----------------------------------------------------------------------------
(* The theorems.                                                           *)

LEMMA Invariant == Spec => []IInv
<1>1. Init => IInv
  <2> SUFFICES ASSUME Init PROVE IInv
    OBVIOUS
  <2>1. TypeOK
    BY TypeInit
  <2>2. PlaceInv /\ Endings
    BY DEF Init, PlaceInv, Endings, LoopPlaces, ChildDead
  <2>3. OutputDelivered
    <3>1. <<>> \o <<>> = <<>>
      OBVIOUS
    <3> QED BY <3>1, Zenon DEF Init, OutputDelivered
  <2>4. TextInv
    <3>1. typed = 0 /\ buffer = <<>> /\ echo = <<>> /\ given = <<>> /\ input
      BY DEF Init
    <3>2. script \in Seq(Bytes)
      BY TerminalAssumption DEF Init
    <3>3. SubSeq(script, 1, 0) = <<>> /\ <<>> \o <<>> = <<>>
      BY <3>2
    <3>4. Typed = <<>> /\ Done = <<>> /\ Owed = <<>>
      BY <3>1, <3>3, KeyTextEmpty DEF Typed, Done, Owed
    <3> DEFINE empty == <<>>
    <3>5. empty \in Seq(Bytes) /\ ~Contains(empty, "eot")
      BY DEF Contains
    <3>6. Typed = empty \o buffer
      BY <3>1, <3>3, <3>4
    <3> HIDE DEF empty
    <3>7. \E pre \in Seq(Bytes) : Typed = pre \o buffer /\ ~Contains(pre, "eot")
      BY <3>5, <3>6
    <3> QED BY <3>1, <3>3, <3>4, <3>7, KeyTextEmpty DEF TextInv
  <2>5. EchoInv
    BY DEF Init, EchoInv
  <2> QED BY <2>1, <2>2, <2>3, <2>4, <2>5 DEF IInv
<1>2. IInv /\ [Next]_vars => IInv'
  BY TypeNext, PlaceNext, OutputNext, TextNext, EchoNext DEF IInv
<1> QED BY <1>1, <1>2, PTL DEF Spec

\* Every variable keeps its type, and no buffer or pipe gets more than it holds.
THEOREM TypeCorrect == Spec => []TypeOK
<1>1. IInv => TypeOK
  BY DEF IInv
<1> QED BY <1>1, Invariant, PTL

\* restore_terminal_mode runs on every way out, and the exit status says how the
\* shell ended.
THEOREM EndingsHold == Spec => []Endings
<1>1. IInv => Endings
  BY DEF IInv
<1> QED BY <1>1, Invariant, PTL

\* main's loop shows the shell's output in order, once, with nothing left out.
THEOREM OutputKept == Spec => []OutputDelivered
<1>1. IInv => OutputDelivered
  BY DEF IInv
<1> QED BY <1>1, Invariant, PTL

\* main's loop hands the keys to the shell, or shows them, in order, once, with
\* nothing left out before ^D, and shows each before it is handed on.
THEOREM KeysKept == Spec => []KeysDelivered
<1>1. IInv => KeysDelivered
  BY Delivered DEF IInv
<1> QED BY <1>1, Invariant, PTL

=============================================================================
