-------------------------------- MODULE Texts --------------------------------
(***************************************************************************)
(* What the properties of the programs' loops say of texts.  Without is    *)
(* SelectSeq written with FlattenSeq, of which something can be proved.    *)
(***************************************************************************)
EXTENDS Integers, Sequences, FiniteSets, SequencesExt

\* s with every element of dropped left out.
Without(s, dropped) ==
    FlattenSeq([i \in DOMAIN s |-> IF s[i] \in dropped THEN <<>> ELSE <<s[i]>>])

\* What comes before the first e, or all of s.
Before(s, e) ==
    LET places == {i \in 1 .. Len(s) : s[i] = e}
    IN  IF places = {} THEN s ELSE SubSeq(s, 1, Min(places) - 1)

\* How many elements of s are e.
Times(s, e) == Cardinality({i \in DOMAIN s : s[i] = e})

\* The lines one after the other, each with its end.
Joined(lines, end) == FlattenSeq([i \in DOMAIN lines |-> Append(lines[i], end)])

=============================================================================
