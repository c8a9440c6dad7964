---------------------------- MODULE Texts_proofs ----------------------------
(***************************************************************************)
(* Lemmas about sequences: what flattening, leaving out, cutting and       *)
(* joining do to a sequence that grows at its end or is used up at its     *)
(* head.                                                                   *)
(***************************************************************************)
EXTENDS Texts, SequenceTheorems, FiniteSetTheorems, WellFoundedInduction, TLAPS

-----------------------------------------------------------------------------
(* Induction, with a set of natural numbers or of sequences in the place   *)
(* of a predicate.                                                         *)

\* A set of natural numbers that is not empty has a least element.
LEMMA Least ==
    ASSUME NEW T \in SUBSET Nat, T # {}
    PROVE  \E k \in T : \A j \in T : k <= j
<1> DEFINE R == {p \in Nat \X Nat : p[1] < p[2]}
<1>1. IsWellFoundedOn(R, Nat)
  BY NatLessThanWellFounded DEF OpToRel
<1> HIDE DEF R
<1>2. PICK k \in T : \A j \in T : ~(<<j, k>> \in R)
  BY <1>1, WFMin
<1>3. ASSUME NEW j \in T PROVE k <= j
  <2>1. ~(j < k)
    BY <1>2 DEF R
  <2>2. QED
    BY <2>1
<1>4. QED
  BY <1>3

LEMMA NatSetInduction ==
    ASSUME NEW T, 0 \in T, \A n \in Nat : n \in T => n + 1 \in T
    PROVE  Nat \subseteq T
<1> DEFINE bad == Nat \ T
<1> SUFFICES ASSUME bad # {} PROVE FALSE
  OBVIOUS
<1>1. PICK k \in bad : \A j \in bad : k <= j
  BY Least
<1>2. k \in Nat /\ k # 0 /\ k \notin T
  OBVIOUS
<1>3. k - 1 \in Nat /\ k - 1 \notin bad
  BY <1>1, <1>2
<1>4. (k - 1) + 1 \in T
  BY <1>3
<1>5. QED
  BY <1>2, <1>4

LEMMA SeqSetInduction ==
    ASSUME NEW S, NEW T, <<>> \in T,
           \A s \in Seq(S) : s \in T => \A e \in S : Append(s, e) \in T
    PROVE  Seq(S) \subseteq T
<1> DEFINE L == {n \in Nat : \A s \in Seq(S) : Len(s) = n => s \in T}
<1>1. 0 \in L
  BY EmptySeq
<1>2. ASSUME NEW n \in Nat, n \in L PROVE n + 1 \in L
  <2> SUFFICES ASSUME NEW s \in Seq(S), Len(s) = n + 1 PROVE s \in T
    OBVIOUS
  <2>1. s # <<>>
    OBVIOUS
  <2>2. PICK r \in Seq(S), e \in S : s = Append(r, e)
    BY <2>1, SequenceEmptyOrAppend
  <2>3. Len(s) = Len(r) + 1 /\ Len(r) \in Nat
    BY <2>2, AppendProperties, LenProperties
  <2>4. Len(r) = n
    BY <2>3
  <2>5. QED
    BY <1>2, <2>2, <2>4
<1>3. Nat \subseteq L
  BY <1>1, <1>2, NatSetInduction
<1>4. QED
  BY <1>3, LenProperties

-----------------------------------------------------------------------------
(* Cutting and joining.                                                    *)

\* The rest and the beginning of a sequence.
LEMMA Part ==
    ASSUME NEW S, NEW s \in Seq(S), NEW m \in Nat, NEW n \in Nat, m + n <= Len(s)
    PROVE  /\ SubSeq(s, m + 1, m + n) \in Seq(S)
           /\ Len(SubSeq(s, m + 1, m + n)) = n
<1>1. \A k \in (m + 1) .. (m + n) : s[k] \in S
  OBVIOUS
<1>2. QED
  BY <1>1, SubSeqProperties

\* Cutting a sequence in two loses nothing.
\* A part and the one that goes on where it ends.
LEMMA GoesOn ==
    ASSUME NEW S, NEW s \in Seq(S), NEW m \in Nat, NEW n \in Nat, m + n <= Len(s)
    PROVE  SubSeq(s, 1, m) \o SubSeq(s, m + 1, m + n) = SubSeq(s, 1, m + n)
<1> DEFINE a == SubSeq(s, 1, m)
           b == SubSeq(s, m + 1, m + n)
           c == SubSeq(s, 1, m + n)
<1>1. a \in Seq(S) /\ Len(a) = m /\ \A i \in 1 .. m : a[i] = s[i]
  OBVIOUS
<1>2. b \in Seq(S) /\ Len(b) = n /\ \A i \in 1 .. n : b[i] = s[m + i]
  OBVIOUS
<1>3. c \in Seq(S) /\ Len(c) = m + n /\ \A i \in 1 .. m + n : c[i] = s[i]
  OBVIOUS
<1> HIDE DEF a, b, c
<1>4. /\ a \o b \in Seq(S) /\ Len(a \o b) = m + n
      /\ \A i \in 1 .. m + n : (a \o b)[i] = IF i <= m THEN a[i] ELSE b[i - m]
  BY <1>1, <1>2, ConcatProperties
<1>5. ASSUME NEW i \in 1 .. m + n PROVE (a \o b)[i] = c[i]
  <2>1. CASE i <= m
    BY <1>1, <1>3, <1>4, <2>1
  <2>2. CASE ~(i <= m)
    <3>1. i - m \in 1 .. n /\ m + (i - m) = i
      BY <2>2
    <3>2. b[i - m] = s[i]
      BY <1>2, <3>1
    <3>3. QED
      BY <1>3, <1>4, <2>2, <3>2
  <2>3. QED
    BY <2>1, <2>2
<1>6. a \o b = c
  BY <1>3, <1>4, <1>5, SeqEqual
<1>7. QED
  BY <1>6 DEF a, b, c

LEMMA CutAndJoin ==
    ASSUME NEW S, NEW s \in Seq(S), NEW n \in 0 .. Len(s)
    PROVE  SubSeq(s, 1, n) \o SubSeq(s, n + 1, Len(s)) = s
<1>1. Len(s) \in Nat /\ 1 \in 1 .. Len(s) + 1 /\ n \in 1 - 1 .. Len(s) /\ Len(s) \in n .. Len(s)
  BY LenProperties
<1>2. SubSeq(s, 1, n) \o SubSeq(s, n + 1, Len(s)) = SubSeq(s, 1, Len(s))
  BY <1>1, ConcatAdjacentSubSeq
<1>3. QED
  BY <1>2, SubSeqFull

\* Moving the beginning of t to the end of s changes nothing in all.
LEMMA Moved ==
    ASSUME NEW S, NEW s \in Seq(S), NEW t \in Seq(S), NEW n \in 0 .. Len(t)
    PROVE  (s \o SubSeq(t, 1, n)) \o SubSeq(t, n + 1, Len(t)) = s \o t
<1> DEFINE a == SubSeq(t, 1, n)
           b == SubSeq(t, n + 1, Len(t))
<1>1. a \in Seq(S) /\ b \in Seq(S)
  OBVIOUS
<1>2. a \o b = t
  BY CutAndJoin
<1> HIDE DEF a, b
<1>3. (s \o a) \o b = s \o (a \o b)
  BY <1>1, ConcatAssociative
<1>4. QED
  BY <1>2, <1>3 DEF a, b

\* An element at the end of t is one at the end of s and t.
LEMMA Appended ==
    ASSUME NEW S, NEW s \in Seq(S), NEW t \in Seq(S), NEW e \in S
    PROVE  s \o Append(t, e) = Append(s \o t, e)
<1>1. Append(t, e) = t \o <<e>> /\ s \o t \in Seq(S)
  BY AppendIsConcat, ConcatProperties
<1>2. Append(s \o t, e) = (s \o t) \o <<e>>
  BY <1>1, AppendIsConcat
<1>3. <<e>> \in Seq(S)
  OBVIOUS
<1>4. QED
  BY <1>1, <1>2, <1>3, ConcatAssociative

\* A sequence is its first element and the rest.
LEMMA HeadAndTail ==
    ASSUME NEW S, NEW s \in Seq(S), s # <<>>
    PROVE  /\ Head(s) \in S /\ Tail(s) \in Seq(S)
           /\ s = <<Head(s)>> \o Tail(s)
<1>1. Head(s) \in S /\ Tail(s) \in Seq(S)
  BY HeadTailProperties
<1>2. 1 \in 1 .. Len(s) /\ Len(s) \in 1 .. Len(s)
  BY EmptySeq
<1>3. SubSeq(s, 1, Len(s)) = <<s[1]>> \o SubSeq(s, 1 + 1, Len(s))
  BY <1>2, SubSeqRecursiveFirst
<1>4. Tail(s) = SubSeq(s, 2, Len(s)) /\ SubSeq(s, 1, Len(s)) = s
  BY TailIsSubSeq, SubSeqFull
<1>5. Head(s) = s[1]
  OBVIOUS
<1>6. QED
  BY <1>1, <1>3, <1>4, <1>5

-----------------------------------------------------------------------------
(* FlattenSeq.                                                             *)

\* f is the function that FlattenSeq defines by recursion, on the indexes D.
Flattens(f, ss, D) ==
    f = [i \in D |-> IF i = 1 THEN ss[i] ELSE f[i - 1] \o ss[i]]

LEMMA FlattensAt ==
    ASSUME NEW f, NEW ss, NEW n \in Nat, Flattens(f, ss, 1 .. n), NEW i \in 1 .. n
    PROVE  f[i] = IF i = 1 THEN ss[i] ELSE f[i - 1] \o ss[i]
<1> DEFINE g == [j \in 1 .. n |-> IF j = 1 THEN ss[j] ELSE f[j - 1] \o ss[j]]
<1>1. f = g
  BY DEF Flattens
<1>2. g[i] = IF i = 1 THEN ss[i] ELSE f[i - 1] \o ss[i]
  OBVIOUS
<1> HIDE DEF g
<1>3. QED
  BY <1>1, <1>2

LEMMA FlattensNext ==
    ASSUME NEW f, NEW ss, NEW n \in Nat, Flattens(f, ss, 1 .. n),
           NEW i \in 1 .. n, i # 1
    PROVE  f[i] = f[i - 1] \o ss[i]
BY FlattensAt

LEMMA FlattensExists ==
    ASSUME NEW ss, NEW n \in Nat
    PROVE  \E f : Flattens(f, ss, 1 .. n)
<1> DEFINE T == {k \in Nat : \E f : Flattens(f, ss, 1 .. k)}
<1>1. 0 \in T
  <2> DEFINE f == [i \in 1 .. 0 |-> ss[i]]
  <2>1. Flattens(f, ss, 1 .. 0)
    BY DEF Flattens
  <2>2. QED
    BY <2>1
<1>2. ASSUME NEW k \in Nat, k \in T PROVE k + 1 \in T
  <2>1. PICK g : Flattens(g, ss, 1 .. k)
    BY <1>2
  <2> DEFINE f == [i \in 1 .. k + 1 |-> IF i <= k THEN g[i]
                                        ELSE IF i = 1 THEN ss[i] ELSE g[i - 1] \o ss[i]]
  <2>2. \A i \in 1 .. k : g[i] = IF i = 1 THEN ss[i] ELSE g[i - 1] \o ss[i]
    BY <2>1, FlattensAt
  <2>3. ASSUME NEW i \in 1 .. k + 1
        PROVE  f[i] = IF i = 1 THEN ss[i] ELSE f[i - 1] \o ss[i]
    <3>1. CASE i = 1
      BY <2>2, <3>1
    <3>2. CASE i # 1
      <4>1. i - 1 \in 1 .. k /\ f[i - 1] = g[i - 1]
        BY <3>2
      <4>2. f[i] = g[i - 1] \o ss[i]
        <5>1. CASE i <= k
          <6>1. i \in 1 .. k
            BY <5>1
          <6>2. f[i] = g[i]
            BY <5>1
          <6>3. QED
            BY <2>2, <3>2, <6>1, <6>2
        <5>2. CASE ~(i <= k)
          BY <3>2, <5>2
        <5>3. QED
          BY <5>1, <5>2
      <4>3. QED
        BY <3>2, <4>1, <4>2
    <3>3. QED
      BY <3>1, <3>2
  <2>4. f = [i \in 1 .. k + 1 |-> IF i = 1 THEN ss[i] ELSE f[i - 1] \o ss[i]]
    BY <2>3
  <2>5. Flattens(f, ss, 1 .. k + 1)
    BY <2>4 DEF Flattens
  <2>6. QED
    BY <2>5
<1>3. QED
  BY <1>1, <1>2, NatSetInduction

\* Two such functions agree where the sequences do.
LEMMA FlattensUnique ==
    ASSUME NEW f, NEW g, NEW ss, NEW tt, NEW m \in Nat, NEW n \in Nat, m <= n,
           Flattens(f, ss, 1 .. m), Flattens(g, tt, 1 .. n), \A i \in 1 .. m : ss[i] = tt[i],
           NEW j \in 1 .. m
    PROVE  f[j] = g[j]
<1> DEFINE T == {k \in Nat : k \in 1 .. m => f[k] = g[k]}
<1>1. 0 \in T
  OBVIOUS
<1>2. ASSUME NEW k \in Nat, k \in T PROVE k + 1 \in T
  <2> SUFFICES ASSUME k + 1 \in 1 .. m PROVE f[k + 1] = g[k + 1]
    OBVIOUS
  <2>1. /\ f[k + 1] = IF k + 1 = 1 THEN ss[k + 1] ELSE f[(k + 1) - 1] \o ss[k + 1]
        /\ g[k + 1] = IF k + 1 = 1 THEN tt[k + 1] ELSE g[(k + 1) - 1] \o tt[k + 1]
    <3>1. k + 1 \in 1 .. n
      OBVIOUS
    <3>2. QED
      BY <3>1, FlattensAt
  <2>2. CASE k = 0
    BY <2>1, <2>2
  <2>3. CASE k # 0
    <3>1. f[k] = g[k] /\ (k + 1) - 1 = k
      BY <1>2, <2>3
    <3>2. QED
      BY <2>1, <2>3, <3>1
  <2>4. QED
    BY <2>2, <2>3
<1>3. Nat \subseteq T
  BY <1>1, <1>2, NatSetInduction
<1>4. QED
  BY <1>3

LEMMA FlattenIs ==
    ASSUME NEW ss, Len(ss) \in Nat, Len(ss) # 0
    PROVE  \E f : Flattens(f, ss, 1 .. Len(ss)) /\ FlattenSeq(ss) = f[Len(ss)]
<1> DEFINE F == CHOOSE f : Flattens(f, ss, 1 .. Len(ss))
<1>1. Flattens(F, ss, 1 .. Len(ss))
  BY FlattensExists
<1>2. FlattenSeq(ss) = F[Len(ss)]
  BY DEF FlattenSeq, Flattens
<1> HIDE DEF F
<1>3. QED
  BY <1>1, <1>2

LEMMA FlattenEmpty == FlattenSeq(<<>>) = <<>>
BY DEF FlattenSeq

LEMMA FlattenLonger ==
    ASSUME NEW ss, NEW tt, Len(ss) \in Nat, Len(ss) # 0, Len(tt) = Len(ss) + 1,
           \A i \in 1 .. Len(ss) : ss[i] = tt[i]
    PROVE  FlattenSeq(tt) = FlattenSeq(ss) \o tt[Len(tt)]
<1> DEFINE n == Len(ss)
           m == Len(tt)
<1>1. PICK f : Flattens(f, ss, 1 .. n) /\ FlattenSeq(ss) = f[n]
  BY FlattenIs
<1>2. PICK g : Flattens(g, tt, 1 .. m) /\ FlattenSeq(tt) = g[m]
  <2>1. Len(tt) \in Nat /\ Len(tt) # 0
    OBVIOUS
  <2>2. QED
    BY <2>1, FlattenIs
<1>3. /\ n \in Nat /\ n \in 1 .. n /\ m \in Nat /\ m \in 1 .. m /\ m # 1 /\ m - 1 = n
      /\ n <= m
      /\ \A i \in 1 .. n : ss[i] = tt[i]
  OBVIOUS
<1> HIDE DEF n, m
<1>4. f[n] = g[n]
  BY <1>1, <1>2, <1>3, FlattensUnique
<1>5. g[m] = g[m - 1] \o tt[m]
  <2>1. Flattens(g, tt, 1 .. m) /\ m \in Nat /\ m \in 1 .. m /\ m # 1
    BY <1>2, <1>3
  <2>2. QED
    BY <2>1, FlattensNext
<1>6. FlattenSeq(tt) = FlattenSeq(ss) \o tt[m]
  BY <1>1, <1>2, <1>3, <1>4, <1>5
<1>7. QED
  BY <1>6 DEF m

LEMMA FlattenOne == ASSUME NEW s PROVE FlattenSeq(<<s>>) = s
<1> DEFINE ss == <<s>>
           n == Len(ss)
<1>1. n = 1 /\ ss[n] = s /\ n \in 1 .. n /\ n \in Nat
  OBVIOUS
<1>2. PICK f : Flattens(f, ss, 1 .. n) /\ FlattenSeq(ss) = f[n]
  <2>1. Len(ss) \in Nat /\ Len(ss) # 0
    BY <1>1
  <2> HIDE DEF ss
  <2>2. QED
    BY <2>1, FlattenIs
<1> HIDE DEF ss, n
<1>3. f[n] = ss[n]
  BY <1>1, <1>2, FlattensAt
<1>4. FlattenSeq(ss) = s
  BY <1>1, <1>2, <1>3
<1>5. QED
  BY <1>4 DEF ss

\* A sequence put at the end of ss is put at the end of the flattened ss.
LEMMA FlattenAppend ==
    ASSUME NEW S, NEW ss \in Seq(Seq(S)), NEW s \in Seq(S)
    PROVE  /\ FlattenSeq(ss) \in Seq(S)
           /\ FlattenSeq(Append(ss, s)) = FlattenSeq(ss) \o s
<1> DEFINE T == {r \in Seq(Seq(S)) : FlattenSeq(r) \in Seq(S)}
<1>1. ASSUME NEW r \in Seq(Seq(S)), NEW t \in Seq(S)
      PROVE  FlattenSeq(Append(r, t)) = FlattenSeq(r) \o t
  <2>1. CASE r = <<>>
    <3>1. Append(r, t) = <<t>> /\ FlattenSeq(r) = <<>>
      BY <2>1, FlattenEmpty
    <3>2. <<>> \o t = t
      BY ConcatEmptySeq
    <3>3. QED
      BY <3>1, <3>2, FlattenOne
  <2>2. CASE r # <<>>
    <3>1. /\ Len(r) \in Nat /\ Len(r) # 0
          /\ Len(Append(r, t)) = Len(r) + 1
          /\ \A i \in 1 .. Len(r) : r[i] = Append(r, t)[i]
          /\ Append(r, t)[Len(Append(r, t))] = t
      BY <2>2, AppendProperties, LenProperties, EmptySeq
    <3>2. FlattenSeq(Append(r, t)) = FlattenSeq(r) \o Append(r, t)[Len(Append(r, t))]
      BY <3>1, FlattenLonger
    <3>3. QED
      BY <3>1, <3>2
  <2>3. QED
    BY <2>1, <2>2
<1>2. <<>> \in T
  BY FlattenEmpty, EmptySeq
<1>3. ASSUME NEW r \in Seq(Seq(S)), r \in T, NEW t \in Seq(S) PROVE Append(r, t) \in T
  <2>1. Append(r, t) \in Seq(Seq(S))
    BY AppendProperties
  <2>2. FlattenSeq(r) \o t \in Seq(S)
    BY <1>3, ConcatProperties
  <2>3. QED
    BY <1>1, <1>3, <2>1, <2>2
<1>4. Seq(Seq(S)) \subseteq T
  BY <1>2, <1>3, SeqSetInduction
<1>5. QED
  BY <1>1, <1>4

\* Flattening two sequences one after the other joins what they flatten to.
LEMMA FlattenConcat ==
    ASSUME NEW S, NEW ss \in Seq(Seq(S)), NEW tt \in Seq(Seq(S))
    PROVE  FlattenSeq(ss \o tt) = FlattenSeq(ss) \o FlattenSeq(tt)
<1> DEFINE T == {r \in Seq(Seq(S)) : FlattenSeq(ss \o r) = FlattenSeq(ss) \o FlattenSeq(r)}
<1>1. FlattenSeq(ss) \in Seq(S)
  BY EmptySeq, FlattenAppend
<1>2. <<>> \in T
  <2>1. ss \o <<>> = ss /\ FlattenSeq(ss) \o <<>> = FlattenSeq(ss) /\ <<>> \in Seq(Seq(S))
    BY <1>1, ConcatEmptySeq, EmptySeq
  <2>2. QED
    BY <2>1, FlattenEmpty
<1>3. ASSUME NEW r \in Seq(Seq(S)), r \in T, NEW t \in Seq(S) PROVE Append(r, t) \in T
  <2>1. ss \o Append(r, t) = Append(ss \o r, t)
    BY Appended
  <2>2. ss \o r \in Seq(Seq(S)) /\ Append(r, t) \in Seq(Seq(S))
    BY ConcatProperties, AppendProperties
  <2>3. FlattenSeq(Append(ss \o r, t)) = (FlattenSeq(ss) \o FlattenSeq(r)) \o t
    BY <1>3, <2>2, FlattenAppend
  <2>4. FlattenSeq(r) \in Seq(S) /\ FlattenSeq(Append(r, t)) = FlattenSeq(r) \o t
    BY FlattenAppend
  <2>5. (FlattenSeq(ss) \o FlattenSeq(r)) \o t = FlattenSeq(ss) \o (FlattenSeq(r) \o t)
    BY <1>1, <2>4, ConcatAssociative
  <2>6. QED
    BY <2>1, <2>2, <2>3, <2>4, <2>5
<1>4. Seq(Seq(S)) \subseteq T
  BY <1>2, <1>3, SeqSetInduction
<1>5. QED
  BY <1>4

-----------------------------------------------------------------------------
(* Without.                                                                *)

\* The sequence of sequences that Without flattens.
Pieced(s, dropped) == [i \in DOMAIN s |-> IF s[i] \in dropped THEN <<>> ELSE <<s[i]>>]

LEMMA PiecedType ==
    ASSUME NEW S, NEW s \in Seq(S), NEW dropped
    PROVE  /\ Pieced(s, dropped) \in Seq(Seq(S))
           /\ Len(Pieced(s, dropped)) = Len(s)
<1>1. Len(s) \in Nat /\ DOMAIN s = 1 .. Len(s) /\ \A i \in 1 .. Len(s) : s[i] \in S
  BY LenProperties, ElementOfSeq
<1>2. \A i \in 1 .. Len(s) : (IF s[i] \in dropped THEN <<>> ELSE <<s[i]>>) \in Seq(S)
  BY <1>1
<1>3. QED
  BY <1>1, <1>2 DEF Pieced

LEMMA PiecedAppend ==
    ASSUME NEW S, NEW s \in Seq(S), NEW e \in S, NEW dropped
    PROVE  Pieced(Append(s, e), dropped)
             = Append(Pieced(s, dropped), IF e \in dropped THEN <<>> ELSE <<e>>)
<1> DEFINE p == Pieced(s, dropped)
           x == IF e \in dropped THEN <<>> ELSE <<e>>
           q == Pieced(Append(s, e), dropped)
<1>1. p \in Seq(Seq(S)) /\ Len(p) = Len(s) /\ Len(s) \in Nat
  BY PiecedType, LenProperties
<1>2. Append(s, e) \in Seq(S) /\ Len(Append(s, e)) = Len(s) + 1
  BY AppendProperties
<1>3. q \in Seq(Seq(S)) /\ Len(q) = Len(s) + 1
  BY <1>2, PiecedType
<1>4. x \in Seq(S)
  OBVIOUS
<1>5. /\ Append(p, x) \in Seq(Seq(S)) /\ Len(Append(p, x)) = Len(s) + 1
      /\ \A i \in 1 .. Len(s) : Append(p, x)[i] = p[i]
      /\ Append(p, x)[Len(s) + 1] = x
  BY <1>1, <1>4, AppendProperties
<1>6. ASSUME NEW i \in 1 .. Len(s) + 1 PROVE q[i] = Append(p, x)[i]
  <2>1. DOMAIN Append(s, e) = 1 .. Len(s) + 1 /\ DOMAIN s = 1 .. Len(s)
    BY <1>1, <1>2, LenProperties
  <2>2. q[i] = IF Append(s, e)[i] \in dropped THEN <<>> ELSE <<Append(s, e)[i]>>
    BY <2>1 DEF Pieced
  <2>3. CASE i = Len(s) + 1
    <3>1. Append(s, e)[i] = e
      BY <2>3, AppendProperties
    <3>2. QED
      BY <1>5, <2>2, <2>3, <3>1
  <2>4. CASE i # Len(s) + 1
    <3>1. i \in 1 .. Len(s)
      BY <1>1, <2>4
    <3>2. Append(s, e)[i] = s[i]
      BY <3>1, AppendProperties
    <3>3. p[i] = IF s[i] \in dropped THEN <<>> ELSE <<s[i]>>
      BY <2>1, <3>1 DEF Pieced
    <3>4. QED
      BY <1>5, <2>2, <3>1, <3>2, <3>3
  <2>5. QED
    BY <2>3, <2>4
<1> HIDE DEF p, q, x
<1>7. q = Append(p, x)
  BY <1>3, <1>5, <1>6, SeqEqual
<1>8. QED
  BY <1>7 DEF p, q, x

LEMMA WithoutEmpty == ASSUME NEW dropped PROVE Without(<<>>, dropped) = <<>>
<1>1. [i \in DOMAIN <<>> |-> IF <<>>[i] \in dropped THEN <<>> ELSE <<(<<>>[i])>>] = <<>>
  OBVIOUS
<1>2. QED
  BY <1>1, FlattenEmpty DEF Without

LEMMA WithoutType ==
    ASSUME NEW S, NEW s \in Seq(S), NEW dropped
    PROVE  Without(s, dropped) \in Seq(S)
<1>1. Pieced(s, dropped) \in Seq(Seq(S))
  BY PiecedType
<1>2. FlattenSeq(Pieced(s, dropped)) \in Seq(S)
  BY <1>1, EmptySeq, FlattenAppend
<1>3. QED
  BY <1>2 DEF Without, Pieced

LEMMA WithoutAppend ==
    ASSUME NEW S, NEW s \in Seq(S), NEW e \in S, NEW dropped
    PROVE  Without(Append(s, e), dropped)
             = IF e \in dropped THEN Without(s, dropped) ELSE Append(Without(s, dropped), e)
<1> DEFINE p == Pieced(s, dropped)
           x == IF e \in dropped THEN <<>> ELSE <<e>>
<1>1. p \in Seq(Seq(S)) /\ x \in Seq(S)
  BY PiecedType
<1>2. FlattenSeq(p) = Without(s, dropped) /\ Without(s, dropped) \in Seq(S)
  BY WithoutType DEF Without, Pieced
<1>3. FlattenSeq(Pieced(Append(s, e), dropped)) = Without(Append(s, e), dropped)
  BY DEF Without, Pieced
<1>4. Pieced(Append(s, e), dropped) = Append(p, x)
  BY PiecedAppend
<1> HIDE DEF p
<1>5. Without(Append(s, e), dropped) = Without(s, dropped) \o x
  BY <1>1, <1>2, <1>3, <1>4, FlattenAppend
<1>6. QED
  BY <1>2, <1>5, ConcatEmptySeq, AppendIsConcat

LEMMA WithoutOne ==
    ASSUME NEW S, NEW e \in S, NEW dropped
    PROVE  /\ e \in dropped => Without(<<e>>, dropped) = <<>>
           /\ e \notin dropped => Without(<<e>>, dropped) = <<e>>
<1> DEFINE empty == <<>>
<1>1. empty \in Seq(S) /\ Append(empty, e) = <<e>>
  OBVIOUS
<1>2. Without(empty, dropped) = empty
  BY WithoutEmpty
<1> HIDE DEF empty
<1>3. Without(Append(empty, e), dropped)
        = IF e \in dropped THEN Without(empty, dropped) ELSE Append(Without(empty, dropped), e)
  BY <1>1, WithoutAppend
<1>4. QED
  BY <1>1, <1>2, <1>3 DEF empty

LEMMA WithoutConcat ==
    ASSUME NEW S, NEW s \in Seq(S), NEW t \in Seq(S), NEW dropped
    PROVE  Without(s \o t, dropped) = Without(s, dropped) \o Without(t, dropped)
<1> DEFINE T == {r \in Seq(S) : Without(s \o r, dropped) = Without(s, dropped) \o Without(r, dropped)}
<1>1. Without(s, dropped) \in Seq(S)
  BY WithoutType
<1>2. <<>> \in T
  BY <1>1, WithoutEmpty, ConcatEmptySeq, EmptySeq
<1>3. ASSUME NEW r \in Seq(S), r \in T, NEW e \in S PROVE Append(r, e) \in T
  <2>1. /\ s \o Append(r, e) = Append(s \o r, e)
        /\ s \o r \in Seq(S) /\ Append(r, e) \in Seq(S)
    BY Appended, ConcatProperties, AppendProperties
  <2>2. Without(r, dropped) \in Seq(S)
    BY WithoutType
  <2>3. Without(s, dropped) \o Append(Without(r, dropped), e)
           = Append(Without(s, dropped) \o Without(r, dropped), e)
    BY <1>1, <2>2, Appended
  <2>4. /\ Without(Append(r, e), dropped)
               = IF e \in dropped THEN Without(r, dropped) ELSE Append(Without(r, dropped), e)
        /\ Without(Append(s \o r, e), dropped)
               = IF e \in dropped THEN Without(s \o r, dropped)
                                  ELSE Append(Without(s \o r, dropped), e)
    <3>1. Without(Append(r, e), dropped)
             = IF e \in dropped THEN Without(r, dropped) ELSE Append(Without(r, dropped), e)
      BY WithoutAppend
    <3> DEFINE u == s \o r
    <3>2. u \in Seq(S)
      BY <2>1
    <3> HIDE DEF u
    <3>3. Without(Append(u, e), dropped)
             = IF e \in dropped THEN Without(u, dropped) ELSE Append(Without(u, dropped), e)
      BY <3>2, WithoutAppend
    <3>4. QED
      BY <3>1, <3>3 DEF u
  <2>5. QED
    BY <1>3, <2>1, <2>3, <2>4
<1>4. Seq(S) \subseteq T
  BY <1>2, <1>3, SeqSetInduction
<1>5. QED
  BY <1>4

-----------------------------------------------------------------------------
(* Joined.                                                                 *)

LEMMA JoinedEmpty == ASSUME NEW end PROVE Joined(<<>>, end) = <<>>
<1>1. [i \in DOMAIN <<>> |-> Append(<<>>[i], end)] = <<>>
  OBVIOUS
<1>2. QED
  BY <1>1, FlattenEmpty DEF Joined

\* The sequence of sequences that Joined flattens.
WithEnds(lines, end) == [i \in DOMAIN lines |-> Append(lines[i], end)]

LEMMA EndedType ==
    ASSUME NEW S, NEW lines \in Seq(Seq(S)), NEW end \in S
    PROVE  /\ WithEnds(lines, end) \in Seq(Seq(S))
           /\ Len(WithEnds(lines, end)) = Len(lines)
<1>1. Len(lines) \in Nat /\ DOMAIN lines = 1 .. Len(lines)
  BY LenProperties
<1>2. \A i \in 1 .. Len(lines) : Append(lines[i], end) \in Seq(S)
  BY <1>1, ElementOfSeq, AppendProperties
<1>3. QED
  BY <1>1, <1>2 DEF WithEnds

LEMMA JoinedAppend ==
    ASSUME NEW S, NEW lines \in Seq(Seq(S)), NEW line \in Seq(S), NEW end \in S
    PROVE  /\ Joined(lines, end) \in Seq(S)
           /\ Joined(Append(lines, line), end) = Joined(lines, end) \o Append(line, end)
<1> DEFINE n == Len(lines)
           p == WithEnds(lines, end)
           x == Append(line, end)
           q == WithEnds(Append(lines, line), end)
<1>1. p \in Seq(Seq(S)) /\ Len(p) = n /\ n \in Nat /\ DOMAIN lines = 1 .. n
  BY EndedType, LenProperties
<1>2. /\ Append(lines, line) \in Seq(Seq(S)) /\ Len(Append(lines, line)) = n + 1
      /\ DOMAIN Append(lines, line) = 1 .. n + 1
  BY AppendProperties, LenProperties
<1>3. q \in Seq(Seq(S)) /\ Len(q) = n + 1
  BY <1>2, EndedType
<1>4. x \in Seq(S)
  BY AppendProperties
<1>5. /\ Append(p, x) \in Seq(Seq(S)) /\ Len(Append(p, x)) = n + 1
      /\ \A i \in 1 .. n : Append(p, x)[i] = p[i]
      /\ Append(p, x)[n + 1] = x
  BY <1>1, <1>4, AppendProperties
<1>6. ASSUME NEW i \in 1 .. n + 1 PROVE q[i] = Append(p, x)[i]
  <2>1. q[i] = Append(Append(lines, line)[i], end)
    BY <1>2 DEF WithEnds
  <2>2. CASE i = n + 1
    <3>1. Append(lines, line)[i] = line
      BY <2>2, AppendProperties
    <3>2. QED
      BY <1>5, <2>1, <2>2, <3>1
  <2>3. CASE i # n + 1
    <3>1. i \in 1 .. n
      BY <1>1, <2>3
    <3>2. Append(lines, line)[i] = lines[i]
      BY <3>1, AppendProperties
    <3>3. p[i] = Append(lines[i], end)
      BY <1>1, <3>1 DEF WithEnds
    <3>4. QED
      BY <1>5, <2>1, <3>1, <3>2, <3>3
  <2>4. QED
    BY <2>2, <2>3
<1>7. FlattenSeq(p) = Joined(lines, end) /\ FlattenSeq(q) = Joined(Append(lines, line), end)
  BY DEF Joined, WithEnds
<1> HIDE DEF p, q, x, n
<1>8. q = Append(p, x)
  BY <1>3, <1>5, <1>6, SeqEqual
<1>9. FlattenSeq(p) \in Seq(S) /\ FlattenSeq(Append(p, x)) = FlattenSeq(p) \o x
  BY <1>1, <1>4, FlattenAppend
<1>10. QED
  BY <1>7, <1>8, <1>9 DEF x

-----------------------------------------------------------------------------
(* Before.                                                                 *)

LEMMA ContainsConcat ==
    ASSUME NEW S, NEW s \in Seq(S), NEW t \in Seq(S), NEW e
    PROVE  Contains(s \o t, e) <=> Contains(s, e) \/ Contains(t, e)
<1>1. /\ Len(s) \in Nat /\ Len(t) \in Nat /\ Len(s \o t) = Len(s) + Len(t)
      /\ \A i \in 1 .. Len(s) + Len(t) :
            (s \o t)[i] = IF i <= Len(s) THEN s[i] ELSE t[i - Len(s)]
  BY LenProperties, ConcatProperties
<1>2. ASSUME Contains(s \o t, e) PROVE Contains(s, e) \/ Contains(t, e)
  <2>1. PICK i \in 1 .. Len(s) + Len(t) : (s \o t)[i] = e
    BY <1>1, <1>2 DEF Contains
  <2>2. CASE i <= Len(s)
    BY <1>1, <2>1, <2>2 DEF Contains
  <2>3. CASE i > Len(s)
    <3>1. i - Len(s) \in 1 .. Len(t) /\ t[i - Len(s)] = e
      BY <1>1, <2>1, <2>3
    <3>2. QED
      BY <3>1 DEF Contains
  <2>4. QED
    BY <1>1, <2>2, <2>3
<1>3. ASSUME Contains(s, e) PROVE Contains(s \o t, e)
  <2>1. PICK i \in 1 .. Len(s) : s[i] = e
    BY <1>3 DEF Contains
  <2>2. i \in 1 .. Len(s) + Len(t) /\ (s \o t)[i] = e
    BY <1>1, <2>1
  <2>3. QED
    BY <1>1, <2>2 DEF Contains
<1>4. ASSUME Contains(t, e) PROVE Contains(s \o t, e)
  <2>1. PICK i \in 1 .. Len(t) : t[i] = e
    BY <1>4 DEF Contains
  <2> DEFINE j == Len(s) + i
  <2>2. j \in 1 .. Len(s) + Len(t) /\ ~(j <= Len(s)) /\ j - Len(s) = i
    BY <1>1
  <2> HIDE DEF j
  <2>3. (s \o t)[j] = e
    BY <1>1, <2>1, <2>2
  <2>4. QED
    BY <1>1, <2>2, <2>3 DEF Contains
<1>5. QED
  BY <1>2, <1>3, <1>4

LEMMA BeforeNone ==
    ASSUME NEW s, NEW e, ~Contains(s, e)
    PROVE  Before(s, e) = s
BY DEF Before, Contains

\* The first e is at i.
LEMMA BeforeAt ==
    ASSUME NEW s, NEW e, Len(s) \in Nat, NEW i \in 1 .. Len(s), s[i] = e,
           \A j \in 1 .. i - 1 : s[j] # e
    PROVE  Before(s, e) = SubSeq(s, 1, i - 1)
<1> DEFINE I == {k \in 1 .. Len(s) : s[k] = e}
<1>1. i \in I /\ \A k \in I : i <= k
  OBVIOUS
<1>2. \A k \in I : k \in Int
  OBVIOUS
<1> HIDE DEF I
<1>3. Min(I) = i
  <2>1. \A x \in I : (\A y \in I : x <= y) => x = i
    BY <1>1, <1>2
  <2>2. Min(I) = CHOOSE x \in I : \A y \in I : x <= y
    BY Zenon DEF Min
  <2>3. Min(I) \in I /\ \A y \in I : Min(I) <= y
    BY <1>1, <2>2, Zenon
  <2>4. QED
    BY <2>1, <2>3, Zenon
<1>4. QED
  BY <1>1, <1>3 DEF Before, I

\* There is a first e in a sequence that contains e.
LEMMA FirstIn ==
    ASSUME NEW s, NEW e, Len(s) \in Nat, Contains(s, e)
    PROVE  \E i \in 1 .. Len(s) : s[i] = e /\ \A j \in 1 .. i - 1 : s[j] # e
<1> DEFINE I == {k \in 1 .. Len(s) : s[k] = e}
<1>1. I \in SUBSET Nat /\ I # {}
  BY DEF Contains
<1>2. PICK i \in I : \A j \in I : i <= j
  BY <1>1, Least
<1>3. QED
  BY <1>2

LEMMA BeforeConcatFree ==
    ASSUME NEW S, NEW s \in Seq(S), NEW t \in Seq(S), NEW e, ~Contains(s, e)
    PROVE  Before(s \o t, e) = s \o Before(t, e)
<1>1. CASE ~Contains(t, e)
  <2>1. ~Contains(s \o t, e)
    BY <1>1, ContainsConcat
  <2>2. QED
    BY <1>1, <2>1, BeforeNone
<1>2. CASE Contains(t, e)
  <2>1. /\ Len(s) \in Nat /\ Len(t) \in Nat /\ Len(s \o t) = Len(s) + Len(t)
        /\ \A i \in 1 .. Len(s) + Len(t) :
              (s \o t)[i] = IF i <= Len(s) THEN s[i] ELSE t[i - Len(s)]
        /\ s \o t \in Seq(S)
    BY LenProperties, ConcatProperties
  <2>2. PICK i \in 1 .. Len(t) : t[i] = e /\ \A j \in 1 .. i - 1 : t[j] # e
    BY <1>2, <2>1, FirstIn
  <2> DEFINE k == Len(s) + i
  <2>3. k \in 1 .. Len(s) + Len(t) /\ ~(k <= Len(s)) /\ k - Len(s) = i
    BY <2>1
  <2>4. (s \o t)[k] = e
    BY <2>1, <2>2, <2>3
  <2>5. ASSUME NEW j \in 1 .. k - 1 PROVE (s \o t)[j] # e
    <3>1. j \in 1 .. Len(s) + Len(t)
      BY <2>1
    <3>2. CASE j <= Len(s)
      BY <2>1, <3>1, <3>2 DEF Contains
    <3>3. CASE ~(j <= Len(s))
      <4>1. j - Len(s) \in 1 .. i - 1
        BY <2>1, <3>3
      <4>2. QED
        BY <2>1, <2>2, <3>1, <3>3, <4>1
    <3>4. QED
      BY <3>2, <3>3
  <2>6. Before(s \o t, e) = SubSeq(s \o t, 1, k - 1)
    <3>1. k \in 1 .. Len(s \o t) /\ Len(s \o t) \in Nat
      BY <2>1, <2>3
    <3> DEFINE st == s \o t
    <3>2. /\ k \in 1 .. Len(st) /\ Len(st) \in Nat /\ st[k] = e
          /\ \A j \in 1 .. k - 1 : st[j] # e
      BY <2>4, <2>5, <3>1
    <3> HIDE DEF k, st
    <3>3. Before(st, e) = SubSeq(st, 1, k - 1)
      BY <3>2, BeforeAt
    <3>4. QED
      BY <3>3 DEF st
  <2>7. Before(t, e) = SubSeq(t, 1, i - 1)
    BY <2>1, <2>2, BeforeAt
  <2>8. SubSeq(s \o t, 1, k - 1) = s \o SubSeq(t, 1, i - 1)
    <3> DEFINE a == SubSeq(t, 1, i - 1)
               b == SubSeq(s \o t, 1, k - 1)
    <3>1. a \in Seq(S) /\ Len(a) = i - 1 /\ \A j \in 1 .. i - 1 : a[j] = t[j]
      BY <2>1
    <3>2. b \in Seq(S) /\ Len(b) = k - 1 /\ \A j \in 1 .. k - 1 : b[j] = (s \o t)[j]
      <4> DEFINE st == s \o t
      <4>1. st \in Seq(S) /\ Len(st) = Len(s) + Len(t)
        BY <2>1
      <4> HIDE DEF st
      <4>2. /\ SubSeq(st, 1, k - 1) \in Seq(S) /\ Len(SubSeq(st, 1, k - 1)) = k - 1
            /\ \A j \in 1 .. k - 1 : SubSeq(st, 1, k - 1)[j] = st[j]
        BY <2>1, <4>1
      <4>3. QED
        BY <4>2 DEF st
    <3> HIDE DEF a, b
    <3>3. /\ s \o a \in Seq(S) /\ Len(s \o a) = k - 1
          /\ \A j \in 1 .. k - 1 :
                (s \o a)[j] = IF j <= Len(s) THEN s[j] ELSE a[j - Len(s)]
      <4>1. /\ s \o a \in Seq(S) /\ Len(s \o a) = Len(s) + Len(a)
            /\ \A j \in 1 .. Len(s) + Len(a) :
                  (s \o a)[j] = IF j <= Len(s) THEN s[j] ELSE a[j - Len(s)]
        BY <3>1, ConcatProperties
      <4>2. Len(s) + Len(a) = k - 1
        BY <2>1, <3>1
      <4>3. QED
        BY <4>1, <4>2
    <3>4. ASSUME NEW j \in 1 .. k - 1 PROVE b[j] = (s \o a)[j]
      <4>1. j \in 1 .. Len(s) + Len(t)
        BY <2>1
      <4>2. ~(j <= Len(s)) => j - Len(s) \in 1 .. i - 1
        BY <2>1
      <4> HIDE DEF k
      <4>3. CASE j <= Len(s)
        BY <2>1, <3>2, <3>3, <4>1, <4>3
      <4>4. CASE ~(j <= Len(s))
        BY <2>1, <3>1, <3>2, <3>3, <4>1, <4>2, <4>4
      <4>5. QED
        BY <4>3, <4>4
    <3>5. Len(b) = Len(s \o a)
      BY <2>1, <3>2, <3>3
    <3>6. b = s \o a
      BY <3>2, <3>3, <3>4, <3>5, SeqEqual
    <3>7. QED
      BY <3>6 DEF a, b
  <2>9. QED
    BY <2>6, <2>7, <2>8
<1>3. QED
  BY <1>1, <1>2

LEMMA BeforeConcatKeep ==
    ASSUME NEW S, NEW s \in Seq(S), NEW t \in Seq(S), NEW e, Contains(s, e)
    PROVE  Before(s \o t, e) = Before(s, e)
<1>1. /\ Len(s) \in Nat /\ Len(t) \in Nat /\ Len(s \o t) = Len(s) + Len(t)
      /\ \A i \in 1 .. Len(s) + Len(t) :
            (s \o t)[i] = IF i <= Len(s) THEN s[i] ELSE t[i - Len(s)]
  BY LenProperties, ConcatProperties
<1>2. PICK i \in 1 .. Len(s) : s[i] = e /\ \A j \in 1 .. i - 1 : s[j] # e
  BY <1>1, FirstIn
<1>3. \A j \in 1 .. i : (s \o t)[j] = s[j]
  BY <1>1
<1>4. Before(s \o t, e) = SubSeq(s \o t, 1, i - 1)
  <2>1. i \in 1 .. Len(s \o t) /\ Len(s \o t) \in Nat /\ (s \o t)[i] = e
    BY <1>1, <1>2, <1>3
  <2>2. \A j \in 1 .. i - 1 : (s \o t)[j] # e
    BY <1>1, <1>2, <1>3
  <2> DEFINE st == s \o t
  <2>3. /\ i \in 1 .. Len(st) /\ Len(st) \in Nat /\ st[i] = e
        /\ \A j \in 1 .. i - 1 : st[j] # e
    BY <2>1, <2>2
  <2> HIDE DEF st
  <2>4. Before(st, e) = SubSeq(st, 1, i - 1)
    BY <2>3, BeforeAt
  <2>5. QED
    BY <2>4 DEF st
<1>5. Before(s, e) = SubSeq(s, 1, i - 1)
  BY <1>1, <1>2, BeforeAt
<1>6. SubSeq(s \o t, 1, i - 1) = SubSeq(s, 1, i - 1)
  <2>1. CASE i = 1
    BY <2>1, SubSeqEmpty
  <2>2. CASE i # 1
    <3>1. 1 \in 1 .. Len(s) /\ i - 1 \in 1 .. Len(s)
      BY <1>1, <2>2
    <3>2. QED
      BY <3>1, SubSeqOfConcat1
  <2>3. QED
    BY <2>1, <2>2
<1>7. QED
  BY <1>4, <1>5, <1>6

-----------------------------------------------------------------------------
(* How often an element occurs.                                            *)

LEMMA TimesEmpty == ASSUME NEW e PROVE Times(<<>>, e) = 0
<1>1. {i \in DOMAIN <<>> : <<>>[i] = e} = {}
  OBVIOUS
<1>2. QED
  BY <1>1, FS_EmptySet DEF Times

\* One more when the element appended is the one counted.
LEMMA TimesAppend ==
    ASSUME NEW S, NEW s \in Seq(S), NEW x \in S, NEW e
    PROVE  /\ Times(s, e) \in Nat
           /\ Times(Append(s, x), e) = Times(s, e) + (IF x = e THEN 1 ELSE 0)
<1> DEFINE n == Len(s)
           I == {i \in 1 .. n : s[i] = e}
           J == {i \in 1 .. n + 1 : Append(s, x)[i] = e}
<1>1. n \in Nat /\ DOMAIN s = 1 .. n /\ DOMAIN Append(s, x) = 1 .. n + 1
  OBVIOUS
<1>2. Times(s, e) = Cardinality(I) /\ Times(Append(s, x), e) = Cardinality(J)
  BY <1>1 DEF Times
<1>3. IsFiniteSet(I)
  <2>1. IsFiniteSet(1 .. n)
    BY <1>1, FS_Interval
  <2>2. I \subseteq 1 .. n
    OBVIOUS
  <2>3. QED
    BY <2>1, <2>2, FS_Subset
<1>4. J = I \cup (IF x = e THEN {n + 1} ELSE {})
  <2>1. Append(s, x)[n + 1] = x /\ \A i \in 1 .. n : Append(s, x)[i] = s[i]
    OBVIOUS
  <2>2. QED
    BY <1>1, <2>1
<1>5. n + 1 \notin I
  BY <1>1
<1>6. Cardinality(I) \in Nat
  BY <1>3, FS_CardinalityType
<1>7. Cardinality(J) = Cardinality(I) + (IF x = e THEN 1 ELSE 0)
  <2> HIDE DEF I, J
  <2>1. CASE x = e
    <3>1. J = I \cup {n + 1}
      BY <1>4, <2>1
    <3>2. QED
      BY <1>3, <1>5, <2>1, <3>1, FS_AddElement
  <2>2. CASE x # e
    <3>1. J = I
      BY <1>4, <2>2
    <3>2. QED
      BY <1>6, <2>2, <3>1
  <2>3. QED
    BY <2>1, <2>2
<1>8. QED
  BY <1>2, <1>6, <1>7

-----------------------------------------------------------------------------
(* Beginnings.                                                             *)

LEMMA PrefixOfConcat ==
    ASSUME NEW S, NEW s \in Seq(S), NEW t \in Seq(S)
    PROVE  IsPrefix(s, s \o t)
<1> DEFINE st == s \o t
           a == SubSeq(s, 1, Len(s))
           b == SubSeq(st, 1, Len(s))
<1>1. st \in Seq(S) /\ Len(st) = Len(s) + Len(t) /\ \A i \in 1 .. Len(s) : st[i] = s[i]
      /\ Len(s) \in Nat /\ Len(t) \in Nat
  OBVIOUS
<1> HIDE DEF st
<1>2. a \in Seq(S) /\ Len(a) = Len(s) /\ \A i \in 1 .. Len(s) : a[i] = s[i]
  OBVIOUS
<1>3. b \in Seq(S) /\ Len(b) = Len(s) /\ \A i \in 1 .. Len(s) : b[i] = s[i]
  BY <1>1
<1> HIDE DEF a, b
<1>4. a = b
  BY <1>2, <1>3, SeqEqual
<1>5. Len(s) <= Len(st)
  BY <1>1
<1>6. IsPrefix(s, st)
  BY <1>4, <1>5 DEF IsPrefix, a, b
<1>7. QED
  BY <1>6 DEF st

\* A beginning is what something follows.
LEMMA PrefixFollowed ==
    ASSUME NEW S, NEW s \in Seq(S), NEW t \in Seq(S), IsPrefix(s, t)
    PROVE  \E r \in Seq(S) : t = s \o r
<1>1. Len(s) \in Nat /\ Len(t) \in Nat /\ Len(s) <= Len(t) /\ SubSeq(s, 1, Len(s)) = SubSeq(t, 1, Len(s))
  BY DEF IsPrefix
<1>2. SubSeq(s, 1, Len(s)) = s
  OBVIOUS
<1>3. Len(s) \in 0 .. Len(t)
  BY <1>1
<1>4. SubSeq(t, 1, Len(s)) \o SubSeq(t, Len(s) + 1, Len(t)) = t
  BY <1>3, CutAndJoin
<1>5. SubSeq(t, Len(s) + 1, Len(t)) \in Seq(S)
  BY <1>1
<1>6. QED
  BY <1>1, <1>2, <1>4, <1>5

LEMMA PrefixLonger ==
    ASSUME NEW S, NEW s \in Seq(S), NEW t \in Seq(S), NEW u \in Seq(S), IsPrefix(s, t)
    PROVE  IsPrefix(s, t \o u)
<1>1. PICK r \in Seq(S) : t = s \o r
  BY PrefixFollowed
<1>2. t \o u = s \o (r \o u) /\ r \o u \in Seq(S)
  BY <1>1, ConcatAssociative, ConcatProperties
<1>3. IsPrefix(s, s \o (r \o u))
  BY <1>2, PrefixOfConcat
<1>4. QED
  BY <1>2, <1>3

LEMMA PrefixSelf == ASSUME NEW S, NEW s \in Seq(S) PROVE IsPrefix(s, s)
<1>1. s \o <<>> = s /\ <<>> \in Seq(S)
  OBVIOUS
<1>2. IsPrefix(s, s \o <<>>)
  BY <1>1, PrefixOfConcat
<1>3. QED
  BY <1>1, <1>2

-----------------------------------------------------------------------------
(* Replacing, and what a program passes on of a text: what comes before    *)
(* its end, with replacements, and with some elements left out.            *)

Replaced(s, old, new) == [i \in DOMAIN s |-> IF s[i] \in old THEN new ELSE s[i]]

LEMMA ReplacedType ==
    ASSUME NEW S, NEW s \in Seq(S), NEW old, NEW new \in S
    PROVE  /\ Replaced(s, old, new) \in Seq(S)
           /\ Len(Replaced(s, old, new)) = Len(s)
           /\ \A i \in 1 .. Len(s) : Replaced(s, old, new)[i] = IF s[i] \in old THEN new ELSE s[i]
BY DEF Replaced

LEMMA ReplacedConcat ==
    ASSUME NEW S, NEW s \in Seq(S), NEW t \in Seq(S), NEW old, NEW new \in S
    PROVE  Replaced(s \o t, old, new) = Replaced(s, old, new) \o Replaced(t, old, new)
<1> DEFINE st == s \o t
           a == Replaced(s, old, new)
           b == Replaced(t, old, new)
           c == Replaced(st, old, new)
<1>1. /\ st \in Seq(S) /\ Len(st) = Len(s) + Len(t) /\ Len(s) \in Nat /\ Len(t) \in Nat
      /\ \A i \in 1 .. Len(s) + Len(t) : st[i] = IF i <= Len(s) THEN s[i] ELSE t[i - Len(s)]
  BY LenProperties, ConcatProperties
<1> HIDE DEF st
<1>2. /\ a \in Seq(S) /\ Len(a) = Len(s)
      /\ \A i \in 1 .. Len(s) : a[i] = IF s[i] \in old THEN new ELSE s[i]
  BY ReplacedType
<1>3. /\ b \in Seq(S) /\ Len(b) = Len(t)
      /\ \A i \in 1 .. Len(t) : b[i] = IF t[i] \in old THEN new ELSE t[i]
  BY ReplacedType
<1>4. /\ c \in Seq(S) /\ Len(c) = Len(s) + Len(t)
      /\ \A i \in 1 .. Len(s) + Len(t) : c[i] = IF st[i] \in old THEN new ELSE st[i]
  <2>1. /\ c \in Seq(S) /\ Len(c) = Len(st)
        /\ \A i \in 1 .. Len(st) : c[i] = IF st[i] \in old THEN new ELSE st[i]
    <3>1. st \in Seq(S)
      BY <1>1
    <3>2. QED
      BY <3>1, ReplacedType
  <2> HIDE DEF c
  <2>2. QED
    BY <1>1, <2>1
<1> HIDE DEF a, b, c
<1>5. /\ a \o b \in Seq(S) /\ Len(a \o b) = Len(s) + Len(t)
      /\ \A i \in 1 .. Len(s) + Len(t) : (a \o b)[i] = IF i <= Len(s) THEN a[i] ELSE b[i - Len(s)]
  <2>1. /\ a \o b \in Seq(S) /\ Len(a \o b) = Len(a) + Len(b)
        /\ \A i \in 1 .. Len(a) + Len(b) : (a \o b)[i] = IF i <= Len(a) THEN a[i] ELSE b[i - Len(a)]
    <3>1. a \in Seq(S) /\ b \in Seq(S)
      BY <1>2, <1>3
    <3>2. QED
      BY <3>1, ConcatProperties, Zenon
  <2>2. Len(a) = Len(s) /\ Len(b) = Len(t)
    BY <1>2, <1>3
  <2>3. QED
    BY <2>1, <2>2
<1>6. ASSUME NEW i \in 1 .. Len(s) + Len(t) PROVE c[i] = (a \o b)[i]
  <2>1. CASE i <= Len(s)
    BY <1>1, <1>2, <1>4, <1>5, <2>1
  <2>2. CASE ~(i <= Len(s))
    <3>1. i - Len(s) \in 1 .. Len(t)
      BY <1>1, <2>2
    <3>2. QED
      BY <1>1, <1>3, <1>4, <1>5, <2>2, <3>1
  <2>3. QED
    BY <2>1, <2>2
<1>7. c = a \o b
  BY <1>4, <1>5, <1>6, SeqEqual
<1>8. QED
  BY <1>7 DEF a, b, c, st

Passed(s, end, old, new, dropped) == Without(Replaced(Before(s, end), old, new), dropped)

LEMMA BeforeType ==
    ASSUME NEW S, NEW s \in Seq(S), NEW e
    PROVE  Before(s, e) \in Seq(S)
<1>1. CASE ~Contains(s, e)
  BY <1>1, BeforeNone
<1>2. CASE Contains(s, e)
  <2>1. Len(s) \in Nat
    OBVIOUS
  <2>2. PICK i \in 1 .. Len(s) : s[i] = e /\ \A j \in 1 .. i - 1 : s[j] # e
    BY <1>2, <2>1, FirstIn
  <2>3. Before(s, e) = SubSeq(s, 1, i - 1)
    BY <2>1, <2>2, BeforeAt
  <2>4. SubSeq(s, 1, i - 1) \in Seq(S)
    BY <2>1
  <2>5. QED
    BY <2>3, <2>4
<1>3. QED
  BY <1>1, <1>2

LEMMA PassedType ==
    ASSUME NEW S, NEW s \in Seq(S), NEW end, NEW old, NEW new \in S, NEW dropped
    PROVE  Passed(s, end, old, new, dropped) \in Seq(S)
<1> DEFINE b == Before(s, end)
           r == Replaced(b, old, new)
<1>1. b \in Seq(S)
  BY BeforeType
<1> HIDE DEF b
<1>2. r \in Seq(S)
  BY <1>1, ReplacedType
<1> HIDE DEF r
<1>3. Without(r, dropped) \in Seq(S)
  BY <1>2, WithoutType
<1>4. QED
  BY <1>3 DEF Passed, r, b

\* Text that has no end in it is passed on, followed by what is passed on of
\* the text after it.
LEMMA PassedOn ==
    ASSUME NEW S, NEW s \in Seq(S), NEW t \in Seq(S), NEW end, NEW old, NEW new, NEW dropped,
           new \in S, ~Contains(s, end)
    PROVE  Passed(s \o t, end, old, new, dropped)
             = Passed(s, end, old, new, dropped) \o Passed(t, end, old, new, dropped)
<1> DEFINE b == Before(t, end)
           rs == Replaced(s, old, new)
           rb == Replaced(b, old, new)
<1>1. b \in Seq(S)
  BY BeforeType
<1>2. Before(s \o t, end) = s \o b /\ Before(s, end) = s
  BY BeforeConcatFree, BeforeNone
<1> HIDE DEF b
<1>3. Replaced(s \o b, old, new) = rs \o rb
  BY <1>1, ReplacedConcat
<1>4. rs \in Seq(S) /\ rb \in Seq(S)
  BY <1>1, ReplacedType
<1> HIDE DEF rs, rb
<1>5. Without(rs \o rb, dropped) = Without(rs, dropped) \o Without(rb, dropped)
  BY <1>4, WithoutConcat
<1>6. Passed(s \o t, end, old, new, dropped) = Without(rs \o rb, dropped)
  BY <1>2, <1>3 DEF Passed
<1>7. Passed(s, end, old, new, dropped) = Without(rs, dropped)
  BY <1>2 DEF Passed, rs
<1>8. Passed(t, end, old, new, dropped) = Without(rb, dropped)
  BY DEF Passed, rb, b
<1>9. QED
  BY <1>5, <1>6, <1>7, <1>8

\* Nothing is passed on after an end.
LEMMA PassedNoMore ==
    ASSUME NEW S, NEW s \in Seq(S), NEW t \in Seq(S), NEW end, Contains(s, end),
           NEW old, NEW new, NEW dropped
    PROVE  Passed(s \o t, end, old, new, dropped) = Passed(s, end, old, new, dropped)
BY BeforeConcatKeep DEF Passed

LEMMA PassedEmpty ==
    ASSUME NEW end, NEW old, NEW new, NEW dropped
    PROVE  Passed(<<>>, end, old, new, dropped) = <<>>
<1>1. ~Contains(<<>>, end)
  BY DEF Contains
<1>2. Before(<<>>, end) = <<>>
  BY <1>1, BeforeNone
<1>3. Replaced(<<>>, old, new) = <<>>
  BY DEF Replaced
<1>4. QED
  BY <1>2, <1>3, WithoutEmpty DEF Passed

\* The end itself is not passed on, another element is replaced, or left out.
LEMMA PassedOne ==
    ASSUME NEW S, NEW e \in S, NEW end, NEW old, NEW new, NEW dropped, NEW n,
           new \in S, n = IF e \in old THEN new ELSE e
    PROVE  /\ Contains(<<e>>, end) <=> e = end
           /\ e = end => Passed(<<e>>, end, old, new, dropped) = <<>>
           /\ e # end /\ n \in dropped => Passed(<<e>>, end, old, new, dropped) = <<>>
           /\ e # end /\ n \notin dropped => Passed(<<e>>, end, old, new, dropped) = <<n>>
<1> DEFINE one == <<e>>
<1>1. one \in Seq(S) /\ Len(one) = 1 /\ one[1] = e /\ n \in S /\ DOMAIN one = 1 .. 1
  OBVIOUS
<1>2. Replaced(one, old, new) = <<n>>
  BY <1>1 DEF Replaced
<1> HIDE DEF one
<1>3. Contains(one, end) <=> e = end
  BY <1>1 DEF Contains
<1>4. CASE e = end
  <2>1. 1 \in 1 .. Len(one) /\ one[1] = end /\ \A j \in 1 .. 1 - 1 : one[j] # end /\ Len(one) \in Nat
    BY <1>1, <1>4
  <2> DEFINE i == 1
  <2>2. i \in 1 .. Len(one) /\ one[i] = end /\ \A j \in 1 .. i - 1 : one[j] # end
    BY <2>1
  <2>3. i - 1 = 0
    OBVIOUS
  <2> HIDE DEF i
  <2>4. Before(one, end) = SubSeq(one, 1, i - 1)
    BY <2>1, <2>2, BeforeAt
  <2>5. SubSeq(one, 1, 0) = <<>>
    BY <1>1
  <2>6. Before(one, end) = <<>>
    BY <2>3, <2>4, <2>5
  <2>7. Replaced(<<>>, old, new) = <<>>
    BY DEF Replaced
  <2>8. QED
    BY <1>3, <1>4, <2>6, <2>7, WithoutEmpty DEF Passed, one
<1>5. CASE e # end
  <2>1. Before(one, end) = one
    BY <1>3, <1>5, BeforeNone
  <2>2. /\ n \in dropped => Without(<<n>>, dropped) = <<>>
        /\ n \notin dropped => Without(<<n>>, dropped) = <<n>>
    BY <1>1, WithoutOne
  <2>3. Passed(one, end, old, new, dropped) = Without(<<n>>, dropped)
    BY <1>2, <2>1 DEF Passed, one
  <2>4. QED
    BY <1>3, <1>5, <2>2, <2>3 DEF one
<1>6. QED
  BY <1>4, <1>5

-----------------------------------------------------------------------------

\* Where nothing is to be left out nothing is.
LEMMA WithoutNone ==
    ASSUME NEW S, NEW s \in Seq(S), NEW dropped, S \cap dropped = {}
    PROVE  Without(s, dropped) = s
<1> DEFINE T == {r \in Seq(S) : Without(r, dropped) = r}
<1>1. <<>> \in T
  <2>1. <<>> \in Seq(S)
    OBVIOUS
  <2>2. QED
    BY <2>1, WithoutEmpty
<1>2. \A r \in Seq(S) : r \in T => \A e \in S : Append(r, e) \in T
  <2>1. ASSUME NEW r \in Seq(S), r \in T, NEW e \in S PROVE Append(r, e) \in T
    <3>1. Append(r, e) \in Seq(S) /\ e \notin dropped /\ Without(r, dropped) = r
      BY <2>1
    <3>2. Without(Append(r, e), dropped) = Append(Without(r, dropped), e)
      BY <2>1, <3>1, WithoutAppend
    <3>3. QED
      BY <3>1, <3>2
  <2>2. QED
    BY <2>1
<1> HIDE DEF T
<1>3. Seq(S) \subseteq T
  BY <1>1, <1>2, SeqSetInduction
<1>4. QED
  BY <1>3 DEF T

\* A beginning, as SequencesExt has it, and what follows it.
LEMMA PrefixCut ==
    ASSUME NEW S, NEW s \in Seq(S), NEW p \in Prefixes(s)
    PROVE  /\ p \in Seq(S) /\ Len(p) <= Len(s)
           /\ \E r \in Seq(S) : s = p \o r
<1>1. PICK n \in 0 .. Len(s) : p = SubSeq(s, 1, n)
  BY DEF Prefixes
<1>2. Len(s) \in Nat /\ n \in Nat /\ n <= Len(s)
  BY <1>1
<1>3. SubSeq(s, 1, n) \in Seq(S) /\ Len(SubSeq(s, 1, n)) = n /\ SubSeq(s, n + 1, Len(s)) \in Seq(S)
  BY <1>2
<1>4. SubSeq(s, 1, n) \o SubSeq(s, n + 1, Len(s)) = s
  BY CutAndJoin
<1>5. QED
  BY <1>1, <1>2, <1>3, <1>4

\* Replacing does not move the end, when it neither makes nor takes one.
LEMMA BeforeReplaced ==
    ASSUME NEW S, NEW s \in Seq(S), NEW end, NEW old, NEW new,
           new \in S, end \notin old, end # new
    PROVE  Before(Replaced(s, old, new), end) = Replaced(Before(s, end), old, new)
<1> DEFINE r == Replaced(s, old, new)
<1>1. /\ r \in Seq(S) /\ Len(r) = Len(s) /\ Len(s) \in Nat
      /\ \A i \in 1 .. Len(s) : r[i] = IF s[i] \in old THEN new ELSE s[i]
  BY ReplacedType
<1> HIDE DEF r
<1>2. \A i \in 1 .. Len(s) : r[i] = end <=> s[i] = end
  BY <1>1
<1>3. CASE ~Contains(s, end)
  <2>1. ~Contains(r, end)
    BY <1>1, <1>2, <1>3 DEF Contains
  <2>2. QED
    BY <1>3, <2>1, BeforeNone DEF r
<1>4. CASE Contains(s, end)
  <2>1. PICK i \in 1 .. Len(s) : s[i] = end /\ \A j \in 1 .. i - 1 : s[j] # end
    BY <1>1, <1>4, FirstIn
  <2>2. i \in 1 .. Len(r) /\ r[i] = end /\ \A j \in 1 .. i - 1 : r[j] # end
    BY <1>1, <1>2, <2>1
  <2>3. Before(s, end) = SubSeq(s, 1, i - 1)
    BY <1>1, <2>1, BeforeAt
  <2>4. Len(r) \in Nat
    BY <1>1
  <2>5. Before(r, end) = SubSeq(r, 1, i - 1)
    BY <2>2, <2>4, BeforeAt
  <2> DEFINE a == SubSeq(s, 1, i - 1)
             b == SubSeq(r, 1, i - 1)
             c == Replaced(a, old, new)
  <2>6. /\ a \in Seq(S) /\ Len(a) = i - 1 /\ \A j \in 1 .. i - 1 : a[j] = s[j]
        /\ b \in Seq(S) /\ Len(b) = i - 1 /\ \A j \in 1 .. i - 1 : b[j] = r[j]
    BY <1>1, <2>1
  <2>7. 1 .. i - 1 \subseteq 1 .. Len(s)
    BY <1>1, <2>1
  <2> HIDE DEF a, b
  <2>8. a \in Seq(S)
    BY <2>6
  <2>9. /\ c \in Seq(S) /\ Len(c) = Len(a)
        /\ \A j \in 1 .. Len(a) : c[j] = IF a[j] \in old THEN new ELSE a[j]
    BY <2>8, ReplacedType
  <2> HIDE DEF c
  <2>10. \A j \in 1 .. Len(b) : b[j] = c[j]
    BY <1>1, <2>6, <2>7, <2>9
  <2>11. b = c
    BY <2>6, <2>9, <2>10, SeqEqual
  <2>12. QED
    BY <2>3, <2>5, <2>11 DEF a, b, c, r
<1>5. QED
  BY <1>3, <1>4

\* Replacing once more changes nothing.
LEMMA ReplacedTwice ==
    ASSUME NEW S, NEW s \in Seq(S), NEW old, NEW new, new \in S, new \in old
    PROVE  Replaced(Replaced(s, old, new), old, new) = Replaced(s, old, new)
<1> DEFINE r == Replaced(s, old, new)
           q == Replaced(r, old, new)
<1>1. /\ r \in Seq(S) /\ Len(r) = Len(s)
      /\ \A i \in 1 .. Len(s) : r[i] = IF s[i] \in old THEN new ELSE s[i]
  BY ReplacedType
<1> HIDE DEF r
<1>2. r \in Seq(S)
  BY <1>1
<1>3. /\ q \in Seq(S) /\ Len(q) = Len(r)
      /\ \A i \in 1 .. Len(r) : q[i] = IF r[i] \in old THEN new ELSE r[i]
  BY <1>2, ReplacedType
<1> HIDE DEF q
<1>4. \A i \in 1 .. Len(q) : q[i] = r[i]
  BY <1>1, <1>3
<1>5. q = r
  BY <1>2, <1>3, <1>4, SeqEqual
<1>6. QED
  BY <1>5 DEF q, r

=============================================================================
