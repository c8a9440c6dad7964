---------------------------- MODULE Lab3b_proofs ----------------------------
(***************************************************************************)
(* Theorems about Lab3b, for any summary that lab3a could have printed.    *)
(***************************************************************************)
EXTENDS Lab3b, Texts_proofs

-----------------------------------------------------------------------------
(* What a sequence has, when it grows, is joined, is thinned out or loses  *)
(* one element.                                                            *)

LEMMA Containing ==
    ASSUME NEW S, NEW s \in Seq(S), NEW e
    PROVE  Contains(s, e) <=> e \in ToSet(s)
BY DEF Contains, ToSet

LEMMA RangeType == ASSUME NEW S, NEW s \in Seq(S) PROVE ToSet(s) \subseteq S
BY DEF ToSet

LEMMA RangeEmpty == ASSUME NEW S, NEW s \in Seq(S) PROVE ToSet(s) = {} <=> s = <<>>
BY DEF ToSet

LEMMA RangeNothing == ToSet(<<>>) = {}
BY DEF ToSet

LEMMA RangeAppend ==
    ASSUME NEW S, NEW s \in Seq(S), NEW e \in S
    PROVE  ToSet(Append(s, e)) = ToSet(s) \cup {e}
<1> DEFINE t == Append(s, e)
<1>1. /\ Len(s) \in Nat /\ t \in Seq(S) /\ Len(t) = Len(s) + 1
      /\ \A i \in 1 .. Len(s) : t[i] = s[i]
      /\ t[Len(s) + 1] = e
  OBVIOUS
<1>2. DOMAIN t = 1 .. Len(s) + 1 /\ DOMAIN s = 1 .. Len(s)
  BY <1>1
<1> HIDE DEF t
<1>3. ASSUME NEW x PROVE (\E i \in DOMAIN t : x = t[i]) <=> (\E i \in DOMAIN s : x = s[i]) \/ x = e
  <2>1. ASSUME NEW i \in DOMAIN t, x = t[i] PROVE (\E j \in DOMAIN s : x = s[j]) \/ x = e
    <3>1. i \in 1 .. Len(s) \/ i = Len(s) + 1
      BY <1>1, <1>2
    <3>2. QED
      BY <1>1, <1>2, <2>1, <3>1
  <2>2. ASSUME NEW i \in DOMAIN s, x = s[i] PROVE \E j \in DOMAIN t : x = t[j]
    <3>1. i \in DOMAIN t /\ t[i] = s[i]
      BY <1>1, <1>2
    <3>2. QED
      BY <2>2, <3>1
  <2>3. x = e => \E j \in DOMAIN t : x = t[j]
    <3>1. Len(s) + 1 \in DOMAIN t
      BY <1>1, <1>2
    <3>2. QED
      BY <1>1, <3>1
  <2>4. QED
    BY <2>1, <2>2, <2>3
<1>4. QED
  BY <1>3 DEF ToSet, t

LEMMA RangeConcat ==
    ASSUME NEW S, NEW s \in Seq(S), NEW t \in Seq(S)
    PROVE  ToSet(s \o t) = ToSet(s) \cup ToSet(t)
<1> DEFINE st == s \o t
<1>1. /\ Len(s) \in Nat /\ Len(t) \in Nat /\ Len(st) = Len(s) + Len(t) /\ st \in Seq(S)
      /\ \A i \in 1 .. Len(s) + Len(t) :
            st[i] = IF i <= Len(s) THEN s[i] ELSE t[i - Len(s)]
  BY ConcatProperties
<1>2. DOMAIN st = 1 .. Len(s) + Len(t) /\ DOMAIN s = 1 .. Len(s) /\ DOMAIN t = 1 .. Len(t)
  BY <1>1
<1> HIDE DEF st
<1>3. ASSUME NEW x
      PROVE  (\E i \in DOMAIN st : x = st[i])
             <=> (\E i \in DOMAIN s : x = s[i]) \/ (\E i \in DOMAIN t : x = t[i])
  <2>1. ASSUME NEW i \in DOMAIN st, x = st[i]
        PROVE  (\E j \in DOMAIN s : x = s[j]) \/ (\E j \in DOMAIN t : x = t[j])
    <3>1. i \in DOMAIN s \/ (i - Len(s) \in DOMAIN t /\ ~(i <= Len(s)))
      BY <1>1, <1>2
    <3>2. QED
      BY <1>1, <1>2, <2>1, <3>1
  <2>2. ASSUME NEW i \in DOMAIN s, x = s[i] PROVE \E j \in DOMAIN st : x = st[j]
    <3>1. i \in DOMAIN st /\ st[i] = s[i]
      BY <1>1, <1>2
    <3>2. QED
      BY <2>2, <3>1
  <2>3. ASSUME NEW i \in DOMAIN t, x = t[i] PROVE \E j \in DOMAIN st : x = st[j]
    <3>1. Len(s) + i \in DOMAIN st /\ ~(Len(s) + i <= Len(s)) /\ (Len(s) + i) - Len(s) = i
      BY <1>1, <1>2
    <3>2. st[Len(s) + i] = t[i]
      BY <1>1, <1>2, <3>1
    <3>3. QED
      BY <2>3, <3>1, <3>2
  <2>4. QED
    BY <2>1, <2>2, <2>3
<1>4. QED
  BY <1>3 DEF ToSet, st

LEMMA RangeWithout ==
    ASSUME NEW S, NEW s \in Seq(S), NEW dropped
    PROVE  ToSet(Without(s, dropped)) = ToSet(s) \ dropped
<1> DEFINE T == {r \in Seq(S) : ToSet(Without(r, dropped)) = ToSet(r) \ dropped}
<1>1. <<>> \in T
  <2>1. <<>> \in Seq(S) /\ Without(<<>>, dropped) = <<>>
    BY EmptySeq, WithoutEmpty
  <2>2. QED
    BY <2>1, RangeNothing
<1>2. ASSUME NEW r \in Seq(S), r \in T, NEW e \in S PROVE Append(r, e) \in T
  <2>1. /\ Append(r, e) \in Seq(S) /\ Without(r, dropped) \in Seq(S)
        /\ ToSet(Append(r, e)) = ToSet(r) \cup {e}
        /\ ToSet(Append(Without(r, dropped), e)) = ToSet(Without(r, dropped)) \cup {e}
    BY WithoutType, RangeAppend
  <2>2. Without(Append(r, e), dropped)
          = IF e \in dropped THEN Without(r, dropped) ELSE Append(Without(r, dropped), e)
    BY WithoutAppend
  <2>3. ToSet(Without(r, dropped)) = ToSet(r) \ dropped
    BY <1>2
  <2>4. ToSet(Without(Append(r, e), dropped)) = ToSet(Append(r, e)) \ dropped
    <3>1. CASE e \in dropped
      BY <2>1, <2>2, <2>3, <3>1
    <3>2. CASE e \notin dropped
      BY <2>1, <2>2, <2>3, <3>2
    <3>3. QED
      BY <3>1, <3>2
  <2>5. QED
    BY <2>1, <2>4
<1>3. Seq(S) \subseteq T
  BY <1>1, <1>2, SeqSetInduction
<1>4. QED
  BY <1>3

LEMMA RangeFlatten ==
    ASSUME NEW S, NEW ss \in Seq(Seq(S))
    PROVE  ToSet(FlattenSeq(ss)) = UNION {ToSet(s) : s \in ToSet(ss)}
<1> DEFINE T == {r \in Seq(Seq(S)) : ToSet(FlattenSeq(r)) = UNION {ToSet(s) : s \in ToSet(r)}}
<1>1. <<>> \in T
  <2>1. <<>> \in Seq(Seq(S)) /\ FlattenSeq(<<>>) = <<>>
    BY EmptySeq, FlattenEmpty
  <2>2. QED
    BY <2>1, RangeNothing
<1>2. ASSUME NEW r \in Seq(Seq(S)), r \in T, NEW e \in Seq(S) PROVE Append(r, e) \in T
  <2>1. Append(r, e) \in Seq(Seq(S)) /\ ToSet(Append(r, e)) = ToSet(r) \cup {e}
    BY RangeAppend
  <2>2. FlattenSeq(r) \in Seq(S) /\ FlattenSeq(Append(r, e)) = FlattenSeq(r) \o e
    BY FlattenAppend
  <2>3. ToSet(FlattenSeq(r) \o e) = ToSet(FlattenSeq(r)) \cup ToSet(e)
    BY <2>2, RangeConcat
  <2>4. ToSet(FlattenSeq(r)) = UNION {ToSet(s) : s \in ToSet(r)}
    BY <1>2
  <2>5. QED
    BY <2>1, <2>2, <2>3, <2>4, ZenonT(60)
<1>3. Seq(Seq(S)) \subseteq T
  BY <1>1, <1>2, SeqSetInduction
<1>4. QED
  BY <1>3

\* An element that occurs once is gone when it is removed.
LEMMA Removed ==
    ASSUME NEW S, NEW s \in Seq(S), IsInjective(s), NEW e \in ToSet(s)
    PROVE  /\ RemoveFirst(s, e) \in Seq(S)
           /\ IsInjective(RemoveFirst(s, e))
           /\ ToSet(RemoveFirst(s, e)) = ToSet(s) \ {e}
<1> DEFINE n == Len(s)
           I == {i \in 1 .. Len(s) : s[i] = e}
<1>1. n \in Nat /\ DOMAIN s = 1 .. n
  OBVIOUS
<1>2. PICK p \in 1 .. n : s[p] = e
  BY <1>1 DEF ToSet
<1>3. I = {p}
  BY <1>1, <1>2 DEF IsInjective
<1>4. Min(I) = p
  BY <1>1, <1>3 DEF Min
<1>5. SelectInSeq(s, LAMBDA v : v = e) = p
  BY <1>3, <1>4 DEF SelectInSeq
<1>6. RemoveFirst(s, e) = RemoveAt(s, p)
  BY <1>1, <1>2, <1>5 DEF RemoveFirst
<1> DEFINE t == SubSeq(s, 1, p - 1) \o SubSeq(s, p + 1, n)
<1>7. RemoveFirst(s, e) = t
  BY <1>6 DEF RemoveAt
<1> DEFINE a == SubSeq(s, 1, p - 1)
           b == SubSeq(s, p + 1, n)
<1> HIDE DEF n
<1>8. /\ a \in Seq(S) /\ Len(a) = p - 1 /\ \A i \in 1 .. p - 1 : a[i] = s[i]
      /\ b \in Seq(S) /\ Len(b) = n - p /\ \A i \in 1 .. n - p : b[i] = s[p + i]
  <2>1. a \in Seq(S) /\ Len(a) = p - 1 /\ \A i \in 1 .. p - 1 : a[i] = s[i]
    <3>1. \A i \in 1 .. p - 1 : s[i] \in S
      BY <1>1
    <3>2. p - 1 \in Int /\ (1 <= p - 1 \/ p - 1 = 0) /\ (p - 1) - 1 + 1 = p - 1
      BY <1>1
    <3>3. /\ a \in Seq(S) /\ Len(a) = IF 1 <= p - 1 THEN (p - 1) - 1 + 1 ELSE 0
          /\ \A i \in 1 .. (p - 1) - 1 + 1 : a[i] = s[1 + i - 1]
      BY <3>1, <3>2, SubSeqProperties
    <3>4. \A i \in 1 .. p - 1 : 1 + i - 1 = i
      OBVIOUS
    <3> HIDE DEF a
    <3>5. QED
      BY <3>2, <3>3, <3>4
  <2>2. b \in Seq(S) /\ Len(b) = n - p /\ \A i \in 1 .. n - p : b[i] = s[p + i]
    <3>1. \A i \in p + 1 .. n : s[i] \in S
      BY <1>1
    <3>2. p + 1 \in Int /\ n \in Int /\ (p + 1 <= n \/ n - p = 0) /\ n - (p + 1) + 1 = n - p
      <4>1. p \in Nat /\ n \in Nat /\ p <= n
        BY <1>1
      <4>2. QED
        BY <4>1
    <3>3. /\ b \in Seq(S) /\ Len(b) = IF p + 1 <= n THEN n - (p + 1) + 1 ELSE 0
          /\ \A i \in 1 .. n - (p + 1) + 1 : b[i] = s[(p + 1) + i - 1]
      BY <3>1, <3>2, SubSeqProperties
    <3>4. \A i \in 1 .. n - p : (p + 1) + i - 1 = p + i
      BY <1>1
    <3> HIDE DEF b
    <3>5. QED
      BY <1>1, <3>2, <3>3, <3>4
  <2>3. QED
    BY <2>1, <2>2
<1>9. /\ t \in Seq(S) /\ DOMAIN t = 1 .. n - 1
      /\ \A i \in 1 .. n - 1 : t[i] = IF i < p THEN s[i] ELSE s[i + 1]
  <2> HIDE DEF a, b
  <2>1. /\ a \o b \in Seq(S) /\ Len(a \o b) = Len(a) + Len(b)
        /\ \A i \in 1 .. Len(a) + Len(b) :
              (a \o b)[i] = IF i <= Len(a) THEN a[i] ELSE b[i - Len(a)]
    BY <1>8, ConcatProperties
  <2>2. t = a \o b /\ (p - 1) + (n - p) = n - 1
    BY <1>1 DEF a, b
  <2>3. ASSUME NEW i \in 1 .. n - 1 PROVE (a \o b)[i] = IF i < p THEN s[i] ELSE s[i + 1]
    <3>1. (a \o b)[i] = IF i <= p - 1 THEN a[i] ELSE b[i - (p - 1)]
      BY <1>8, <2>1, <2>2
    <3>2. CASE i < p
      BY <1>1, <1>8, <3>1, <3>2
    <3>3. CASE ~(i < p)
      <4>1. i - (p - 1) \in 1 .. n - p /\ p + (i - (p - 1)) = i + 1 /\ ~(i <= p - 1)
        BY <1>1, <3>3
      <4>2. QED
        BY <1>8, <3>1, <3>3, <4>1
    <3>4. QED
      BY <3>2, <3>3
  <2>4. DOMAIN (a \o b) = 1 .. n - 1
    BY <1>8, <2>1, <2>2
  <2>5. t \in Seq(S) /\ DOMAIN t = 1 .. n - 1 /\ \A i \in 1 .. n - 1 : t[i] = (a \o b)[i]
    BY <2>1, <2>2, <2>4
  <2>6. QED
    BY <2>3, <2>5
<1> HIDE DEF t
<1>10. IsInjective(t)
  <2>1. SUFFICES ASSUME NEW i \in 1 .. n - 1, NEW j \in 1 .. n - 1, t[i] = t[j] PROVE i = j
    BY <1>9 DEF IsInjective
  <2> DEFINE f == IF i < p THEN i ELSE i + 1
             g == IF j < p THEN j ELSE j + 1
  <2>2. f \in 1 .. n /\ g \in 1 .. n /\ t[i] = s[f] /\ t[j] = s[g]
    BY <1>1, <1>9
  <2>3. f = g
    BY <1>1, <2>1, <2>2 DEF IsInjective
  <2>4. QED
    BY <1>1, <2>3
<1>11. ASSUME NEW x PROVE (\E i \in DOMAIN t : x = t[i]) <=> (\E i \in DOMAIN s : x = s[i]) /\ x # e
  <2>1. ASSUME NEW i \in DOMAIN t, x = t[i] PROVE (\E j \in DOMAIN s : x = s[j]) /\ x # e
    <3>1. i \in 1 .. n /\ i + 1 \in 1 .. n
      BY <1>1, <1>9
    <3>2. t[i] = IF i < p THEN s[i] ELSE s[i + 1]
      BY <1>9
    <3>3. QED
      BY <1>1, <1>2, <2>1, <3>1, <3>2 DEF IsInjective
  <2>2. ASSUME NEW i \in DOMAIN s, x = s[i], x # e PROVE \E j \in DOMAIN t : x = t[j]
    <3>1. CASE i < p
      <4>1. i \in DOMAIN t /\ t[i] = s[i]
        BY <1>1, <1>9, <3>1
      <4>2. QED
        BY <2>2, <4>1
    <3>2. CASE ~(i < p)
      <4>1. i # p
        BY <1>2, <2>2
      <4>2. i - 1 \in DOMAIN t /\ ~(i - 1 < p) /\ (i - 1) + 1 = i
        BY <1>1, <1>9, <3>2, <4>1
      <4>3. t[i - 1] = s[i]
        BY <1>9, <4>2
      <4>4. QED
        BY <2>2, <4>2, <4>3
    <3>3. QED
      BY <3>1, <3>2
  <2>3. QED
    BY <2>1, <2>2
<1>12. ToSet(t) = ToSet(s) \ {e}
  BY <1>11 DEF ToSet
<1>13. QED
  BY <1>7, <1>9, <1>10, <1>12

LEMMA InjectiveAppend ==
    ASSUME NEW S, NEW s \in Seq(S), IsInjective(s), NEW e \in S, e \notin ToSet(s)
    PROVE  IsInjective(Append(s, e))
<1> DEFINE t == Append(s, e)
<1>1. /\ Len(s) \in Nat /\ t \in Seq(S) /\ Len(t) = Len(s) + 1
      /\ \A i \in 1 .. Len(s) : t[i] = s[i]
      /\ t[Len(s) + 1] = e
  OBVIOUS
<1>2. DOMAIN t = 1 .. Len(s) + 1 /\ DOMAIN s = 1 .. Len(s)
  BY <1>1
<1> HIDE DEF t
<1>3. SUFFICES ASSUME NEW a \in DOMAIN t, NEW b \in DOMAIN t, t[a] = t[b] PROVE a = b
  BY DEF IsInjective, t
<1>4. /\ a \in DOMAIN s \/ a = Len(s) + 1
      /\ b \in DOMAIN s \/ b = Len(s) + 1
  BY <1>1, <1>2
<1>5. QED
  BY <1>1, <1>2, <1>3, <1>4 DEF IsInjective, ToSet

LEMMA Retype ==
    ASSUME NEW S, NEW s \in Seq(S), NEW T, ToSet(s) \subseteq T
    PROVE  s \in Seq(T)
<1>1. Len(s) \in Nat /\ DOMAIN s = 1 .. Len(s) /\ s = [i \in 1 .. Len(s) |-> s[i]]
  OBVIOUS
<1>2. \A i \in 1 .. Len(s) : s[i] \in T
  BY <1>1 DEF ToSet
<1>3. [i \in 1 .. Len(s) |-> s[i]] \in Seq(T)
  BY <1>1, <1>2
<1>4. QED
  BY <1>1, <1>3

-----------------------------------------------------------------------------
(* Complaints.                                                             *)

Mentioned == [level : Nat, block : Int, inode : Nat, offset : Nat]
Sayings == {"ALLOCATED_BLOCK_ON_FREELIST", "INVALID", "RESERVED", "DUPLICATE", "UNREFERENCED_BLOCK",
            "ALLOCATED_INODE_ON_FREELIST", "UNALLOCATED_INODE_NOT_ON_FREELIST",
            "UNALLOCATED_INODE", "INVALID_INODE", "'.'", "'..'", "LINKS"}
Complaints == [what : Sayings, about : Int \cup CsvLines \cup Mentioned]

Whats(p) == {c.what : c \in ToSet(p)}
AboutsOf(p, kinds) == {c.about : c \in {d \in ToSet(p) : d.what \in kinds}}

\* No two complaints of these kinds are about the same thing.
Once(p, kinds) ==
    \A j, k \in DOMAIN p :
        p[j].what \in kinds /\ p[k].what \in kinds /\ p[j].about = p[k].about => j = k

LEMMA WhatsConcat ==
    ASSUME NEW S, NEW p \in Seq(S), NEW q \in Seq(S), NEW kinds
    PROVE  /\ Whats(p \o q) = Whats(p) \cup Whats(q)
           /\ AboutsOf(p \o q, kinds) = AboutsOf(p, kinds) \cup AboutsOf(q, kinds)
<1>1. ToSet(p \o q) = ToSet(p) \cup ToSet(q)
  BY RangeConcat
<1>2. QED
  BY <1>1 DEF Whats, AboutsOf

LEMMA WhatsNone ==
    /\ Whats(<<>>) = {}
    /\ \A kinds : AboutsOf(<<>>, kinds) = {} /\ Once(<<>>, kinds)
BY RangeNothing DEF Whats, AboutsOf, Once

LEMMA WhatsOne ==
    ASSUME NEW c
    PROVE  /\ ToSet(<<c>>) = {c}
           /\ Whats(<<c>>) = {c.what}
           /\ \A kinds : AboutsOf(<<c>>, kinds) = IF c.what \in kinds THEN {c.about} ELSE {}
<1>1. ToSet(<<c>>) = {c}
  BY DEF ToSet
<1>2. QED
  BY <1>1 DEF Whats, AboutsOf

LEMMA AboutsNone ==
    ASSUME NEW q, NEW kinds, Whats(q) \cap kinds = {}
    PROVE  AboutsOf(q, kinds) = {}
BY DEF Whats, AboutsOf

LEMMA OnceStill ==
    ASSUME NEW S, NEW p \in Seq(S), NEW q \in Seq(S), NEW kinds,
           Once(p, kinds), Whats(q) \cap kinds = {}
    PROVE  Once(p \o q, kinds)
<1> DEFINE r == p \o q
<1>1. /\ Len(p) \in Nat /\ Len(q) \in Nat /\ DOMAIN r = 1 .. Len(p) + Len(q)
      /\ \A i \in 1 .. Len(p) + Len(q) : r[i] = IF i <= Len(p) THEN p[i] ELSE q[i - Len(p)]
  BY ConcatProperties
<1>2. DOMAIN p = 1 .. Len(p) /\ DOMAIN q = 1 .. Len(q)
  BY <1>1
<1> HIDE DEF r
<1>3. ASSUME NEW j \in DOMAIN r, r[j].what \in kinds PROVE j \in DOMAIN p /\ r[j] = p[j]
  <2>1. CASE j <= Len(p)
    BY <1>1, <1>2, <2>1
  <2>2. CASE ~(j <= Len(p))
    <3>1. j - Len(p) \in DOMAIN q /\ r[j] = q[j - Len(p)]
      BY <1>1, <1>2, <2>2
    <3>2. r[j].what \in Whats(q)
      BY <3>1 DEF Whats, ToSet
    <3>3. QED
      BY <1>3, <3>2
  <2>3. QED
    BY <2>1, <2>2
<1>4. QED
  BY <1>3 DEF Once, r

LEMMA OnceMore ==
    ASSUME NEW S, NEW p \in Seq(S), NEW c \in S, NEW kinds,
           Once(p, kinds), c.about \notin AboutsOf(p, kinds)
    PROVE  Once(p \o <<c>>, kinds)
<1> DEFINE q == <<c>>
           r == p \o q
<1>1. q \in Seq(S) /\ Len(q) = 1 /\ q[1] = c
  OBVIOUS
<1>2. /\ Len(p) \in Nat /\ DOMAIN r = 1 .. Len(p) + 1
      /\ \A i \in 1 .. Len(p) + 1 : r[i] = IF i <= Len(p) THEN p[i] ELSE c
  <2> HIDE DEF q
  <2>1. /\ Len(p) \in Nat /\ DOMAIN r = 1 .. Len(p) + Len(q)
        /\ \A i \in 1 .. Len(p) + Len(q) : r[i] = IF i <= Len(p) THEN p[i] ELSE q[i - Len(p)]
    BY <1>1, ConcatProperties, SMTT(40)
  <2>2. \A i \in 1 .. Len(p) + 1 : ~(i <= Len(p)) => i - Len(p) = 1
    BY <2>1
  <2>3. QED
    BY <1>1, <2>1, <2>2
<1>3. DOMAIN p = 1 .. Len(p)
  BY <1>2
<1> HIDE DEF r, q
<1>4. ASSUME NEW j \in DOMAIN r
      PROVE  (j \in DOMAIN p /\ r[j] = p[j]) \/ (j = Len(p) + 1 /\ r[j] = c)
  BY <1>2, <1>3
<1>5. ASSUME NEW j \in DOMAIN p, p[j].what \in kinds PROVE p[j].about # c.about
  <2>1. p[j] \in ToSet(p)
    BY DEF ToSet
  <2>2. p[j].about \in AboutsOf(p, kinds)
    BY <1>5, <2>1 DEF AboutsOf
  <2>3. QED
    BY <2>2
<1>6. SUFFICES ASSUME NEW j \in DOMAIN r, NEW k \in DOMAIN r, r[j].what \in kinds,
                      r[k].what \in kinds, r[j].about = r[k].about
               PROVE  j = k
  BY DEF Once, r, q
<1>7. CASE j \in DOMAIN p /\ r[j] = p[j]
  <2>1. CASE k \in DOMAIN p /\ r[k] = p[k]
    BY <1>6, <1>7, <2>1 DEF Once
  <2>2. CASE k = Len(p) + 1 /\ r[k] = c
    BY <1>5, <1>6, <1>7, <2>2
  <2>3. QED
    BY <1>4, <2>1, <2>2
<1>8. CASE j = Len(p) + 1 /\ r[j] = c
  <2>1. CASE k \in DOMAIN p /\ r[k] = p[k]
    BY <1>5, <1>6, <1>8, <2>1
  <2>2. CASE k = Len(p) + 1 /\ r[k] = c
    BY <1>8, <2>2
  <2>3. QED
    BY <1>4, <2>1, <2>2
<1>9. QED
  BY <1>4, <1>7, <1>8

-----------------------------------------------------------------------------
(* What a summary that was read consists of.                               *)

Facts ==
    /\ my_sp \in SuperLines /\ my_group \in GroupLines /\ my_bfree \subseteq Nat
    /\ my_inode \in Seq(InodeLines)
    /\ my_dir \in Seq(EntryLines)
    /\ my_indir \in Seq(IndirectLines)
    /\ \A j, k \in DOMAIN my_inode : my_inode[j].inode_number = my_inode[k].inode_number => j = k
    /\ \A k \in DOMAIN my_inode : ValidInode(my_inode[k].inode_number)

LEMMA LineOfKind ==
    ASSUME NEW l \in CsvLines
    PROVE  /\ l.line = "SUPERBLOCK" => l \in SuperLines
           /\ l.line = "GROUP" => l \in GroupLines
           /\ l.line \in {"BFREE", "IFREE"} => l \in NumberLines
           /\ l.line = "INODE" => l \in InodeLines
           /\ l.line = "DIRENT" => l \in EntryLines
           /\ l.line = "INDIRECT" => l \in IndirectLines
<1>1. l \in [line : STRING \ Kinds] => l.line \notin Kinds
  OBVIOUS
<1>2. /\ l \in SuperLines => l.line = "SUPERBLOCK"
      /\ l \in GroupLines => l.line = "GROUP"
      /\ l \in NumberLines => l.line \in {"BFREE", "IFREE"}
      /\ l \in InodeLines => l.line = "INODE"
      /\ l \in EntryLines => l.line = "DIRENT"
      /\ l \in IndirectLines => l.line = "INDIRECT"
  BY DEF SuperLines, GroupLines, NumberLines, InodeLines, EntryLines, IndirectLines
<1>3. QED
  BY <1>1, <1>2 DEF CsvLines, Kinds

LEMMA LinesAre ==
    ASSUME csv \in Seq(CsvLines), NEW kind
    PROVE  /\ Lines(kind) \in Seq(CsvLines)
           /\ ToSet(Lines(kind)) = {l \in ToSet(csv) : l.line = kind}
<1>1. ToSet(csv) \subseteq CsvLines
  BY RangeType
<1> DEFINE other == {l \in ToSet(csv) : l.line # kind}
<1>2. /\ Without(csv, other) \in Seq(CsvLines)
      /\ ToSet(Without(csv, other)) = ToSet(csv) \ other
  BY WithoutType, RangeWithout
<1>3. QED
  BY <1>2 DEF Lines

LEMMA LinesOfKind ==
    ASSUME csv \in Seq(CsvLines), NEW kind, NEW T,
           \A l \in CsvLines : l.line = kind => l \in T
    PROVE  Lines(kind) \in Seq(T)
<1>1. /\ Lines(kind) \in Seq(CsvLines)
      /\ ToSet(Lines(kind)) = {l \in ToSet(csv) : l.line = kind}
      /\ ToSet(csv) \subseteq CsvLines
  BY LinesAre, RangeType
<1>2. ToSet(Lines(kind)) \subseteq T
  BY <1>1
<1>3. QED
  BY <1>1, <1>2, Retype

LEMMA LastOf ==
    ASSUME NEW S, NEW s \in Seq(S), s # <<>>
    PROVE  Last(s) \in S
BY DEF Last

LEMMA NumbersAre ==
    ASSUME csv \in Seq(CsvLines), NEW kind \in {"BFREE", "IFREE"}
    PROVE  NumberFields(kind) \in Seq(Nat) /\ ToSet(NumberFields(kind)) \subseteq Nat
<1>1. Lines(kind) \in Seq(NumberLines)
  BY LinesOfKind, LineOfKind
<1>2. \A k \in DOMAIN Lines(kind) : Lines(kind)[k].number \in Nat
  <2>1. \A k \in DOMAIN Lines(kind) : Lines(kind)[k] \in NumberLines
    BY <1>1
  <2>2. \A l \in NumberLines : l.number \in Nat
    BY DEF NumberLines
  <2>3. QED
    BY <2>1, <2>2
<1>3. [k \in DOMAIN Lines(kind) |-> Lines(kind)[k].number] \in Seq(Nat)
  BY <1>1, <1>2
<1>4. NumberFields(kind) \in Seq(Nat)
  BY <1>3 DEF NumberFields
<1>5. QED
  BY <1>4, RangeType

\* What Parse makes is as Facts says.
LEMMA ParseFacts ==
    ASSUME Summarised, Parse, Readable
    PROVE  Facts'
<1>1. csv \in Seq(CsvLines)
  BY DEF Summarised
<1>2. /\ Lines("SUPERBLOCK") \in Seq(SuperLines) /\ Lines("GROUP") \in Seq(GroupLines)
      /\ Lines("INODE") \in Seq(InodeLines)
      /\ Lines("DIRENT") \in Seq(EntryLines)
      /\ Lines("INDIRECT") \in Seq(IndirectLines)
  BY <1>1, LinesOfKind, LineOfKind
<1>3. Lines("SUPERBLOCK") # <<>> /\ Lines("GROUP") # <<>>
  <2>1. \E l \in ToSet(csv) : l.line = "SUPERBLOCK"
    BY DEF Readable
  <2>2. \E l \in ToSet(csv) : l.line = "GROUP"
    BY DEF Readable
  <2>3. ToSet(Lines("SUPERBLOCK")) # {} /\ ToSet(Lines("GROUP")) # {}
    BY <1>1, <2>1, <2>2, LinesAre
  <2>4. QED
    BY <2>3, RangeNothing
<1>4. Last(Lines("SUPERBLOCK")) \in SuperLines /\ Last(Lines("GROUP")) \in GroupLines
  BY <1>2, <1>3, LastOf
<1>5. ToSet(NumberFields("BFREE")) \subseteq Nat
  BY <1>1, NumbersAre
<1>6. /\ my_sp' = Last(Lines("SUPERBLOCK")) /\ my_group' = Last(Lines("GROUP"))
      /\ my_bfree' = ToSet(NumberFields("BFREE"))
      /\ my_inode' = Lines("INODE") /\ my_dir' = Lines("DIRENT") /\ my_indir' = Lines("INDIRECT")
  BY DEF Parse
<1>7. \A k \in DOMAIN Lines("INODE") : Lines("INODE")[k] \in ToSet(Lines("INODE"))
  BY DEF ToSet
<1>8. /\ \A j, k \in DOMAIN my_inode' :
            my_inode'[j].inode_number = my_inode'[k].inode_number => j = k
      /\ \A k \in DOMAIN my_inode' : my_inode'[k].inode_number \in 1 .. my_sp'.num_inodes
  BY <1>6, <1>7 DEF Summarised
<1>9. QED
  BY <1>2, <1>4, <1>5, <1>6, <1>8 DEF Facts, ValidInode

-----------------------------------------------------------------------------
(* Mentions of blocks.                                                     *)

LEMMA ReferenceIs ==
    ASSUME NEW level \in Nat, NEW block \in Int, NEW inode \in Nat, NEW offset \in Nat
    PROVE  Reference(level, block, inode, offset) \in Mentioned
BY DEF Mentioned, Reference

LEMMA ReferencesAre ==
    ASSUME NEW inode \in InodeLines
    PROVE  InodeReferences(inode) \in Seq(Mentioned)
<1> DEFINE refs == [k \in DOMAIN inode.block_address |->
                       Reference(AddressLevel(k - 1), inode.block_address[k],
                                 inode.inode_number, AddressOffset(k - 1))]
<1>1. inode.block_address \in Seq(Int) /\ inode.inode_number \in Nat
  BY DEF InodeLines
<1>2. /\ Len(inode.block_address) \in Nat
      /\ DOMAIN inode.block_address = 1 .. Len(inode.block_address)
      /\ \A k \in 1 .. Len(inode.block_address) : inode.block_address[k] \in Int
  BY <1>1
<1>3. ASSUME NEW k PROVE AddressLevel(k) \in Nat /\ AddressOffset(k) \in Nat
  BY DEF AddressLevel, AddressOffset
<1>4. ASSUME NEW k \in DOMAIN inode.block_address PROVE refs[k] \in Mentioned
  <2>1. AddressLevel(k - 1) \in Nat /\ AddressOffset(k - 1) \in Nat
    BY <1>3
  <2>2. QED
    <3>1. inode.block_address[k] \in Int
      BY <1>2
    <3>2. refs[k] = Reference(AddressLevel(k - 1), inode.block_address[k],
                              inode.inode_number, AddressOffset(k - 1))
      OBVIOUS
    <3> HIDE DEF refs
    <3>3. QED
      BY <1>1, <2>1, <3>1, <3>2, ReferenceIs
<1>5. refs \in Seq(Mentioned)
  <2>1. DOMAIN refs = 1 .. Len(inode.block_address)
    BY <1>2
  <2> HIDE DEF refs
  <2>2. refs = [k \in 1 .. Len(inode.block_address) |-> refs[k]]
    BY <2>1 DEF refs
  <2>3. [k \in 1 .. Len(inode.block_address) |-> refs[k]] \in Seq(Mentioned)
    BY <1>2, <1>4
  <2>4. QED
    BY <2>2, <2>3
<1> HIDE DEF refs
<1>6. Without(refs, {r \in ToSet(refs) : r.block = 0}) \in Seq(Mentioned)
  BY <1>5, WithoutType
<1>7. <<>> \in Seq(Mentioned)
  BY EmptySeq
<1>8. QED
  BY <1>6, <1>7 DEF InodeReferences, refs

LEMMA IndirectIs ==
    ASSUME NEW l \in IndirectLines
    PROVE  IndirectReference(l) \in Mentioned
BY DEF IndirectLines, IndirectReference, Reference, Mentioned

\* What the first m inodes and the first i pointers mention.
Filed(m, i) ==
    FlattenSeq([k \in 1 .. m |-> InodeReferences(my_inode[k])])
    \o [k \in 1 .. i |-> IndirectReference(my_indir[k])]

LEMMA PiecesAre ==
    ASSUME Facts, NEW m \in 0 .. Len(my_inode)
    PROVE  /\ [k \in 1 .. m |-> InodeReferences(my_inode[k])] \in Seq(Seq(Mentioned))
           /\ FlattenSeq([k \in 1 .. m |-> InodeReferences(my_inode[k])]) \in Seq(Mentioned)
<1>1. my_inode \in Seq(InodeLines) /\ Len(my_inode) \in Nat /\ DOMAIN my_inode = 1 .. Len(my_inode)
  BY DEF Facts
<1>2. ASSUME NEW k \in 1 .. m PROVE InodeReferences(my_inode[k]) \in Seq(Mentioned)
  <2>1. my_inode[k] \in InodeLines
    BY <1>1
  <2>2. QED
    BY <2>1, ReferencesAre
<1>3. [k \in 1 .. m |-> InodeReferences(my_inode[k])] \in Seq(Seq(Mentioned))
  BY <1>1, <1>2
<1>4. QED
  BY <1>3, FlattenAppend, EmptySeq

LEMMA TreesAre ==
    ASSUME Facts, NEW i \in 0 .. Len(my_indir)
    PROVE  /\ [k \in 1 .. i |-> IndirectReference(my_indir[k])] \in Seq(Mentioned)
           /\ Len([k \in 1 .. i |-> IndirectReference(my_indir[k])]) = i
<1>1. my_indir \in Seq(IndirectLines) /\ Len(my_indir) \in Nat /\ DOMAIN my_indir = 1 .. Len(my_indir)
  BY DEF Facts
<1>2. ASSUME NEW k \in 1 .. i PROVE IndirectReference(my_indir[k]) \in Mentioned
  <2>1. my_indir[k] \in IndirectLines
    BY <1>1
  <2>2. QED
    BY <2>1, IndirectIs
<1>3. QED
  BY <1>1, <1>2

LEMMA FiledType ==
    ASSUME Facts, NEW m \in 0 .. Len(my_inode), NEW i \in 0 .. Len(my_indir)
    PROVE  Filed(m, i) \in Seq(Mentioned)
BY PiecesAre, TreesAre, ConcatProperties DEF Filed

LEMMA FiledNone == Filed(0, 0) = <<>>
<1>1. [k \in 1 .. 0 |-> InodeReferences(my_inode[k])] = <<>>
  OBVIOUS
<1>2. [k \in 1 .. 0 |-> IndirectReference(my_indir[k])] = <<>>
  OBVIOUS
<1>3. FlattenSeq([k \in 1 .. 0 |-> InodeReferences(my_inode[k])]) = <<>>
  BY <1>1, FlattenEmpty
<1>4. <<>> \o <<>> = <<>>
  OBVIOUS
<1>5. QED
  BY <1>2, <1>3, <1>4 DEF Filed

LEMMA FiledInode ==
    ASSUME Facts, NEW m \in 0 .. Len(my_inode), m < Len(my_inode)
    PROVE  Filed(m + 1, 0) = Filed(m, 0) \o InodeReferences(my_inode[m + 1])
<1> DEFINE P(n) == [k \in 1 .. n |-> InodeReferences(my_inode[k])]
           r == InodeReferences(my_inode[m + 1])
           none == [k \in 1 .. 0 |-> IndirectReference(my_indir[k])]
<1>1. Len(my_inode) \in Nat /\ m \in Nat /\ m + 1 \in 0 .. Len(my_inode) /\ my_inode[m + 1] \in InodeLines
  BY DEF Facts
<1>2. /\ P(m) \in Seq(Seq(Mentioned)) /\ P(m + 1) \in Seq(Seq(Mentioned))
      /\ FlattenSeq(P(m)) \in Seq(Mentioned) /\ r \in Seq(Mentioned)
      /\ FlattenSeq(P(m + 1)) \in Seq(Mentioned)
  BY <1>1, PiecesAre, ReferencesAre
<1>3. Append(P(m), r) = P(m + 1)
  <2>1. Len(P(m)) = m /\ Len(P(m + 1)) = m + 1
    BY <1>1
  <2>2. /\ Append(P(m), r) \in Seq(Seq(Mentioned)) /\ Len(Append(P(m), r)) = m + 1
        /\ \A k \in 1 .. m : Append(P(m), r)[k] = P(m)[k]
        /\ Append(P(m), r)[m + 1] = r
    BY <1>1, <1>2, <2>1, AppendProperties
  <2>3. \A k \in 1 .. m + 1 : Append(P(m), r)[k] = P(m + 1)[k]
    <3>1. TAKE k \in 1 .. m + 1
    <3>2. CASE k \in 1 .. m
      BY <2>2, <3>2
    <3>3. CASE k = m + 1
      BY <2>2, <3>3
    <3>4. QED
      BY <1>1, <3>2, <3>3
  <2>4. QED
    BY <1>2, <2>1, <2>2, <2>3, SeqEqual
<1>4. FlattenSeq(P(m + 1)) = FlattenSeq(P(m)) \o r
  BY <1>2, <1>3, FlattenAppend
<1>5. none = <<>>
  OBVIOUS
<1> HIDE DEF P, r, none
<1>6. /\ FlattenSeq(P(m)) \o none = FlattenSeq(P(m))
      /\ FlattenSeq(P(m + 1)) \o none = FlattenSeq(P(m + 1))
  BY <1>2, <1>5, ConcatEmptySeq
<1>7. QED
  BY <1>4, <1>6 DEF Filed, P, r, none

LEMMA FiledIndirect ==
    ASSUME Facts, NEW m \in 0 .. Len(my_inode), NEW i \in 0 .. Len(my_indir), i < Len(my_indir)
    PROVE  Filed(m, i + 1) = Append(Filed(m, i), IndirectReference(my_indir[i + 1]))
<1> DEFINE f == FlattenSeq([k \in 1 .. m |-> InodeReferences(my_inode[k])])
           P(n) == [k \in 1 .. n |-> IndirectReference(my_indir[k])]
           r == IndirectReference(my_indir[i + 1])
<1>1. Len(my_indir) \in Nat /\ i \in Nat /\ i + 1 \in 0 .. Len(my_indir) /\ my_indir[i + 1] \in IndirectLines
  BY DEF Facts
<1>2. /\ f \in Seq(Mentioned) /\ r \in Mentioned
      /\ P(i) \in Seq(Mentioned) /\ Len(P(i)) = i
      /\ P(i + 1) \in Seq(Mentioned) /\ Len(P(i + 1)) = i + 1
  BY <1>1, PiecesAre, TreesAre, IndirectIs
<1>3. Append(P(i), r) = P(i + 1)
  <2>1. /\ Append(P(i), r) \in Seq(Mentioned) /\ Len(Append(P(i), r)) = i + 1
        /\ \A k \in 1 .. i : Append(P(i), r)[k] = P(i)[k]
        /\ Append(P(i), r)[i + 1] = r
    BY <1>1, <1>2, AppendProperties
  <2>2. \A k \in 1 .. i + 1 : Append(P(i), r)[k] = P(i + 1)[k]
    <3>1. TAKE k \in 1 .. i + 1
    <3>2. CASE k \in 1 .. i
      BY <2>1, <3>2
    <3>3. CASE k = i + 1
      BY <2>1, <3>3
    <3>4. QED
      BY <1>1, <3>2, <3>3
  <2>3. QED
    BY <1>2, <2>1, <2>2, SeqEqual
<1> HIDE DEF f, P, r
<1>4. f \o Append(P(i), r) = Append(f \o P(i), r)
  BY <1>2, Appended
<1>5. QED
  BY <1>3, <1>4 DEF Filed, f, P, r

LEMMA FiledAll ==
    ASSUME Facts
    PROVE  References = Filed(Len(my_inode), Len(my_indir))
<1>1. DOMAIN my_inode = 1 .. Len(my_inode) /\ DOMAIN my_indir = 1 .. Len(my_indir)
  BY DEF Facts
<1>2. QED
  BY <1>1 DEF References, Filed

-----------------------------------------------------------------------------
(* The invariant.  The audit makes a number of turns of each of its loops; *)
(* what it knows is said of the lines it has been through.                 *)

BlockLoops == {"blocks", "indirect", "duplicates", "unreferenced"}
Loops == BlockLoops \cup {"inodes", "missing", "parents", "entries", "links"}
Ends == {"exit0", "exit1", "exit2"}

BlockTurns == IF audit = "blocks" THEN turn ELSE Len(my_inode)
IndirectTurns ==
    IF audit = "blocks" THEN 0 ELSE IF audit = "indirect" THEN turn ELSE Len(my_indir)
UnreferencedTurns ==
    IF audit \in {"blocks", "indirect", "duplicates"} THEN 0
    ELSE IF audit = "unreferenced" THEN turn ELSE my_group.bid_group - start_block
InodeTurns ==
    IF audit \in BlockLoops THEN 0 ELSE IF audit = "inodes" THEN turn ELSE Len(my_inode)
MissingTurns ==
    IF audit \in BlockLoops \cup {"inodes"} THEN 0
    ELSE IF audit = "missing" THEN turn ELSE my_sp.num_inodes - my_sp.first_inode
EntryTurns ==
    IF audit = "entries" THEN turn
    ELSE IF audit \in {"links", "exit0", "exit2"} THEN Len(my_dir) ELSE 0
LinkTurns ==
    IF audit = "links" THEN turn
    ELSE IF audit \in {"exit0", "exit2"} THEN Len(my_allocated_inodes) ELSE 0

Types ==
    /\ audit \in Loops \cup Ends
    /\ turn \in Nat
    /\ audit = "blocks" => turn <= Len(my_inode)
    /\ audit = "indirect" => turn <= Len(my_indir)
    /\ audit = "inodes" => turn <= Len(my_inode)
    /\ audit = "entries" => turn <= Len(my_dir)
    /\ audit = "links" => turn <= Len(my_allocated_inodes)
    /\ printed \in Seq(Complaints)
    /\ my_error \in BOOLEAN
    /\ block_dic \in Seq(Mentioned)
    /\ my_allocated_inodes \in Seq(InodeLines)
    /\ my_dict_inode \in [DOMAIN my_dict_inode -> Nat]

\* my_error is what the complaints so far make the exit code.
Quiet == {"DUPLICATE", "'..'"}
ErrorInv ==
    /\ my_error <=> ~(Whats(printed) \subseteq Quiet)
    /\ audit \in {"exit0", "exit2"} => audit = IF my_error THEN "exit2" ELSE "exit0"

\* The inodes described by the first m lines, and by those that the loop over
\* inodes has been through.
UsedIn(m) == {my_inode[k].inode_number : k \in {j \in 1 .. m : my_inode[j].file_type # "0"}}
UnusedIn(m) == {my_inode[k].inode_number : k \in {j \in 1 .. m : my_inode[j].file_type = "0"}}
SeenUsed == UsedIn(InodeTurns)
SeenUnused == UnusedIn(InodeTurns)

NotFree == {"UNALLOCATED_INODE_NOT_ON_FREELIST"}
SaidInUse == {"ALLOCATED_INODE_ON_FREELIST"}

\* The free list has been put right as far as the audit has come.
FreeInv ==
    /\ my_ifree \in Seq(Nat)
    /\ IsInjective(my_ifree)
    /\ ToSet(my_ifree) = (Free \ SeenUsed) \cup SeenUnused \cup AboutsOf(printed, NotFree)
    /\ ToSet(my_allocated_inodes) =
          {my_inode[k] : k \in {j \in 1 .. InodeTurns : my_inode[j].file_type # "0"}}

\* An inode is only complained of when its line, or the lack of one, is seen.
OnceInv ==
    /\ Once(printed, NotFree \cup SaidInUse)
    /\ AboutsOf(printed, SaidInUse) \subseteq SeenUsed \cup SeenUnused
    /\ AboutsOf(printed, NotFree) \cap Used = {}
    /\ audit \in BlockLoops \cup {"inodes"} =>
          AboutsOf(printed, NotFree) \subseteq SeenUsed \cup SeenUnused

EntryInv ==
    audit # "exit1" =>
        AboutsOf(printed, {"UNALLOCATED_INODE"}) =
            {my_dir[k] : k \in {j \in 1 .. EntryTurns :
                                   my_dir[j].entry_reference_inode \in ToSet(my_ifree)}}

\* The dictionary of parents has each inode that a good entry names.
ParentInv ==
    audit = "entries" =>
        /\ 2 \in DOMAIN my_parent_inode /\ my_parent_inode[2] = 2
        /\ \A n \in Nat : GoodNaming(n) # {} => n \in DOMAIN my_parent_inode
        /\ \A n \in DOMAIN my_parent_inode : n # 2 =>
              \E k \in Naming(n) : my_parent_inode[n] = my_dir[k].parent_inode

CrashInv ==
    audit = "exit1" =>
        \E e \in ToSet(my_dir) :
            /\ e.entry_name = ".." /\ e.parent_inode # 2
            /\ Naming(e.parent_inode) = {} \/ e.parent_inode \notin Used

\* What has been gone through without a complaint is as it should be.
FineMention(r) == r.block \in (start_block .. my_sp.num_blocks) \ my_bfree
Covered(b) == b \in my_bfree \/ \E r \in ToSet(block_dic) : r.block = b

SilentBlocks ==
    /\ block_dic = Filed(BlockTurns, IndirectTurns)
    /\ \A r \in ToSet(block_dic) : FineMention(r)
    /\ audit \notin {"blocks", "indirect", "duplicates"} =>
          \A j, k \in DOMAIN block_dic : block_dic[j].block = block_dic[k].block => j = k
    /\ \A b \in start_block .. start_block + UnreferencedTurns - 1 : Covered(b)

SilentInodes ==
    /\ SeenUsed \cap Free = {} /\ SeenUnused \subseteq Free
    /\ \A n \in my_sp.first_inode .. my_sp.first_inode + MissingTurns - 1 : n \in Used \cup Free

FineEntry(e) ==
    /\ e.entry_reference_inode \notin Free
    /\ ValidInode(e.entry_reference_inode)
    /\ e.entry_name = "." => e.entry_reference_inode = e.parent_inode
    /\ e.entry_name = ".." =>
          IF e.parent_inode = 2 THEN e.entry_reference_inode = 2
          ELSE \E k \in Naming(e.parent_inode) : my_dir[k].parent_inode = e.entry_reference_inode

\* The entries that name n among the first m.
LinksIn(n, m) == {k \in 1 .. m : my_dir[k].entry_reference_inode = n}

SilentEntries ==
    audit # "exit1" =>
        /\ \A k \in 1 .. EntryTurns : FineEntry(my_dir[k])
        /\ \A n \in Nat : LinksTo(n) = Cardinality(LinksIn(n, EntryTurns))
        /\ \A k \in 1 .. LinkTurns :
              LinksTo(my_allocated_inodes[k].inode_number) = my_allocated_inodes[k].linkage_counts

SilentInv == printed = <<>> => SilentBlocks /\ SilentInodes /\ SilentEntries

\* Of a consistent file system the audit has said nothing yet.
Sane == Consistent(my_sp.num_blocks - 1, {}) /\ Tree
SaneInv == Sane => printed = <<>> /\ audit # "exit1"

RunInv ==
    /\ Facts /\ Types /\ ErrorInv /\ FreeInv /\ OnceInv /\ EntryInv /\ ParentInv /\ CrashInv
    /\ SilentInv /\ SaneInv

AuditInv ==
    /\ Summarised
    /\ audit = "parse" => AuditInit
    /\ audit # "parse" /\ ~Readable => audit = "exit1" /\ printed = <<>>
    /\ audit # "parse" /\ Readable => RunInv

-----------------------------------------------------------------------------
(* What stays when the summary stays.                                      *)

LEMMA Frame ==
    ASSUME UNCHANGED <<csv, summary>>
    PROVE  /\ Summarised' <=> Summarised
           /\ Readable' <=> Readable
           /\ Facts' <=> Facts
           /\ Sane' <=> Sane
           /\ Free' = Free /\ Used' = Used /\ Unused' = Unused
           /\ start_block' = start_block
           /\ \A m : UsedIn(m)' = UsedIn(m) /\ UnusedIn(m)' = UnusedIn(m)
           /\ \A n : Naming(n)' = Naming(n)
           /\ \A n : ValidInode(n)' <=> ValidInode(n)
           /\ \A n, m : LinksIn(n, m)' = LinksIn(n, m)
           /\ \A m, i : Filed(m, i)' = Filed(m, i)
           /\ \A r : FineMention(r)' <=> FineMention(r)
           /\ \A e : FineEntry(e)' <=> FineEntry(e)
<1>1. /\ csv' = csv /\ my_sp' = my_sp /\ my_group' = my_group
      /\ my_bfree' = my_bfree /\ my_inode' = my_inode /\ my_dir' = my_dir /\ my_indir' = my_indir
  BY DEF summary
<1>2. \A kind : Lines(kind)' = Lines(kind) /\ NumberFields(kind)' = NumberFields(kind)
  BY <1>1 DEF Lines, NumberFields
<1>3. Readable' <=> Readable
  BY <1>1 DEF Readable
<1>4. Summarised' <=> Summarised
  BY <1>1, <1>2, <1>3 DEF Summarised
<1>5. \A n : ValidInode(n)' <=> ValidInode(n)
  BY <1>1 DEF ValidInode
<1>6. Facts' <=> Facts
  BY <1>1, <1>5 DEF Facts
<1>7. Free' = Free /\ Used' = Used /\ Unused' = Unused
  BY <1>1, <1>2 DEF Free, Used, Unused
<1>8. start_block' = start_block
  BY <1>1 DEF start_block
<1>9. \A m : UsedIn(m)' = UsedIn(m) /\ UnusedIn(m)' = UnusedIn(m)
  BY <1>1 DEF UsedIn, UnusedIn
<1>10. \A n : Naming(n)' = Naming(n)
  BY <1>1 DEF Naming
<1>11. \A n, m : LinksIn(n, m)' = LinksIn(n, m)
  BY <1>1 DEF LinksIn
<1>12. References' = References /\ \A m, i : Filed(m, i)' = Filed(m, i)
  BY <1>1 DEF Filed, References, InodeReferences
<1>13. \A r : FineMention(r)' <=> FineMention(r)
  BY <1>1, <1>8 DEF FineMention
<1>14. \A e : FineEntry(e)' <=> FineEntry(e)
  BY <1>1, <1>5, <1>7, <1>10 DEF FineEntry
<1>15. Sane' <=> Sane
  <2>1. BlocksConsistent(my_sp.num_blocks - 1)' <=> BlocksConsistent(my_sp.num_blocks - 1)
    BY <1>1, <1>8, <1>12 DEF BlocksConsistent
  <2>2. InodesConsistent({})' <=> InodesConsistent({})
    BY <1>1, <1>7 DEF InodesConsistent
  <2>3. DirectoriesConsistent({})' <=> DirectoriesConsistent({})
    BY <1>1, <1>7, <1>10 DEF DirectoriesConsistent
  <2>4. Tree' <=> Tree
    BY <1>1, <1>10 DEF Tree
  <2>5. QED
    BY <2>1, <2>2, <2>3, <2>4 DEF Sane, Consistent
<1>16. QED
  BY <1>3, <1>4, <1>5, <1>6, <1>7, <1>8, <1>9, <1>10, <1>11, <1>12, <1>13, <1>14, <1>15

-----------------------------------------------------------------------------
(* The numbers that the summary's lines are about.                         *)

LEMMA LastTurn == \A a, t \in Nat : \A m \in a .. a + t : m \in a .. a + t - 1 \/ m = a + t
OBVIOUS

LEMMA TurnWithin == \A a, t, b \in Nat : t < b - a => a + t \in a .. b
OBVIOUS

LEMMA Difference == \A a, b \in Nat : a - b \in Int
OBVIOUS

LEMMA Numerals ==
    ASSUME Facts
    PROVE  /\ my_sp.num_blocks \in Nat /\ my_sp.num_inodes \in Nat /\ my_sp.first_inode \in Nat
           /\ my_group.bid_group \in Nat
           /\ start_block \in Nat
           /\ Len(my_inode) \in Nat /\ DOMAIN my_inode = 1 .. Len(my_inode)
           /\ Len(my_dir) \in Nat /\ DOMAIN my_dir = 1 .. Len(my_dir)
           /\ Len(my_indir) \in Nat /\ DOMAIN my_indir = 1 .. Len(my_indir)
<1>1. /\ my_sp.num_blocks \in Nat /\ my_sp.num_inodes \in Nat /\ my_sp.first_inode \in Nat
      /\ my_sp.inode_size \in Nat /\ my_sp.block_size \in Nat \ {0}
      /\ my_group.bid_group \in Nat /\ my_group.iid_group \in Nat
      /\ my_group.first_block_inode \in Nat
  BY DEF Facts, SuperLines, GroupLines
<1>2. ASSUME NEW a \in Nat, NEW b \in Nat, NEW c \in Nat \ {0} PROVE (a * b) \div c \in Nat
  <2>1. a * b \in Nat
    OBVIOUS
  <2> DEFINE d == a * b
  <2> HIDE DEF d
  <2>2. d \in Nat => d \div c \in Nat
    OBVIOUS
  <2>3. QED
    BY <2>1, <2>2 DEF d
<1>3. (my_sp.inode_size * my_group.iid_group) \div my_sp.block_size \in Nat
  BY <1>1, <1>2
<1> DEFINE q == (my_sp.inode_size * my_group.iid_group) \div my_sp.block_size
<1> HIDE DEF q
<1>4. my_group.first_block_inode + q \in Nat
  BY <1>1, <1>3 DEF q
<1>5. start_block \in Nat
  BY <1>4 DEF start_block, q
<1>6. my_inode \in Seq(InodeLines) /\ my_dir \in Seq(EntryLines) /\ my_indir \in Seq(IndirectLines)
  BY DEF Facts
<1>7. /\ Len(my_inode) \in Nat /\ DOMAIN my_inode = 1 .. Len(my_inode)
      /\ Len(my_dir) \in Nat /\ DOMAIN my_dir = 1 .. Len(my_dir)
      /\ Len(my_indir) \in Nat /\ DOMAIN my_indir = 1 .. Len(my_indir)
  BY <1>6
<1>8. QED
  BY <1>1, <1>5, <1>7

LEMMA LineOfInode ==
    ASSUME Facts, NEW k \in 1 .. Len(my_inode)
    PROVE  /\ my_inode[k] \in InodeLines /\ my_inode[k] \in ToSet(my_inode)
           /\ my_inode[k].inode_number \in Nat
           /\ ValidInode(my_inode[k].inode_number)
<1>1. k \in DOMAIN my_inode /\ my_inode[k] \in InodeLines
  BY DEF Facts
<1>2. my_inode[k].inode_number \in Nat
  BY <1>1 DEF InodeLines
<1>3. QED
  BY <1>1, <1>2 DEF Facts, ToSet

LEMMA LineOfEntry ==
    ASSUME Facts, NEW k \in 1 .. Len(my_dir)
    PROVE  /\ my_dir[k] \in EntryLines /\ my_dir[k] \in ToSet(my_dir)
           /\ my_dir[k].entry_reference_inode \in Nat
           /\ my_dir[k].parent_inode \in Nat
<1>1. k \in DOMAIN my_dir /\ my_dir[k] \in EntryLines
  BY DEF Facts
<1>2. QED
  BY <1>1 DEF EntryLines, ToSet

LEMMA UsedInAll ==
    ASSUME Facts
    PROVE  UsedIn(Len(my_inode)) = Used /\ UnusedIn(Len(my_inode)) = Unused
<1>1. DOMAIN my_inode = 1 .. Len(my_inode)
  BY Numerals
<1>2. QED
  BY <1>1 DEF UsedIn, UnusedIn, Used, Unused, ToSet

LEMMA UsedInNone == UsedIn(0) = {} /\ UnusedIn(0) = {}
BY DEF UsedIn, UnusedIn

LEMMA UsedInSome ==
    ASSUME Facts, NEW m \in 0 .. Len(my_inode)
    PROVE  UsedIn(m) \subseteq Used /\ UnusedIn(m) \subseteq Unused
<1>1. \A k \in 1 .. m : k \in DOMAIN my_inode
  BY Numerals
<1>2. QED
  BY <1>1 DEF UsedIn, UnusedIn, Used, Unused, ToSet

\* A line is about an inode that no other line is about.
LEMMA UsedInMore ==
    ASSUME Facts, NEW m \in 0 .. Len(my_inode), m < Len(my_inode)
    PROVE  LET n == my_inode[m + 1].inode_number
               used == my_inode[m + 1].file_type # "0"
           IN  /\ UsedIn(m + 1) = IF used THEN UsedIn(m) \cup {n} ELSE UsedIn(m)
               /\ UnusedIn(m + 1) = IF used THEN UnusedIn(m) ELSE UnusedIn(m) \cup {n}
               /\ n \notin UsedIn(m) /\ n \notin UnusedIn(m)
               /\ used => n \in Used
               /\ ~used => n \in Unused
<1>1. Len(my_inode) \in Nat /\ DOMAIN my_inode = 1 .. Len(my_inode) /\ m \in Nat
  BY Numerals
<1>2. 1 .. m + 1 = 1 .. m \cup {m + 1} /\ m + 1 \in DOMAIN my_inode /\ m + 1 \notin 1 .. m
  BY <1>1
<1>3. \A k \in 1 .. m : k \in DOMAIN my_inode /\ k # m + 1
  BY <1>1
<1>4. \A k \in 1 .. m : my_inode[k].inode_number # my_inode[m + 1].inode_number
  BY <1>2, <1>3 DEF Facts
<1>5. my_inode[m + 1] \in ToSet(my_inode)
  BY <1>2 DEF ToSet
<1>6. QED
  BY <1>2, <1>4, <1>5 DEF UsedIn, UnusedIn, Used, Unused

LEMMA UsedOrNot ==
    ASSUME Facts
    PROVE  Used \cap Unused = {} /\ Used \subseteq Nat /\ \A n \in Used : ValidInode(n)
<1>1. \A l \in ToSet(my_inode) : \E k \in 1 .. Len(my_inode) : l = my_inode[k]
  BY Numerals DEF ToSet
<1>2. \A l \in ToSet(my_inode) : l.inode_number \in Nat /\ ValidInode(l.inode_number)
  BY <1>1, LineOfInode
<1>3. \A l, m \in ToSet(my_inode) : l.inode_number = m.inode_number => l = m
  BY DEF Facts, ToSet
<1>4. QED
  BY <1>2, <1>3 DEF Used, Unused

-----------------------------------------------------------------------------
(* What a step tells: the complaints q.                                    *)

Told(q) == q \in Seq(Complaints) /\ printed' = printed \o q

LEMMA ToldMore ==
    ASSUME Types, NEW q, Told(q)
    PROVE  /\ printed' \in Seq(Complaints)
           /\ Whats(printed') = Whats(printed) \cup Whats(q)
           /\ \A kinds : AboutsOf(printed', kinds) = AboutsOf(printed, kinds) \cup AboutsOf(q, kinds)
           /\ printed' = <<>> <=> printed = <<>> /\ q = <<>>
<1>1. printed \in Seq(Complaints) /\ q \in Seq(Complaints) /\ printed' = printed \o q
  BY DEF Types, Told
<1>2. printed' \in Seq(Complaints)
  BY <1>1, ConcatProperties
<1>3. ASSUME NEW kinds
      PROVE  /\ Whats(printed') = Whats(printed) \cup Whats(q)
             /\ AboutsOf(printed', kinds) = AboutsOf(printed, kinds) \cup AboutsOf(q, kinds)
  BY <1>1, WhatsConcat
<1>4. printed' = <<>> <=> printed = <<>> /\ q = <<>>
  <2>1. /\ Len(printed) \in Nat /\ Len(q) \in Nat /\ Len(printed \o q) = Len(printed) + Len(q)
        /\ printed \o q \in Seq(Complaints)
    BY <1>1, ConcatProperties
  <2>2. /\ printed \o q = <<>> <=> Len(printed \o q) = 0
        /\ printed = <<>> <=> Len(printed) = 0
        /\ q = <<>> <=> Len(q) = 0
    BY <1>1, <2>1, EmptySeq
  <2>3. QED
    BY <1>1, <2>1, <2>2
<1>5. QED
  BY <1>2, <1>3, <1>4

LEMMA ToldNothing ==
    ASSUME Types, printed' = printed
    PROVE  Told(<<>>)
<1>1. printed \o <<>> = printed /\ <<>> \in Seq(Complaints)
  BY ConcatEmptySeq, EmptySeq DEF Types
<1>2. QED
  BY <1>1 DEF Told

Says(q, what, about) == q = <<Complaint(what, about)>>

LEMMA ToldOne ==
    ASSUME NEW about \in Int \cup CsvLines \cup Mentioned, NEW what \in Sayings,
           NEW q, Says(q, what, about)
    PROVE  /\ q \in Seq(Complaints) /\ <<>> \in Seq(Complaints) /\ q # <<>>
           /\ Whats(q) = {what}
           /\ \A kinds : AboutsOf(q, kinds) = IF what \in kinds THEN {about} ELSE {}
<1> DEFINE c == Complaint(what, about)
           one == <<c>>
<1>1. c \in Complaints
  BY DEF Complaint, Complaints
<1>2. c.what = what /\ c.about = about
  BY DEF Complaint
<1> HIDE DEF c
<1>3. one \in Seq(Complaints) /\ <<>> \in Seq(Complaints) /\ one # <<>>
  BY <1>1, EmptySeq
<1>4. /\ Whats(<<c>>) = {c.what}
      /\ \A kinds : AboutsOf(<<c>>, kinds) = IF c.what \in kinds THEN {c.about} ELSE {}
  BY WhatsOne
<1>5. q = one
  BY DEF c, Says
<1>6. QED
  BY <1>2, <1>3, <1>4, <1>5

About == Int \cup CsvLines \cup Mentioned
SaysAtMost(q, r, what, about) == Says(r, what, about) /\ (q = <<>> \/ q = r)

LEMMA ToldMaybe ==
    ASSUME NEW about \in About, NEW what \in Sayings,
           NEW r, NEW q, SaysAtMost(q, r, what, about)
    PROVE  /\ q \in Seq(Complaints) /\ Whats(q) \subseteq {what}
           /\ \A kinds : AboutsOf(q, kinds) \subseteq {about}
           /\ \A kinds : AboutsOf(q, kinds) = IF q = <<>> \/ what \notin kinds THEN {} ELSE {about}
           /\ r # <<>>
<1>1. /\ r \in Seq(Complaints) /\ <<>> \in Seq(Complaints) /\ r # <<>>
      /\ Whats(r) = {what}
      /\ \A kinds : AboutsOf(r, kinds) = IF what \in kinds THEN {about} ELSE {}
  BY ToldOne DEF About, SaysAtMost
<1>2. Whats(<<>>) = {} /\ \A kinds : AboutsOf(<<>>, kinds) = {}
  BY WhatsNone
<1>3. QED
  BY <1>1, <1>2 DEF SaysAtMost

\* Complaints that are not quiet make the exit code 2.
LEMMA ToldError ==
    ASSUME Types, ErrorInv, NEW q, Told(q),
           my_error' = (my_error \/ q # <<>>), Whats(q) \cap Quiet = {},
           audit' \in {"exit0", "exit2"} => audit' = IF my_error' THEN "exit2" ELSE "exit0"
    PROVE  ErrorInv' /\ my_error' \in BOOLEAN
<1>1. q = <<>> <=> Whats(q) = {}
  <2>1. q = <<>> <=> ToSet(q) = {}
    BY RangeEmpty DEF Told
  <2>2. QED
    BY <2>1 DEF Whats
<1>2. Whats(printed') = Whats(printed) \cup Whats(q)
  BY ToldMore
<1>3. my_error' <=> ~(Whats(printed') \subseteq Quiet)
  BY <1>1, <1>2 DEF ErrorInv
<1>4. my_error' \in BOOLEAN
  BY DEF Types
<1>5. QED
  BY <1>3, <1>4 DEF ErrorInv

-----------------------------------------------------------------------------
(* What a step leaves as it was.                                           *)

Early == {"blocks", "indirect", "duplicates"}

LEMMA Shorter ==
    ASSUME NEW a \in Int, NEW m \in Int, NEW n \in Int, m <= n
    PROVE  a .. a + m - 1 \subseteq a .. a + n - 1
OBVIOUS

LEMMA BlocksStill ==
    ASSUME RunInv, UNCHANGED <<csv, summary>>, UNCHANGED block_dic, NEW q, Told(q),
           BlockTurns' = BlockTurns, IndirectTurns' = IndirectTurns,
           UnreferencedTurns \in Int, UnreferencedTurns' \in Int,
           UnreferencedTurns' <= UnreferencedTurns,
           audit \in Early => audit' \in Early
    PROVE  printed' = <<>> => SilentBlocks'
<1>1. SUFFICES ASSUME printed' = <<>> PROVE SilentBlocks'
  OBVIOUS
<1>2. Facts /\ Types /\ SilentInv
  BY DEF RunInv
<1>3. printed = <<>>
  BY <1>1, <1>2, ToldMore
<1>4. SilentBlocks
  BY <1>2, <1>3 DEF SilentInv
<1>5. /\ start_block' = start_block
      /\ \A m, i : Filed(m, i)' = Filed(m, i)
      /\ \A r : FineMention(r)' <=> FineMention(r)
      /\ my_bfree' = my_bfree
  BY Frame DEF summary
<1>6. block_dic' = Filed(BlockTurns, IndirectTurns)'
  BY <1>4, <1>5 DEF SilentBlocks
<1>7. \A r \in ToSet(block_dic)' : FineMention(r)'
  BY <1>4, <1>5 DEF SilentBlocks
<1>8. audit' \notin Early =>
          \A j, k \in DOMAIN block_dic' : block_dic'[j].block = block_dic'[k].block => j = k
  BY <1>4 DEF SilentBlocks, Early
<1>9. \A b : Covered(b)' <=> Covered(b)
  BY <1>5 DEF Covered
<1>10. start_block \in Nat
  BY <1>2, Numerals
<1>11. \A b \in start_block .. start_block + UnreferencedTurns' - 1 : Covered(b)
  <2>1. PICK a \in Int, m \in Int, n \in Int :
            a = start_block /\ m = UnreferencedTurns' /\ n = UnreferencedTurns
    BY <1>10
  <2>2. m <= n
    BY <2>1
  <2>3. a .. a + m - 1 \subseteq a .. a + n - 1
    BY <2>2, Shorter
  <2>4. \A b \in a .. a + n - 1 : Covered(b)
    BY <1>4, <2>1 DEF SilentBlocks
  <2>5. QED
    BY <2>1, <2>3, <2>4
<1>12. QED
  BY <1>5, <1>6, <1>7, <1>8, <1>9, <1>11 DEF SilentBlocks, Early

LEMMA InodesStill ==
    ASSUME RunInv, UNCHANGED <<csv, summary>>, UNCHANGED <<my_ifree, my_allocated_inodes>>,
           NEW q, Told(q), Whats(q) \cap (NotFree \cup SaidInUse) = {},
           InodeTurns' = InodeTurns,
           MissingTurns \in Int, MissingTurns' \in Int, MissingTurns' <= MissingTurns,
           audit' \in BlockLoops \cup {"inodes"} => audit \in BlockLoops \cup {"inodes"}
    PROVE  FreeInv' /\ OnceInv' /\ (printed' = <<>> => SilentInodes')
<1>1. Facts /\ Types /\ FreeInv /\ OnceInv /\ SilentInv
  BY DEF RunInv
<1>2. /\ Free' = Free /\ Used' = Used /\ Unused' = Unused
      /\ \A m : UsedIn(m)' = UsedIn(m) /\ UnusedIn(m)' = UnusedIn(m)
      /\ my_inode' = my_inode /\ my_sp' = my_sp
  BY Frame DEF summary
<1>3. SeenUsed' = SeenUsed /\ SeenUnused' = SeenUnused
  BY <1>2 DEF SeenUsed, SeenUnused
<1>4. /\ Whats(q) \cap NotFree = {} /\ Whats(q) \cap SaidInUse = {}
      /\ AboutsOf(q, NotFree) = {} /\ AboutsOf(q, SaidInUse) = {}
  BY AboutsNone
<1>5. \A kinds : AboutsOf(printed', kinds) = AboutsOf(printed, kinds) \cup AboutsOf(q, kinds)
  BY <1>1, ToldMore
<1>6. /\ AboutsOf(printed', NotFree) = AboutsOf(printed, NotFree)
      /\ AboutsOf(printed', SaidInUse) = AboutsOf(printed, SaidInUse)
  BY <1>4, <1>5
<1>7. FreeInv'
  BY <1>1, <1>2, <1>3, <1>6 DEF FreeInv, NotFree
<1>8. Once(printed', NotFree \cup SaidInUse)
  <2>1. Once(printed, NotFree \cup SaidInUse)
    BY <1>1 DEF OnceInv
  <2>2. printed \in Seq(Complaints) /\ q \in Seq(Complaints) /\ printed' = printed \o q
    BY <1>1 DEF Types, Told
  <2>3. QED
    BY <2>1, <2>2, OnceStill
<1>9. OnceInv'
  BY <1>1, <1>2, <1>3, <1>6, <1>8 DEF OnceInv, NotFree, SaidInUse, BlockLoops
<1>10. ASSUME printed' = <<>> PROVE SilentInodes'
  <2>1. printed = <<>>
    BY <1>1, <1>10, ToldMore
  <2>2. SilentInodes
    BY <1>1, <2>1 DEF SilentInv
  <2>3. my_sp.first_inode \in Nat
    BY <1>1, Numerals
  <2>4. \A n \in my_sp.first_inode .. my_sp.first_inode + MissingTurns' - 1 : n \in Used \cup Free
    BY <2>2, <2>3 DEF SilentInodes
  <2>5. QED
    BY <1>2, <1>3, <2>2, <2>4 DEF SilentInodes
<1>11. QED
  BY <1>7, <1>9, <1>10

LEMMA EntriesStill ==
    ASSUME RunInv, UNCHANGED <<csv, summary>>, UNCHANGED my_dict_inode,
           NEW q, Told(q), Whats(q) \cap {"UNALLOCATED_INODE"} = {},
           audit # "exit1", audit' # "exit1",
           EntryTurns' = EntryTurns, EntryTurns = 0 \/ my_ifree' = my_ifree,
           LinkTurns' = LinkTurns, LinkTurns = 0 \/ my_allocated_inodes' = my_allocated_inodes
    PROVE  EntryInv' /\ CrashInv' /\ (printed' = <<>> => SilentEntries')
<1>1. Facts /\ Types /\ EntryInv /\ SilentInv
  BY DEF RunInv
<1>2. /\ \A n, m : LinksIn(n, m)' = LinksIn(n, m)
      /\ \A e : FineEntry(e)' <=> FineEntry(e)
      /\ my_dir' = my_dir
  BY Frame DEF summary
<1>3. AboutsOf(q, {"UNALLOCATED_INODE"}) = {}
  BY AboutsNone
<1>4. \A kinds : AboutsOf(printed', kinds) = AboutsOf(printed, kinds) \cup AboutsOf(q, kinds)
  BY <1>1, ToldMore
<1>5. AboutsOf(printed', {"UNALLOCATED_INODE"}) = AboutsOf(printed, {"UNALLOCATED_INODE"})
  BY <1>3, <1>4
<1>6. EntryInv'
  <2>1. AboutsOf(printed, {"UNALLOCATED_INODE"}) =
            {my_dir[k] : k \in {j \in 1 .. EntryTurns :
                                   my_dir[j].entry_reference_inode \in ToSet(my_ifree)}}
    BY <1>1 DEF EntryInv
  <2>2. CASE EntryTurns = 0
    BY <1>2, <1>5, <2>1, <2>2 DEF EntryInv
  <2>3. CASE my_ifree' = my_ifree
    BY <1>2, <1>5, <2>1, <2>3 DEF EntryInv
  <2>4. QED
    BY <2>2, <2>3
<1>7. CrashInv'
  BY DEF CrashInv
<1>8. ASSUME printed' = <<>> PROVE SilentEntries'
  <2>1. printed = <<>>
    BY <1>1, <1>8, ToldMore
  <2>2. SilentEntries
    BY <1>1, <2>1 DEF SilentInv
  <2>3. \A n : LinksTo(n)' = LinksTo(n)
    BY DEF LinksTo
  <2>4. \A k \in 1 .. EntryTurns' : FineEntry(my_dir[k])'
    BY <1>2, <2>2 DEF SilentEntries
  <2>5. \A n \in Nat : LinksTo(n)' = Cardinality(LinksIn(n, EntryTurns)')
    BY <1>2, <2>2, <2>3 DEF SilentEntries
  <2>6. \A k \in 1 .. LinkTurns' :
            LinksTo(my_allocated_inodes[k].inode_number)' = my_allocated_inodes'[k].linkage_counts
    <3>1. CASE LinkTurns = 0
      BY <3>1
    <3>2. CASE my_allocated_inodes' = my_allocated_inodes
      BY <2>2, <2>3, <3>2 DEF SilentEntries
    <3>3. QED
      BY <3>1, <3>2
  <2>7. QED
    BY <1>2, <2>4, <2>5, <2>6 DEF SilentEntries
<1>9. QED
  BY <1>6, <1>7, <1>8

LEMMA SaneStill ==
    ASSUME RunInv, UNCHANGED <<csv, summary>>, NEW q, Told(q),
           Sane => q = <<>> /\ audit' # "exit1"
    PROVE  Facts' /\ SaneInv'
<1>1. Facts /\ Types /\ SaneInv
  BY DEF RunInv
<1>2. (Facts' <=> Facts) /\ (Sane' <=> Sane)
  BY Frame
<1>3. Sane => printed' = <<>>
  BY <1>1, ToldMore DEF SaneInv
<1>4. QED
  BY <1>1, <1>2, <1>3 DEF SaneInv

-----------------------------------------------------------------------------
(* From one loop to the next.                                              *)

LEMMA TurnsAre ==
    ASSUME Facts, Types
    PROVE  /\ UnreferencedTurns \in Int /\ MissingTurns \in Int
           /\ BlockTurns \in 0 .. Len(my_inode) /\ IndirectTurns \in 0 .. Len(my_indir)
           /\ InodeTurns \in 0 .. Len(my_inode) /\ EntryTurns \in 0 .. Len(my_dir)
           /\ LinkTurns \in 0 .. Len(my_allocated_inodes)
           /\ my_allocated_inodes \in Seq(InodeLines) /\ Len(my_allocated_inodes) \in Nat
<1>1. /\ my_sp.num_inodes \in Nat /\ my_sp.first_inode \in Nat /\ my_group.bid_group \in Nat
      /\ start_block \in Nat
      /\ Len(my_inode) \in Nat /\ Len(my_dir) \in Nat /\ Len(my_indir) \in Nat
  BY Numerals
<1>2. turn \in Nat
  BY DEF Types
<1>3. my_allocated_inodes \in Seq(InodeLines) /\ Len(my_allocated_inodes) \in Nat
  BY DEF Types
<1>4. UnreferencedTurns \in Int /\ MissingTurns \in Int
  <2>1. my_group.bid_group - start_block \in Int /\ my_sp.num_inodes - my_sp.first_inode \in Int
    BY <1>1, Difference
  <2>2. UnreferencedTurns \in {0, turn, my_group.bid_group - start_block}
    BY DEF UnreferencedTurns
  <2>3. MissingTurns \in {0, turn, my_sp.num_inodes - my_sp.first_inode}
    BY DEF MissingTurns
  <2>4. QED
    BY <1>2, <2>1, <2>2, <2>3
<1>5. BlockTurns \in 0 .. Len(my_inode) /\ IndirectTurns \in 0 .. Len(my_indir)
  BY <1>1, <1>2 DEF BlockTurns, IndirectTurns, Types
<1>6. InodeTurns \in 0 .. Len(my_inode) /\ EntryTurns \in 0 .. Len(my_dir)
  BY <1>1, <1>2 DEF InodeTurns, EntryTurns, Types
<1>7. LinkTurns \in 0 .. Len(my_allocated_inodes)
  BY <1>2, <1>3 DEF LinkTurns, Types
<1>8. QED
  BY <1>3, <1>4, <1>5, <1>6, <1>7

\* A loop that is through has made as many turns as it counts afterwards.
LEMMA NextLoopTurns ==
    ASSUME Facts, Types, NextLoop, UNCHANGED <<csv, summary>>
    PROVE  /\ BlockTurns' = BlockTurns /\ IndirectTurns' = IndirectTurns
           /\ UnreferencedTurns' \in Int /\ UnreferencedTurns' <= UnreferencedTurns
           /\ InodeTurns' = InodeTurns
           /\ MissingTurns' \in Int /\ MissingTurns' <= MissingTurns
           /\ EntryTurns' = EntryTurns /\ LinkTurns' = LinkTurns
           /\ audit \in Early => audit' \in Early
           /\ audit' \in BlockLoops \cup {"inodes"} => audit \in BlockLoops \cup {"inodes"}
           /\ audit # "exit1" /\ audit' \notin {"exit1", "entries"}
           /\ audit' \in Loops \cup Ends
           /\ turn' = 0
           /\ audit' \in {"exit0", "exit2"} => audit' = IF my_error THEN "exit2" ELSE "exit0"
<1> DEFINE len == Len(my_inode)
           ind == Len(my_indir)
           blocks == my_group.bid_group - start_block
           inodes == my_sp.num_inodes - my_sp.first_inode
           dir == Len(my_dir)
           links == Len(my_allocated_inodes)
<1>1. /\ len' = len /\ ind' = ind /\ blocks' = blocks /\ inodes' = inodes /\ dir' = dir
      /\ links' = links
  BY Frame DEF summary, NextLoop, inodesUnchanged
<1>2. /\ len \in Nat /\ ind \in Nat /\ blocks \in Int /\ inodes \in Int /\ dir \in Nat
      /\ links \in Nat /\ turn \in Nat
  <2>1. turn \in Nat
    BY DEF Types
  <2>2. /\ my_sp.num_inodes \in Nat /\ my_sp.first_inode \in Nat /\ my_group.bid_group \in Nat
        /\ start_block \in Nat
        /\ Len(my_inode) \in Nat /\ Len(my_dir) \in Nat /\ Len(my_indir) \in Nat
    BY Numerals
  <2>3. Len(my_allocated_inodes) \in Nat
    BY TurnsAre
  <2>4. blocks \in Int /\ inodes \in Int
    BY <2>2, Difference
  <2>5. QED
    BY <2>1, <2>2, <2>3, <2>4
<1>3. /\ audit = "blocks" => turn <= len
      /\ audit = "indirect" => turn <= ind
      /\ audit = "inodes" => turn <= len
      /\ audit = "entries" => turn <= dir
      /\ audit = "links" => turn <= links
  BY DEF Types
<1> DEFINE T ==
      /\ BlockTurns = IF audit = "blocks" THEN turn ELSE len
      /\ IndirectTurns = IF audit = "blocks" THEN 0 ELSE IF audit = "indirect" THEN turn ELSE ind
      /\ UnreferencedTurns =
            IF audit \in {"blocks", "indirect", "duplicates"} THEN 0
            ELSE IF audit = "unreferenced" THEN turn ELSE blocks
      /\ InodeTurns =
            IF audit \in BlockLoops THEN 0 ELSE IF audit = "inodes" THEN turn ELSE len
      /\ MissingTurns =
            IF audit \in BlockLoops \cup {"inodes"} THEN 0
            ELSE IF audit = "missing" THEN turn ELSE inodes
      /\ EntryTurns =
            IF audit = "entries" THEN turn
            ELSE IF audit \in {"links", "exit0", "exit2"} THEN dir ELSE 0
      /\ LinkTurns =
            IF audit = "links" THEN turn ELSE IF audit \in {"exit0", "exit2"} THEN links ELSE 0
<1>4. T /\ T'
  BY DEF BlockTurns, IndirectTurns, UnreferencedTurns, InodeTurns, MissingTurns, EntryTurns,
         LinkTurns
<1>5. /\ turn' = 0
      /\ \/ audit = "blocks" /\ turn >= len /\ audit' = "indirect"
         \/ audit = "indirect" /\ turn >= ind /\ audit' = "duplicates"
         \/ audit = "unreferenced" /\ turn >= blocks /\ audit' = "inodes"
         \/ audit = "inodes" /\ turn >= len /\ audit' = "missing"
         \/ audit = "missing" /\ turn >= inodes /\ audit' = "parents"
         \/ audit = "entries" /\ turn >= dir /\ audit' = "links"
         \/ audit = "links" /\ turn >= links /\ audit' = IF my_error THEN "exit2" ELSE "exit0"
  BY DEF NextLoop, EndLoop
<1> HIDE DEF len, ind, blocks, inodes, dir, links
<1>6. QED
  BY <1>1, <1>2, <1>3, <1>4, <1>5 DEF Early, BlockLoops, Loops, Ends

LEMMA NextLoopKeeps ==
    ASSUME RunInv, NextLoop, UNCHANGED <<csv, summary>>
    PROVE  RunInv'
<1>1. Facts /\ Types /\ ErrorInv
  BY DEF RunInv
<1>2. /\ printed' = printed /\ my_error' = my_error /\ block_dic' = block_dic
      /\ UNCHANGED <<my_ifree, my_allocated_inodes, my_parent_inode, my_dict_inode>>
  BY DEF NextLoop, inodesUnchanged
<1>3. Told(<<>>) /\ Whats(<<>>) = {}
  BY <1>1, <1>2, ToldNothing, WhatsNone
<1>4. printed' = <<>> => SilentBlocks'
  BY <1>1, <1>2, <1>3, TurnsAre, NextLoopTurns, BlocksStill
<1>5. FreeInv' /\ OnceInv' /\ (printed' = <<>> => SilentInodes')
  BY <1>1, <1>2, <1>3, TurnsAre, NextLoopTurns, InodesStill
<1>6. EntryInv' /\ CrashInv' /\ (printed' = <<>> => SilentEntries')
  BY <1>1, <1>2, <1>3, TurnsAre, NextLoopTurns, EntriesStill
<1>7. ErrorInv' /\ my_error' \in BOOLEAN
  BY <1>1, <1>2, NextLoopTurns DEF ErrorInv, Types
<1>8. Types'
  <2>1. /\ Len(my_inode) \in Nat /\ Len(my_dir) \in Nat /\ Len(my_indir) \in Nat
        /\ Len(my_allocated_inodes) \in Nat
    BY <1>1, Numerals, TurnsAre
  <2>2. /\ my_inode' = my_inode /\ my_dir' = my_dir /\ my_indir' = my_indir
    BY DEF summary
  <2>3. turn' = 0 /\ audit' \in Loops \cup Ends
    BY <1>1, NextLoopTurns
  <2>4. QED
    BY <1>1, <1>2, <1>7, <2>1, <2>2, <2>3 DEF Types
<1>9. ParentInv'
  BY <1>1, NextLoopTurns DEF ParentInv
<1>10. Facts' /\ SaneInv'
  BY <1>1, <1>3, NextLoopTurns, SaneStill
<1>11. QED
  BY <1>4, <1>5, <1>6, <1>7, <1>8, <1>9, <1>10 DEF RunInv, SilentInv

-----------------------------------------------------------------------------
(* One more turn of a loop.                                                *)

LEMMA TurnTurns ==
    ASSUME Facts, Types, UNCHANGED <<csv, summary>>,
           audit \in Loops, audit' = audit, turn' = turn + 1
    PROVE  /\ turn \in Nat /\ turn' \in Nat
           /\ BlockTurns' = IF audit = "blocks" THEN turn + 1 ELSE BlockTurns
           /\ IndirectTurns' = IF audit = "indirect" THEN turn + 1 ELSE IndirectTurns
           /\ UnreferencedTurns' =
                 IF audit = "unreferenced" THEN turn + 1 ELSE UnreferencedTurns
           /\ InodeTurns' = IF audit = "inodes" THEN turn + 1 ELSE InodeTurns
           /\ MissingTurns' = IF audit = "missing" THEN turn + 1 ELSE MissingTurns
           /\ EntryTurns' = IF audit = "entries" THEN turn + 1 ELSE EntryTurns
           /\ LinkTurns' = IF audit = "links" THEN turn + 1 ELSE LinkTurns
           /\ audit = "blocks" => BlockTurns = turn
           /\ audit = "indirect" => IndirectTurns = turn
           /\ audit = "unreferenced" => UnreferencedTurns = turn
           /\ audit = "inodes" => InodeTurns = turn
           /\ audit = "missing" => MissingTurns = turn
           /\ audit = "entries" => EntryTurns = turn
           /\ audit = "links" => LinkTurns = turn
<1>1. /\ my_inode' = my_inode /\ my_indir' = my_indir /\ my_group' = my_group /\ my_sp' = my_sp
      /\ my_dir' = my_dir /\ start_block' = start_block
  BY Frame DEF summary
<1>2. turn \in Nat /\ turn' \in Nat
  BY DEF Types
<1>3. audit \notin {"exit0", "exit2"}
  BY DEF Loops, BlockLoops
<1>4. QED
  BY <1>1, <1>2, <1>3 DEF BlockTurns, IndirectTurns, UnreferencedTurns, InodeTurns, MissingTurns,
         EntryTurns, LinkTurns, BlockLoops

-----------------------------------------------------------------------------
(* Blocks that no reference leads to.                                      *)

\* A consistent file system mentions its blocks as the audit has filed them.
LEMMA FiledSane ==
    ASSUME Facts, SilentBlocks, BlockTurns = Len(my_inode), IndirectTurns = Len(my_indir)
    PROVE  References = block_dic
BY FiledAll DEF SilentBlocks

LEMMA UnreferencedKeeps ==
    ASSUME RunInv, AuditUnreferenced, UNCHANGED <<csv, summary>>
    PROVE  RunInv'
<1>1. Facts /\ Types /\ ErrorInv /\ SaneInv /\ SilentInv
  BY DEF RunInv
<1> DEFINE block == start_block + turn
           known == my_bfree \cup {r.block : r \in ToSet(block_dic)}
           q == IF block \in known THEN <<>> ELSE <<Complaint("UNREFERENCED_BLOCK", block)>>
<1>2. /\ audit = "unreferenced" /\ turn < my_group.bid_group - start_block /\ turn' = turn + 1
      /\ audit' = audit
      /\ printed' = printed \o q /\ my_error' = (my_error \/ q # <<>>)
      /\ block_dic' = block_dic
      /\ UNCHANGED <<my_ifree, my_allocated_inodes, my_parent_inode, my_dict_inode>>
  BY DEF AuditUnreferenced, Turn, Tell, inodesUnchanged
<1>3. start_block \in Nat /\ turn \in Nat /\ block \in Int /\ my_group.bid_group \in Nat
  <2>1. start_block \in Nat /\ my_group.bid_group \in Nat
    BY <1>1, Numerals
  <2>2. turn \in Nat
    BY <1>1 DEF Types
  <2>3. QED
    BY <2>1, <2>2
<1>4. /\ q \in Seq(Complaints) /\ Whats(q) \subseteq {"UNREFERENCED_BLOCK"}
      /\ q = <<>> <=> block \in known
  <2> DEFINE one == <<Complaint("UNREFERENCED_BLOCK", block)>>
  <2>1. block \in About /\ "UNREFERENCED_BLOCK" \in Sayings
    BY <1>3 DEF About, Sayings
  <2> HIDE DEF known, block
  <2>2. SaysAtMost(q, one, "UNREFERENCED_BLOCK", block)
    BY DEF SaysAtMost, Says
  <2>3. q = IF block \in known THEN <<>> ELSE one
    OBVIOUS
  <2> HIDE DEF one, q
  <2>4. q \in Seq(Complaints) /\ Whats(q) \subseteq {"UNREFERENCED_BLOCK"} /\ one # <<>>
    BY <2>1, <2>2, ToldMaybe
  <2>5. QED
    BY <2>3, <2>4
<1> HIDE DEF q, known
<1>5. Told(q)
  BY <1>2, <1>4 DEF Told
<1>6. block \in known <=> Covered(block)
  BY DEF known, Covered
<1> HIDE DEF block
<1>7. audit \in Loops /\ audit \notin {"blocks", "indirect", "inodes", "missing", "entries", "links"}
  BY <1>2 DEF Loops, BlockLoops
<1>8. /\ BlockTurns' = BlockTurns /\ IndirectTurns' = IndirectTurns /\ InodeTurns' = InodeTurns
      /\ MissingTurns' = MissingTurns /\ EntryTurns' = EntryTurns /\ LinkTurns' = LinkTurns
      /\ UnreferencedTurns = turn /\ UnreferencedTurns' = turn + 1
      /\ BlockTurns = Len(my_inode) /\ IndirectTurns = Len(my_indir)
  <2>1. /\ BlockTurns' = BlockTurns /\ IndirectTurns' = IndirectTurns /\ InodeTurns' = InodeTurns
        /\ MissingTurns' = MissingTurns /\ EntryTurns' = EntryTurns /\ LinkTurns' = LinkTurns
        /\ UnreferencedTurns = turn /\ UnreferencedTurns' = turn + 1
    BY <1>1, <1>2, <1>7, TurnTurns
  <2>2. BlockTurns = Len(my_inode) /\ IndirectTurns = Len(my_indir)
    BY <1>2 DEF BlockTurns, IndirectTurns
  <2>3. QED
    BY <2>1, <2>2
<1>9. ASSUME printed' = <<>> PROVE SilentBlocks'
  <2>1. printed = <<>> /\ q = <<>>
    BY <1>1, <1>5, <1>9, ToldMore
  <2>2. SilentBlocks /\ Covered(block)
    BY <1>1, <1>4, <1>6, <2>1 DEF SilentInv
  <2>3. /\ start_block' = start_block /\ my_bfree' = my_bfree
        /\ \A m, i : Filed(m, i)' = Filed(m, i)
        /\ \A r : FineMention(r)' <=> FineMention(r)
    BY Frame DEF summary
  <2>4. \A b : Covered(b)' <=> Covered(b)
    BY <1>2, <2>3 DEF Covered
  <2>5. \A b \in start_block .. start_block + turn : Covered(b)
    <3>1. TAKE b \in start_block .. start_block + turn
    <3>2. b \in start_block .. start_block + turn - 1 \/ b = block
      BY <1>3 DEF block
    <3>3. QED
      BY <1>8, <2>2, <3>2 DEF SilentBlocks
  <2>6. start_block + UnreferencedTurns' - 1 = start_block + turn
    BY <1>3, <1>8
  <2>7. QED
    BY <1>2, <1>8, <2>2, <2>3, <2>4, <2>5, <2>6 DEF SilentBlocks
<1>10. FreeInv' /\ OnceInv' /\ (printed' = <<>> => SilentInodes')
  <2>1. Whats(q) \cap (NotFree \cup SaidInUse) = {}
    BY <1>4 DEF NotFree, SaidInUse
  <2>2. MissingTurns \in Int /\ MissingTurns' <= MissingTurns
    BY <1>1, <1>8, TurnsAre
  <2>3. QED
    BY <1>2, <1>5, <1>8, <2>1, <2>2, InodesStill
<1>11. EntryInv' /\ CrashInv' /\ (printed' = <<>> => SilentEntries')
  <2>1. Whats(q) \cap {"UNALLOCATED_INODE"} = {} /\ audit # "exit1" /\ audit' # "exit1"
    BY <1>2, <1>4
  <2>2. QED
    BY <1>2, <1>5, <1>8, <2>1, EntriesStill
<1>12. ErrorInv' /\ my_error' \in BOOLEAN
  <2>1. Whats(q) \cap Quiet = {} /\ audit' \notin {"exit0", "exit2"}
    BY <1>2, <1>4 DEF Quiet
  <2>2. QED
    BY <1>1, <1>2, <1>5, <2>1, ToldError
<1>13. Types' /\ ParentInv'
  <2>1. printed' \in Seq(Complaints) /\ turn' \in Nat
    BY <1>1, <1>2, <1>3, <1>5, ToldMore
  <2>2. QED
    BY <1>1, <1>2, <1>12, <2>1 DEF Types, ParentInv
<1>14. Facts' /\ SaneInv'
  <2>1. ASSUME Sane PROVE q = <<>>
    <3>1. SilentBlocks
      BY <1>1, <2>1 DEF SaneInv, SilentInv
    <3>2. References = block_dic
      BY <1>1, <1>8, <3>1, FiledSane
    <3>3. block \in start_block .. my_group.bid_group - 1
      BY <1>2, <1>3 DEF block
    <3>4. block \in my_bfree \/ \E r \in ToSet(References) : r.block = block
      BY <2>1, <3>3 DEF Sane, Consistent, BlocksConsistent
    <3>5. QED
      BY <1>4, <1>6, <3>2, <3>4 DEF Covered
  <2>2. QED
    BY <1>2, <1>5, <2>1, SaneStill
<1>15. QED
  BY <1>9, <1>10, <1>11, <1>12, <1>13, <1>14 DEF RunInv, SilentInv

-----------------------------------------------------------------------------
(* Links.                                                                  *)

LEMMA LinksKeeps ==
    ASSUME RunInv, AuditLinks, UNCHANGED <<csv, summary>>
    PROVE  RunInv'
<1>1. Facts /\ Types /\ ErrorInv /\ SaneInv /\ SilentInv /\ FreeInv
  BY DEF RunInv
<1> DEFINE inode == my_allocated_inodes[turn + 1]
           links == LinksTo(inode.inode_number)
           one == <<Complaint("LINKS", inode)>>
           q == IF links = inode.linkage_counts THEN <<>> ELSE one
<1>2. /\ audit = "links" /\ turn < Len(my_allocated_inodes) /\ turn' = turn + 1 /\ audit' = audit
      /\ printed' = printed \o q /\ my_error' = (my_error \/ q # <<>>)
      /\ block_dic' = block_dic
      /\ UNCHANGED <<my_ifree, my_allocated_inodes, my_parent_inode, my_dict_inode>>
  BY DEF AuditLinks, Turn, Tell, inodesUnchanged
<1>3. /\ turn \in Nat /\ my_allocated_inodes \in Seq(InodeLines)
      /\ Len(my_allocated_inodes) \in Nat
  BY <1>1, TurnsAre DEF Types
<1>4. inode \in InodeLines /\ inode \in ToSet(my_allocated_inodes)
  <2>1. turn + 1 \in DOMAIN my_allocated_inodes
    BY <1>2, <1>3
  <2>2. QED
    BY <1>3, <2>1 DEF ToSet
<1>5. inode.inode_number \in Nat
  <2>1. \A l \in InodeLines : l.inode_number \in Nat
    BY DEF InodeLines
  <2>2. QED
    BY <1>4, <2>1
<1> HIDE DEF inode
<1>6. q \in Seq(Complaints) /\ Whats(q) \subseteq {"LINKS"} /\ one # <<>>
  <2>1. inode \in About
    BY <1>4 DEF About, CsvLines
  <2>2. "LINKS" \in Sayings
    BY DEF Sayings
  <2>3. SaysAtMost(q, one, "LINKS", inode)
    BY DEF SaysAtMost, Says
  <2> HIDE DEF q, one
  <2>4. QED
    BY <2>1, <2>2, <2>3, ToldMaybe
<1>7. q = <<>> <=> links = inode.linkage_counts
  BY <1>6
<1> HIDE DEF q, one, links
<1>8. Told(q)
  BY <1>2, <1>6 DEF Told
<1>9. audit \in Loops
  BY <1>2 DEF Loops
<1>10. /\ BlockTurns' = BlockTurns /\ IndirectTurns' = IndirectTurns /\ InodeTurns' = InodeTurns
       /\ MissingTurns' = MissingTurns /\ EntryTurns' = EntryTurns
       /\ UnreferencedTurns' = UnreferencedTurns
       /\ LinkTurns = turn /\ LinkTurns' = turn + 1 /\ EntryTurns = Len(my_dir)
  <2>1. EntryTurns = Len(my_dir)
    BY <1>2 DEF EntryTurns
  <2>2. QED
    BY <1>1, <1>2, <1>9, <2>1, TurnTurns
<1>11. printed' = <<>> => SilentBlocks'
  <2>1. UnreferencedTurns \in Int /\ UnreferencedTurns' <= UnreferencedTurns
    BY <1>1, <1>10, TurnsAre
  <2>2. QED
    BY <1>2, <1>8, <1>10, <2>1, BlocksStill
<1>12. FreeInv' /\ OnceInv' /\ (printed' = <<>> => SilentInodes')
  <2>1. Whats(q) \cap (NotFree \cup SaidInUse) = {}
    BY <1>6 DEF NotFree, SaidInUse
  <2>2. MissingTurns \in Int /\ MissingTurns' <= MissingTurns
    BY <1>1, <1>10, TurnsAre
  <2>3. QED
    BY <1>2, <1>8, <1>10, <2>1, <2>2, InodesStill
<1>13. EntryInv' /\ CrashInv'
  <2>1. Whats(q) \cap {"UNALLOCATED_INODE"} = {}
    BY <1>6
  <2>2. AboutsOf(printed', {"UNALLOCATED_INODE"}) = AboutsOf(printed, {"UNALLOCATED_INODE"})
    <3>1. AboutsOf(q, {"UNALLOCATED_INODE"}) = {}
      BY <2>1, AboutsNone
    <3>2. \A kinds : AboutsOf(printed', kinds) = AboutsOf(printed, kinds) \cup AboutsOf(q, kinds)
      BY <1>1, <1>8, ToldMore
    <3>3. QED
      BY <3>1, <3>2
  <2>3. EntryInv
    BY DEF RunInv
  <2>4. my_dir' = my_dir
    BY DEF summary
  <2>5. QED
    BY <1>2, <1>10, <2>2, <2>3, <2>4 DEF EntryInv, CrashInv
<1>14. ASSUME printed' = <<>> PROVE SilentEntries'
  <2>1. printed = <<>> /\ q = <<>>
    BY <1>1, <1>8, <1>14, ToldMore
  <2>2. SilentEntries /\ links = inode.linkage_counts
    BY <1>1, <1>7, <2>1 DEF SilentInv
  <2>3. \A n : LinksTo(n)' = LinksTo(n)
    BY <1>2 DEF LinksTo
  <2>4. /\ \A n, m : LinksIn(n, m)' = LinksIn(n, m)
        /\ \A e : FineEntry(e)' <=> FineEntry(e)
        /\ my_dir' = my_dir
    BY Frame DEF summary
  <2>5. \A k \in 1 .. turn + 1 :
            LinksTo(my_allocated_inodes[k].inode_number) = my_allocated_inodes[k].linkage_counts
    <3>1. TAKE k \in 1 .. turn + 1
    <3>2. k \in 1 .. turn \/ k = turn + 1
      BY <1>3
    <3>3. QED
      BY <1>2, <1>10, <2>2, <3>2 DEF SilentEntries, inode, links
  <2>6. \A k \in 1 .. EntryTurns' : FineEntry(my_dir[k])'
    BY <1>2, <1>10, <2>2, <2>4 DEF SilentEntries
  <2>7. \A n \in Nat : LinksTo(n)' = Cardinality(LinksIn(n, EntryTurns)')
    BY <1>2, <1>10, <2>2, <2>3, <2>4 DEF SilentEntries
  <2>8. \A k \in 1 .. LinkTurns' :
            LinksTo(my_allocated_inodes[k].inode_number)' = my_allocated_inodes'[k].linkage_counts
    BY <1>2, <1>10, <2>3, <2>5
  <2>9. QED
    BY <2>4, <2>6, <2>7, <2>8 DEF SilentEntries
<1>15. ErrorInv' /\ my_error' \in BOOLEAN
  <2>1. Whats(q) \cap Quiet = {} /\ audit' \notin {"exit0", "exit2"}
    BY <1>2, <1>6 DEF Quiet
  <2>2. QED
    BY <1>1, <1>2, <1>8, <2>1, ToldError
<1>16. Types' /\ ParentInv'
  <2>1. printed' \in Seq(Complaints) /\ turn' \in Nat /\ turn' <= Len(my_allocated_inodes)
    BY <1>1, <1>2, <1>3, <1>8, ToldMore
  <2>2. QED
    BY <1>1, <1>2, <1>15, <2>1 DEF Types, ParentInv
<1>17. Facts' /\ SaneInv'
  <2>1. ASSUME Sane PROVE q = <<>>
    <3>1. SilentEntries /\ audit # "exit1"
      BY <1>1, <2>1 DEF SaneInv, SilentInv
    <3>2. inode \in ToSet(my_inode) /\ inode.file_type # "0"
      <4>1. InodeTurns \in 0 .. Len(my_inode) /\ DOMAIN my_inode = 1 .. Len(my_inode)
        BY <1>1, TurnsAre, Numerals
      <4>2. PICK k \in 1 .. InodeTurns : inode = my_inode[k] /\ my_inode[k].file_type # "0"
        BY <1>1, <1>4 DEF FreeInv
      <4>3. QED
        BY <4>1, <4>2 DEF ToSet
    <3>3. inode.linkage_counts =
             Cardinality({k \in DOMAIN my_dir : my_dir[k].entry_reference_inode = inode.inode_number})
      BY <2>1, <3>2 DEF Sane, Consistent, DirectoriesConsistent
    <3>4. links = Cardinality(LinksIn(inode.inode_number, EntryTurns))
      BY <1>5, <3>1 DEF SilentEntries, links
    <3>5. DOMAIN my_dir = 1 .. EntryTurns
      BY <1>1, <1>10, Numerals
    <3>6. QED
      BY <1>7, <3>3, <3>4, <3>5 DEF LinksIn
  <2>2. QED
    BY <1>2, <1>8, <2>1, SaneStill
<1>18. QED
  BY <1>11, <1>12, <1>13, <1>14, <1>15, <1>16, <1>17 DEF RunInv, SilentInv

-----------------------------------------------------------------------------
(* The free list.                                                          *)

LEMMA AboutsEither ==
    ASSUME NEW p, NEW a, NEW b
    PROVE  AboutsOf(p, a \cup b) = AboutsOf(p, a) \cup AboutsOf(p, b)
BY DEF AboutsOf

\* What is complained of for the first time is complained of once.
LEMMA OnceTold ==
    ASSUME Types, NEW kinds, Once(printed, kinds), NEW q, NEW one, NEW about \in About,
           NEW what \in Sayings, SaysAtMost(q, one, what, about), Told(q),
           q = <<>> \/ about \notin AboutsOf(printed, kinds)
    PROVE  Once(printed', kinds)
<1>1. printed \in Seq(Complaints) /\ printed' = printed \o q
  BY DEF Types, Told
<1>2. CASE q = <<>>
  <2>1. printed \o <<>> = printed
    BY <1>1, ConcatEmptySeq
  <2>2. QED
    BY <1>1, <1>2, <2>1
<1>3. CASE q # <<>>
  <2> DEFINE c == Complaint(what, about)
  <2>1. c \in Complaints /\ c.about = about
    BY DEF Complaint, Complaints, About
  <2>2. q = <<c>>
    BY <1>3 DEF SaysAtMost, Says
  <2>3. about \notin AboutsOf(printed, kinds)
    BY <1>3
  <2> HIDE DEF c
  <2>4. Once(printed \o <<c>>, kinds)
    BY <1>1, <2>1, <2>3, OnceMore
  <2>5. QED
    BY <1>1, <2>2, <2>4
<1>4. QED
  BY <1>2, <1>3

LEMMA MissingKeeps ==
    ASSUME RunInv, AuditMissing, UNCHANGED <<csv, summary>>
    PROVE  RunInv'
<1>1. Facts /\ Types /\ ErrorInv /\ SaneInv /\ SilentInv /\ FreeInv /\ OnceInv
  BY DEF RunInv
<1> DEFINE n == my_sp.first_inode + turn
           missing == /\ \A l \in ToSet(my_inode) : l.inode_number # n
                      /\ ~Contains(my_ifree, n)
           one == <<Complaint("UNALLOCATED_INODE_NOT_ON_FREELIST", n)>>
           q == IF missing THEN one ELSE <<>>
<1>2. /\ audit = "missing" /\ turn < my_sp.num_inodes - my_sp.first_inode
      /\ turn' = turn + 1 /\ audit' = audit
      /\ printed' = printed \o q /\ my_error' = (my_error \/ q # <<>>)
      /\ my_ifree' = IF missing THEN Append(my_ifree, n) ELSE my_ifree
      /\ UNCHANGED <<my_allocated_inodes, block_dic, my_parent_inode, my_dict_inode>>
  BY DEF AuditMissing, Turn, Tell, blocksUnchanged
<1>3. /\ turn \in Nat /\ my_sp.first_inode \in Nat /\ my_sp.num_inodes \in Nat
      /\ my_ifree \in Seq(Nat)
  BY <1>1, Numerals DEF Types, FreeInv
<1>4. n \in Nat
  BY <1>3
<1>5. missing <=> (\A l \in ToSet(my_inode) : l.inode_number # n) /\ n \notin ToSet(my_ifree)
  BY <1>3, Containing
<1> HIDE DEF n
<1>6. SaysAtMost(q, one, "UNALLOCATED_INODE_NOT_ON_FREELIST", n)
  BY DEF SaysAtMost, Says
<1>7. n \in About /\ "UNALLOCATED_INODE_NOT_ON_FREELIST" \in Sayings
  BY <1>4 DEF About, Sayings
<1>8. q = IF missing THEN one ELSE <<>>
  OBVIOUS
<1> HIDE DEF one, missing, q
<1>9. /\ q \in Seq(Complaints) /\ Whats(q) \subseteq NotFree /\ one # <<>>
      /\ AboutsOf(q, NotFree) = IF q = <<>> THEN {} ELSE {n}
      /\ AboutsOf(q, SaidInUse) = {}
  <2>1. /\ q \in Seq(Complaints) /\ Whats(q) \subseteq {"UNALLOCATED_INODE_NOT_ON_FREELIST"}
        /\ one # <<>>
        /\ \A kinds : AboutsOf(q, kinds) =
              IF q = <<>> \/ "UNALLOCATED_INODE_NOT_ON_FREELIST" \notin kinds THEN {} ELSE {n}
    BY <1>6, <1>7, ToldMaybe
  <2>2. /\ "UNALLOCATED_INODE_NOT_ON_FREELIST" \in NotFree
        /\ "UNALLOCATED_INODE_NOT_ON_FREELIST" \notin SaidInUse
        /\ NotFree = {"UNALLOCATED_INODE_NOT_ON_FREELIST"}
    BY DEF NotFree, SaidInUse
  <2>3. QED
    BY <2>1, <2>2
<1>10. q = <<>> <=> ~missing
  BY <1>8, <1>9
<1>11. Told(q)
  BY <1>2, <1>9 DEF Told
<1>12. audit \in Loops
  BY <1>2 DEF Loops
<1>13. /\ BlockTurns' = BlockTurns /\ IndirectTurns' = IndirectTurns /\ InodeTurns' = InodeTurns
       /\ MissingTurns = turn /\ MissingTurns' = turn + 1
       /\ EntryTurns' = EntryTurns /\ LinkTurns' = LinkTurns
       /\ UnreferencedTurns' = UnreferencedTurns
       /\ InodeTurns = Len(my_inode) /\ EntryTurns = 0 /\ LinkTurns = 0
  <2>1. InodeTurns = Len(my_inode) /\ EntryTurns = 0 /\ LinkTurns = 0
    BY <1>2 DEF InodeTurns, EntryTurns, LinkTurns, BlockLoops
  <2>2. QED
    BY <1>1, <1>2, <1>12, <2>1, TurnTurns
<1>14. /\ Free' = Free /\ Used' = Used /\ Unused' = Unused /\ my_inode' = my_inode
       /\ my_sp' = my_sp
       /\ \A m : UsedIn(m)' = UsedIn(m) /\ UnusedIn(m)' = UnusedIn(m)
  BY Frame DEF summary
<1>15. SeenUsed' = SeenUsed /\ SeenUnused' = SeenUnused /\ SeenUsed = Used /\ SeenUnused = Unused
  BY <1>1, <1>13, <1>14, UsedInAll DEF SeenUsed, SeenUnused
<1>16. \A kinds : AboutsOf(printed', kinds) = AboutsOf(printed, kinds) \cup AboutsOf(q, kinds)
  BY <1>1, <1>11, ToldMore
<1>17. ToSet(my_ifree) = (Free \ Used) \cup Unused \cup AboutsOf(printed, NotFree)
  BY <1>1, <1>15 DEF FreeInv
<1>18. missing => n \notin Used /\ n \notin Unused
  BY <1>5 DEF Used, Unused
<1>19. printed' = <<>> => SilentBlocks'
  <2>1. UnreferencedTurns \in Int /\ UnreferencedTurns' <= UnreferencedTurns
    BY <1>1, <1>13, TurnsAre
  <2>2. audit \notin Early
    BY <1>2 DEF Early
  <2>3. QED
    BY <1>2, <1>11, <1>13, <2>1, <2>2, BlocksStill
<1>20. FreeInv'
  <2>1. ToSet(my_allocated_inodes') =
           {my_inode'[k] : k \in {j \in 1 .. InodeTurns' : my_inode'[j].file_type # "0"}}
    BY <1>1, <1>2, <1>13, <1>14 DEF FreeInv
  <2>2. my_ifree' \in Seq(Nat) /\ IsInjective(my_ifree')
    BY <1>1, <1>2, <1>3, <1>4, <1>5, InjectiveAppend DEF FreeInv
  <2>3. ToSet(my_ifree') = ToSet(my_ifree) \cup IF missing THEN {n} ELSE {}
    BY <1>2, <1>3, <1>4, RangeAppend, SMTT(40)
  <2>4. ToSet(my_ifree') = (Free' \ SeenUsed') \cup SeenUnused' \cup AboutsOf(printed', NotFree)
    BY <1>9, <1>10, <1>14, <1>15, <1>16, <1>17, <2>3
  <2>5. QED
    BY <2>1, <2>2, <2>4 DEF FreeInv, NotFree
<1>21. OnceInv'
  <2>1. q = <<>> \/ n \notin AboutsOf(printed, NotFree \cup SaidInUse)
    BY <1>1, <1>5, <1>10, <1>15, <1>17, <1>18, AboutsEither DEF OnceInv
  <2>2. Once(printed', NotFree \cup SaidInUse)
    BY <1>1, <1>6, <1>7, <1>11, <2>1, OnceTold DEF OnceInv
  <2>3. /\ AboutsOf(printed', SaidInUse) \subseteq SeenUsed \cup SeenUnused
        /\ AboutsOf(printed', NotFree) \cap Used = {}
    BY <1>1, <1>9, <1>10, <1>16, <1>18 DEF OnceInv
  <2>4. audit' \notin BlockLoops \cup {"inodes"}
    BY <1>2 DEF BlockLoops
  <2>5. QED
    BY <1>14, <1>15, <2>2, <2>3, <2>4 DEF OnceInv, NotFree, SaidInUse, BlockLoops
<1>22. ASSUME printed' = <<>> PROVE SilentInodes'
  <2>1. printed = <<>> /\ q = <<>>
    BY <1>1, <1>11, <1>22, ToldMore
  <2>2. SilentInodes /\ ~missing
    BY <1>1, <1>10, <2>1 DEF SilentInv
  <2>3. AboutsOf(printed, NotFree) = {}
    BY <2>1, WhatsNone
  <2>4. n \in Used \cup Free
    <3>1. CASE n \in ToSet(my_ifree)
      BY <1>15, <1>17, <2>2, <2>3, <3>1 DEF SilentInodes
    <3>2. CASE \E l \in ToSet(my_inode) : l.inode_number = n
      <4>1. n \in Used \cup Unused
        BY <3>2 DEF Used, Unused
      <4>2. QED
        BY <1>15, <2>2, <4>1 DEF SilentInodes
    <3>3. QED
      BY <1>5, <2>2, <3>1, <3>2
  <2>5. \A m \in my_sp.first_inode .. my_sp.first_inode + turn : m \in Used \cup Free
    <3>1. TAKE m \in my_sp.first_inode .. my_sp.first_inode + turn
    <3>2. m \in my_sp.first_inode .. my_sp.first_inode + turn - 1 \/ m = n
      BY <1>3, LastTurn DEF n
    <3>3. QED
      BY <1>13, <2>2, <2>4, <3>2 DEF SilentInodes
  <2>6. my_sp.first_inode + MissingTurns' - 1 = my_sp.first_inode + turn
    BY <1>3, <1>13
  <2>7. QED
    BY <1>14, <1>15, <2>2, <2>5, <2>6 DEF SilentInodes
<1>23. EntryInv' /\ CrashInv' /\ (printed' = <<>> => SilentEntries')
  <2>1. Whats(q) \cap {"UNALLOCATED_INODE"} = {} /\ audit # "exit1" /\ audit' # "exit1"
    BY <1>2, <1>9 DEF NotFree
  <2>2. QED
    BY <1>2, <1>11, <1>13, <2>1, EntriesStill
<1>24. ErrorInv' /\ my_error' \in BOOLEAN
  <2>1. Whats(q) \cap Quiet = {} /\ audit' \notin {"exit0", "exit2"}
    BY <1>2, <1>9 DEF Quiet, NotFree
  <2>2. QED
    BY <1>1, <1>2, <1>11, <2>1, ToldError
<1>25. Types' /\ ParentInv'
  <2>1. printed' \in Seq(Complaints) /\ turn' \in Nat
    BY <1>1, <1>2, <1>3, <1>11, ToldMore
  <2>2. QED
    BY <1>1, <1>2, <1>24, <2>1 DEF Types, ParentInv
<1>26. Facts' /\ SaneInv'
  <2>1. ASSUME Sane PROVE q = <<>>
    <3>1. SilentInodes
      BY <1>1, <2>1 DEF SaneInv, SilentInv
    <3>2. n \in my_sp.first_inode .. my_sp.num_inodes
      BY <1>2, <1>3, TurnWithin DEF n
    <3>3. n \in Used \cup Free
      BY <2>1, <3>2 DEF Sane, Consistent, InodesConsistent
    <3>4. ~missing
      BY <1>5, <1>17, <1>18, <3>3
    <3>5. QED
      BY <1>10, <3>4
  <2>2. QED
    BY <1>2, <1>11, <2>1, SaneStill
<1>27. QED
  BY <1>19, <1>20, <1>21, <1>22, <1>23, <1>24, <1>25, <1>26 DEF RunInv, SilentInv

LEMMA InodeKeeps ==
    ASSUME RunInv, AuditInode, UNCHANGED <<csv, summary>>
    PROVE  RunInv'
<1>1. Facts /\ Types /\ ErrorInv /\ SaneInv /\ SilentInv /\ FreeInv /\ OnceInv
  BY DEF RunInv
<1> DEFINE inode == my_inode[turn + 1]
           n == inode.inode_number
           used == inode.file_type # "0"
           free == Contains(my_ifree, n)
           what == IF used THEN "ALLOCATED_INODE_ON_FREELIST"
                   ELSE "UNALLOCATED_INODE_NOT_ON_FREELIST"
           one == <<Complaint(what, n)>>
           q == IF used <=> free THEN one ELSE <<>>
<1>2. /\ audit = "inodes" /\ turn < Len(my_inode) /\ turn' = turn + 1 /\ audit' = audit
      /\ printed' = printed \o q /\ my_error' = (my_error \/ q # <<>>)
      /\ UNCHANGED <<block_dic, my_parent_inode, my_dict_inode>>
      /\ my_ifree' = IF used /\ free THEN RemoveFirst(my_ifree, n)
                     ELSE IF ~used /\ ~free THEN Append(my_ifree, n) ELSE my_ifree
      /\ my_allocated_inodes' =
            IF used THEN Append(my_allocated_inodes, inode) ELSE my_allocated_inodes
  <2>1. CASE inode.file_type = "0"
    BY <2>1 DEF AuditInode, Turn, Tell, blocksUnchanged
  <2>2. CASE inode.file_type # "0"
    BY <2>2 DEF AuditInode, Turn, Tell, blocksUnchanged
  <2>3. QED
    BY <2>1, <2>2
<1>3. turn \in Nat /\ my_ifree \in Seq(Nat) /\ IsInjective(my_ifree) /\ Len(my_inode) \in Nat
  BY <1>1, Numerals DEF Types, FreeInv
<1>4. inode \in InodeLines /\ inode \in ToSet(my_inode) /\ n \in Nat
  <2>1. turn + 1 \in 1 .. Len(my_inode)
    BY <1>2, <1>3
  <2>2. QED
    BY <1>1, <2>1, LineOfInode
<1>5. free <=> n \in ToSet(my_ifree)
  BY <1>3, Containing
<1>6. SaysAtMost(q, one, what, n) /\ q = IF used <=> free THEN one ELSE <<>>
  BY DEF SaysAtMost, Says
<1>7. n \in About /\ what \in Sayings
  BY <1>4 DEF About, Sayings
<1>8. what \in IF used THEN SaidInUse ELSE NotFree
  BY DEF SaidInUse, NotFree
<1>9. /\ UsedIn(turn + 1) = IF used THEN UsedIn(turn) \cup {n} ELSE UsedIn(turn)
      /\ UnusedIn(turn + 1) = IF used THEN UnusedIn(turn) ELSE UnusedIn(turn) \cup {n}
      /\ n \notin UsedIn(turn) /\ n \notin UnusedIn(turn)
      /\ used => n \in Used
      /\ ~used => n \in Unused
  <2>1. turn \in 0 .. Len(my_inode) /\ turn < Len(my_inode)
    BY <1>2, <1>3
  <2>2. QED
    BY <1>1, <2>1, UsedInMore
<1> HIDE DEF inode, n, free, what, one, q
<1>10. NotFree \cap SaidInUse = {} /\ what \in NotFree \cup SaidInUse
  BY <1>8 DEF NotFree, SaidInUse
<1>11. /\ q \in Seq(Complaints) /\ Whats(q) \subseteq NotFree \cup SaidInUse /\ one # <<>>
       /\ AboutsOf(q, NotFree) = IF q = <<>> \/ used THEN {} ELSE {n}
       /\ AboutsOf(q, SaidInUse) = IF q = <<>> \/ ~used THEN {} ELSE {n}
  <2>1. /\ q \in Seq(Complaints) /\ Whats(q) \subseteq {what} /\ one # <<>>
        /\ \A kinds : AboutsOf(q, kinds) = IF q = <<>> \/ what \notin kinds THEN {} ELSE {n}
    <3>1. SaysAtMost(q, one, what, n) /\ n \in About /\ what \in Sayings
      BY <1>6, <1>7
    <3>2. QED
      BY <3>1, ToldMaybe
  <2>2. QED
    BY <1>8, <1>10, <2>1
<1>12. q = <<>> <=> ~(used <=> free)
  BY <1>6, <1>11
<1>13. Told(q)
  BY <1>2, <1>11 DEF Told
<1>14. audit \in Loops
  BY <1>2 DEF Loops
<1>15. /\ BlockTurns' = BlockTurns /\ IndirectTurns' = IndirectTurns
       /\ InodeTurns = turn /\ InodeTurns' = turn + 1
       /\ MissingTurns' = 0 /\ EntryTurns' = EntryTurns /\ LinkTurns' = LinkTurns
       /\ UnreferencedTurns' = UnreferencedTurns
       /\ EntryTurns = 0 /\ LinkTurns = 0
  <2>1. EntryTurns = 0 /\ LinkTurns = 0 /\ MissingTurns' = 0
    BY <1>2 DEF EntryTurns, LinkTurns, MissingTurns
  <2>2. QED
    BY <1>1, <1>2, <1>14, <2>1, TurnTurns
<1>16. /\ Free' = Free /\ Used' = Used /\ Unused' = Unused /\ my_inode' = my_inode
       /\ my_sp' = my_sp
       /\ \A m : UsedIn(m)' = UsedIn(m) /\ UnusedIn(m)' = UnusedIn(m)
  BY Frame DEF summary
<1>17. /\ SeenUsed = UsedIn(turn) /\ SeenUnused = UnusedIn(turn)
       /\ SeenUsed' = UsedIn(turn + 1) /\ SeenUnused' = UnusedIn(turn + 1)
  BY <1>15, <1>16 DEF SeenUsed, SeenUnused
<1>18. \A kinds : AboutsOf(printed', kinds) = AboutsOf(printed, kinds) \cup AboutsOf(q, kinds)
  BY <1>1, <1>13, ToldMore
<1>19. /\ ToSet(my_ifree) = (Free \ SeenUsed) \cup SeenUnused \cup AboutsOf(printed, NotFree)
       /\ AboutsOf(printed, NotFree) \subseteq SeenUsed \cup SeenUnused
       /\ AboutsOf(printed, SaidInUse) \subseteq SeenUsed \cup SeenUnused
       /\ AboutsOf(printed, NotFree) \cap Used = {}
       /\ Once(printed, NotFree \cup SaidInUse)
  BY <1>1, <1>2 DEF FreeInv, OnceInv
<1>20. Used \cap Unused = {}
  BY <1>1, UsedOrNot
<1>21. printed' = <<>> => SilentBlocks'
  <2>1. UnreferencedTurns \in Int /\ UnreferencedTurns' <= UnreferencedTurns
    BY <1>1, <1>15, TurnsAre
  <2>2. audit \notin Early
    BY <1>2 DEF Early
  <2>3. QED
    BY <1>2, <1>13, <1>15, <2>1, <2>2, BlocksStill
<1>22. FreeInv' /\ my_allocated_inodes' \in Seq(InodeLines)
  <2>1. my_allocated_inodes \in Seq(InodeLines)
    BY <1>1, TurnsAre
  <2>2. ToSet(my_allocated_inodes') = ToSet(my_allocated_inodes) \cup IF used THEN {inode} ELSE {}
    BY <1>2, <1>4, <2>1, RangeAppend
  <2>3. ToSet(my_allocated_inodes') =
           {my_inode'[k] : k \in {j \in 1 .. InodeTurns' : my_inode'[j].file_type # "0"}}
    <3>1. 1 .. turn + 1 = 1 .. turn \cup {turn + 1}
      BY <1>3
    <3>2. ToSet(my_allocated_inodes) =
              {my_inode[k] : k \in {j \in 1 .. turn : my_inode[j].file_type # "0"}}
      BY <1>1, <1>15 DEF FreeInv
    <3>3. {my_inode[k] : k \in {j \in 1 .. turn + 1 : my_inode[j].file_type # "0"}}
            = {my_inode[k] : k \in {j \in 1 .. turn : my_inode[j].file_type # "0"}}
              \cup IF used THEN {inode} ELSE {}
      BY <3>1 DEF inode
    <3>4. QED
      BY <1>15, <1>16, <2>2, <3>2, <3>3
  <2>4. /\ my_ifree' \in Seq(Nat) /\ IsInjective(my_ifree')
        /\ ToSet(my_ifree') =
              IF used THEN ToSet(my_ifree) \ {n} ELSE ToSet(my_ifree) \cup {n}
    <3>1. CASE used /\ free
      BY <1>2, <1>3, <1>5, <3>1, Removed
    <3>2. CASE ~used /\ ~free
      BY <1>2, <1>3, <1>4, <1>5, <3>2, InjectiveAppend, RangeAppend
    <3>3. CASE used /\ ~free
      BY <1>2, <1>3, <1>5, <3>3
    <3>4. CASE ~used /\ free
      BY <1>2, <1>3, <1>5, <3>4
    <3>5. QED
      BY <3>1, <3>2, <3>3, <3>4
  <2>5. ToSet(my_ifree') = (Free' \ SeenUsed') \cup SeenUnused' \cup AboutsOf(printed', NotFree)
    <3>1. CASE used
      BY <1>9, <1>11, <1>16, <1>17, <1>18, <1>19, <2>4, <3>1
    <3>2. CASE ~used
      BY <1>9, <1>11, <1>16, <1>17, <1>18, <1>19, <2>4, <3>2
    <3>3. QED
      BY <3>1, <3>2
  <2>6. my_allocated_inodes' \in Seq(InodeLines)
    BY <1>2, <1>4, <2>1
  <2>7. QED
    BY <2>3, <2>4, <2>5, <2>6 DEF FreeInv, NotFree
<1>23. OnceInv'
  <2>1. n \notin AboutsOf(printed, NotFree \cup SaidInUse)
    BY <1>9, <1>17, <1>19, AboutsEither
  <2>2. Once(printed', NotFree \cup SaidInUse)
    BY <1>1, <1>6, <1>7, <1>13, <1>19, <2>1, OnceTold
  <2>3. /\ AboutsOf(printed', SaidInUse) \subseteq SeenUsed' \cup SeenUnused'
        /\ AboutsOf(printed', NotFree) \subseteq SeenUsed' \cup SeenUnused'
    BY <1>9, <1>11, <1>17, <1>18, <1>19
  <2>4. AboutsOf(printed', NotFree) \cap Used = {}
    BY <1>9, <1>11, <1>18, <1>19, <1>20
  <2>5. QED
    BY <1>16, <2>2, <2>3, <2>4 DEF OnceInv, NotFree, SaidInUse
<1>24. ASSUME printed' = <<>> PROVE SilentInodes'
  <2>1. printed = <<>> /\ q = <<>>
    BY <1>1, <1>13, <1>24, ToldMore
  <2>2. SilentInodes /\ ~(used <=> free)
    BY <1>1, <1>12, <2>1 DEF SilentInv
  <2>3. AboutsOf(printed, NotFree) = {}
    BY <2>1, WhatsNone
  <2>4. SeenUsed' \cap Free = {} /\ SeenUnused' \subseteq Free
    <3>1. CASE used
      BY <1>5, <1>9, <1>17, <1>19, <2>2, <3>1 DEF SilentInodes
    <3>2. CASE ~used
      BY <1>5, <1>9, <1>17, <1>19, <2>2, <2>3, <3>2 DEF SilentInodes
    <3>3. QED
      BY <3>1, <3>2
  <2>5. my_sp.first_inode \in Nat
    BY <1>1, Numerals
  <2>6. my_sp.first_inode .. my_sp.first_inode + MissingTurns' - 1 = {}
    BY <1>15, <2>5
  <2>7. QED
    BY <1>16, <2>4, <2>6 DEF SilentInodes
<1>25. EntryInv' /\ CrashInv' /\ (printed' = <<>> => SilentEntries')
  <2>1. Whats(q) \cap {"UNALLOCATED_INODE"} = {} /\ audit # "exit1" /\ audit' # "exit1"
    BY <1>2, <1>11 DEF NotFree, SaidInUse
  <2>2. QED
    BY <1>2, <1>13, <1>15, <2>1, EntriesStill
<1>26. ErrorInv' /\ my_error' \in BOOLEAN
  <2>1. Whats(q) \cap Quiet = {} /\ audit' \notin {"exit0", "exit2"}
    BY <1>2, <1>11 DEF Quiet, NotFree, SaidInUse
  <2>2. QED
    BY <1>1, <1>2, <1>13, <2>1, ToldError
<1>27. Types' /\ ParentInv'
  <2>1. printed' \in Seq(Complaints) /\ turn' \in Nat /\ turn' <= Len(my_inode')
    BY <1>1, <1>2, <1>3, <1>13, <1>16, ToldMore
  <2>2. QED
    BY <1>1, <1>2, <1>22, <1>26, <2>1 DEF Types, ParentInv
<1>28. Facts' /\ SaneInv'
  <2>1. ASSUME Sane PROVE q = <<>>
    <3>1. SilentInodes /\ printed = <<>>
      BY <1>1, <2>1 DEF SaneInv, SilentInv
    <3>2. Used \cap Free = {} /\ Unused \subseteq Free
      BY <2>1 DEF Sane, Consistent, InodesConsistent
    <3>3. AboutsOf(printed, NotFree) = {}
      BY <3>1, WhatsNone
    <3>4. used => ~free
      BY <1>5, <1>9, <1>17, <1>19, <3>2, <3>3
    <3>5. ~used => free
      BY <1>5, <1>9, <1>17, <1>19, <3>2
    <3>6. QED
      BY <1>12, <3>4, <3>5
  <2>2. QED
    BY <1>2, <1>13, <2>1, SaneStill
<1>29. QED
  BY <1>21, <1>22, <1>23, <1>24, <1>25, <1>26, <1>27, <1>28 DEF RunInv, SilentInv

-----------------------------------------------------------------------------
(* Mentions of blocks, and what the audit has to say of them.              *)

BlockSayings == {"ALLOCATED_BLOCK_ON_FREELIST", "INVALID", "RESERVED"}

LEMMA FineIs ==
    ASSUME Facts, NEW r \in Mentioned
    PROVE  /\ r.block \in Int
           /\ FineMention(r) <=> ~(r.block \in my_bfree \/ TooLarge(r.block) \/ Reserved(r.block))
<1>1. r.block \in Int
  BY DEF Mentioned
<1>2. PICK b \in Int, s \in Nat, n \in Nat : b = r.block /\ s = start_block /\ n = my_sp.num_blocks
  BY <1>1, Numerals
<1>3. b \in s .. n <=> ~(b < 0 \/ b > n) /\ ~(b < s)
  BY <1>2
<1>4. QED
  BY <1>1, <1>2, <1>3 DEF FineMention, TooLarge, Reserved

LEMMA BlockTold ==
    ASSUME Facts, NEW r \in Mentioned
    PROVE  /\ BlockComplaints(r) \in Seq(Complaints)
           /\ Whats(BlockComplaints(r)) \subseteq BlockSayings
           /\ BlockComplaints(r) = <<>> <=> FineMention(r)
<1> DEFINE a == <<Complaint("ALLOCATED_BLOCK_ON_FREELIST", r.block)>>
           i == <<Complaint("INVALID", r)>>
           v == <<Complaint("RESERVED", r)>>
           large == IF TooLarge(r.block) THEN i ELSE <<>>
           low == IF Reserved(r.block) THEN v ELSE <<>>
<1>1. r.block \in Int /\ (FineMention(r) <=> ~(r.block \in my_bfree \/ TooLarge(r.block) \/ Reserved(r.block)))
  BY FineIs
<1>2. r.block \in About /\ r \in About
  BY <1>1 DEF About
<1>3. /\ SaysAtMost(a, a, "ALLOCATED_BLOCK_ON_FREELIST", r.block)
      /\ SaysAtMost(large, i, "INVALID", r)
      /\ SaysAtMost(low, v, "RESERVED", r)
  BY DEF SaysAtMost, Says
<1>4. BlockComplaints(r) = IF r.block \in my_bfree THEN a ELSE large \o low
  BY DEF BlockComplaints
<1>5. /\ large = IF TooLarge(r.block) THEN i ELSE <<>>
      /\ low = IF Reserved(r.block) THEN v ELSE <<>>
  OBVIOUS
<1>6. /\ "ALLOCATED_BLOCK_ON_FREELIST" \in Sayings /\ "INVALID" \in Sayings /\ "RESERVED" \in Sayings
      /\ BlockSayings = {"ALLOCATED_BLOCK_ON_FREELIST", "INVALID", "RESERVED"}
  BY DEF Sayings, BlockSayings
<1> HIDE DEF a, i, v, large, low
<1>7. a \in Seq(Complaints) /\ Whats(a) \subseteq {"ALLOCATED_BLOCK_ON_FREELIST"} /\ a # <<>>
  BY <1>2, <1>3, <1>6, ToldMaybe
<1>8. large \in Seq(Complaints) /\ Whats(large) \subseteq {"INVALID"} /\ i # <<>>
  BY <1>2, <1>3, <1>6, ToldMaybe
<1>9. low \in Seq(Complaints) /\ Whats(low) \subseteq {"RESERVED"} /\ v # <<>>
  BY <1>2, <1>3, <1>6, ToldMaybe
<1>10. large \o low \in Seq(Complaints) /\ Whats(large \o low) = Whats(large) \cup Whats(low)
  <2>1. large \in Seq(Complaints) /\ low \in Seq(Complaints)
    BY <1>8, <1>9
  <2>2. large \o low \in Seq(Complaints)
    BY <2>1, ConcatProperties
  <2>3. Whats(large \o low) = Whats(large) \cup Whats(low)
    BY <2>1, WhatsConcat
  <2>4. QED
    BY <2>2, <2>3
<1>11. large \o low = <<>> <=> large = <<>> /\ low = <<>>
  <2>1. /\ Len(large) \in Nat /\ Len(low) \in Nat /\ Len(large \o low) = Len(large) + Len(low)
    BY <1>8, <1>9, ConcatProperties
  <2>2. /\ large \o low = <<>> <=> Len(large \o low) = 0
        /\ large = <<>> <=> Len(large) = 0
        /\ low = <<>> <=> Len(low) = 0
    BY <1>8, <1>9, <1>10, EmptySeq
  <2>3. QED
    BY <2>1, <2>2
<1>12. QED
  BY <1>1, <1>4, <1>5, <1>6, <1>7, <1>8, <1>9, <1>10, <1>11

LEMMA WithoutNothing == ASSUME NEW S, NEW s \in Seq(S) PROVE Without(s, {}) = s
<1> DEFINE T == {r \in Seq(S) : Without(r, {}) = r}
<1>1. <<>> \in T
  BY EmptySeq, WithoutEmpty
<1>2. ASSUME NEW r \in Seq(S), r \in T, NEW e \in S PROVE Append(r, e) \in T
  <2>1. Append(r, e) \in Seq(S) /\ e \notin {}
    OBVIOUS
  <2>2. Without(Append(r, e), {}) = Append(Without(r, {}), e)
    BY <2>1, WithoutAppend
  <2>3. QED
    BY <1>2, <2>1, <2>2
<1>3. Seq(S) \subseteq T
  BY <1>1, <1>2, SeqSetInduction
<1>4. QED
  BY <1>3

\* The complaints about all references of a list.
Said(refs) == FlattenSeq([k \in DOMAIN refs |-> BlockComplaints(refs[k])])

LEMMA AllTold ==
    ASSUME Facts, NEW refs \in Seq(Mentioned)
    PROVE  /\ Said(refs) \in Seq(Complaints)
           /\ Whats(Said(refs)) \subseteq BlockSayings
           /\ Said(refs) = <<>> <=> \A r \in ToSet(refs) : FineMention(r)
<1> DEFINE ss == [k \in DOMAIN refs |-> BlockComplaints(refs[k])]
<1>1. Len(refs) \in Nat /\ DOMAIN refs = 1 .. Len(refs) /\ \A k \in DOMAIN refs : refs[k] \in Mentioned
  OBVIOUS
<1>2. ss \in Seq(Seq(Complaints))
  <2>1. \A k \in DOMAIN refs : BlockComplaints(refs[k]) \in Seq(Complaints)
    BY <1>1, BlockTold
  <2>2. QED
    BY <1>1, <2>1
<1>3. DOMAIN ss = DOMAIN refs /\ \A k \in DOMAIN refs : ss[k] = BlockComplaints(refs[k])
  OBVIOUS
<1> HIDE DEF ss
<1>4. Said(refs) = FlattenSeq(ss)
  BY DEF Said, ss
<1>5. FlattenSeq(ss) \in Seq(Complaints)
  BY <1>2, FlattenAppend, EmptySeq
<1>6. ToSet(FlattenSeq(ss)) = UNION {ToSet(s) : s \in ToSet(ss)}
  BY <1>2, RangeFlatten
<1>7. ASSUME NEW s \in ToSet(ss)
      PROVE  \E k \in DOMAIN refs : s = BlockComplaints(refs[k]) /\ refs[k] \in Mentioned
  BY <1>1, <1>3 DEF ToSet
<1>8. Whats(FlattenSeq(ss)) \subseteq BlockSayings
  <2>1. ASSUME NEW c \in ToSet(FlattenSeq(ss)) PROVE c.what \in BlockSayings
    <3>1. PICK s \in ToSet(ss) : c \in ToSet(s)
      BY <1>6
    <3>2. PICK k \in DOMAIN refs : s = BlockComplaints(refs[k]) /\ refs[k] \in Mentioned
      BY <1>7
    <3>3. Whats(s) \subseteq BlockSayings
      BY <3>2, BlockTold
    <3>4. QED
      BY <3>1, <3>3 DEF Whats
  <2>2. QED
    BY <2>1 DEF Whats
<1>9. FlattenSeq(ss) = <<>> <=> \A k \in DOMAIN refs : BlockComplaints(refs[k]) = <<>>
  <2>1. FlattenSeq(ss) = <<>> <=> ToSet(FlattenSeq(ss)) = {}
    BY <1>5, RangeEmpty
  <2>2. \A k \in DOMAIN refs : BlockComplaints(refs[k]) = <<>> <=> ToSet(BlockComplaints(refs[k])) = {}
    <3>1. TAKE k \in DOMAIN refs
    <3>2. BlockComplaints(refs[k]) \in Seq(Complaints)
      BY <1>1, BlockTold
    <3>3. QED
      BY <3>2, RangeEmpty
  <2>3. ToSet(FlattenSeq(ss)) = {} <=> \A k \in DOMAIN refs : ToSet(BlockComplaints(refs[k])) = {}
    <3>1. \A k \in DOMAIN refs : BlockComplaints(refs[k]) \in ToSet(ss)
      BY <1>3 DEF ToSet
    <3>2. QED
      BY <1>6, <1>7, <3>1
  <2>4. QED
    BY <2>1, <2>2, <2>3
<1>10. \A k \in DOMAIN refs : BlockComplaints(refs[k]) = <<>> <=> FineMention(refs[k])
  BY <1>1, BlockTold
<1>11. QED
  BY <1>4, <1>5, <1>8, <1>9, <1>10 DEF ToSet

\* What any line mentions is among the references.
LEMMA ReferencesHave ==
    ASSUME Facts
    PROVE  /\ References \in Seq(Mentioned)
           /\ \A k \in 1 .. Len(my_inode) : ToSet(InodeReferences(my_inode[k])) \subseteq ToSet(References)
           /\ \A k \in 1 .. Len(my_indir) : IndirectReference(my_indir[k]) \in ToSet(References)
<1> DEFINE ss == [k \in 1 .. Len(my_inode) |-> InodeReferences(my_inode[k])]
           t == [k \in 1 .. Len(my_indir) |-> IndirectReference(my_indir[k])]
<1>1. /\ Len(my_inode) \in 0 .. Len(my_inode) /\ Len(my_indir) \in 0 .. Len(my_indir)
      /\ DOMAIN my_inode = 1 .. Len(my_inode) /\ DOMAIN my_indir = 1 .. Len(my_indir)
  BY Numerals
<1>2. /\ ss \in Seq(Seq(Mentioned)) /\ FlattenSeq(ss) \in Seq(Mentioned)
      /\ t \in Seq(Mentioned)
  BY <1>1, PiecesAre, TreesAre
<1>3. References = FlattenSeq(ss) \o t
  BY <1>1 DEF References
<1>4. \A k \in 1 .. Len(my_inode) : InodeReferences(my_inode[k]) \in ToSet(ss)
  BY DEF ToSet
<1>5. \A k \in 1 .. Len(my_indir) : IndirectReference(my_indir[k]) \in ToSet(t)
  BY DEF ToSet
<1> HIDE DEF ss, t
<1>6. References \in Seq(Mentioned) /\ ToSet(References) = ToSet(FlattenSeq(ss)) \cup ToSet(t)
  BY <1>2, <1>3, RangeConcat, ConcatProperties
<1>7. ToSet(FlattenSeq(ss)) = UNION {ToSet(s) : s \in ToSet(ss)}
  BY <1>2, RangeFlatten
<1>8. QED
  BY <1>4, <1>5, <1>6, <1>7

-----------------------------------------------------------------------------
(* Filing the mentions.                                                    *)

\* What the loops over blocks leave alone.
LEMMA BlockLoopKeeps ==
    ASSUME RunInv, UNCHANGED <<csv, summary>>,
           UNCHANGED <<my_ifree, my_allocated_inodes, my_dict_inode>>,
           NEW q, Told(q), Whats(q) \subseteq BlockSayings \cup {"DUPLICATE"},
           audit \in {"blocks", "indirect", "duplicates"}, audit' \in BlockLoops,
           turn' \in Nat, audit' = "unreferenced" => turn' = 0,
           Sane => q = <<>>
    PROVE  /\ FreeInv' /\ OnceInv' /\ EntryInv' /\ ParentInv' /\ CrashInv'
           /\ printed' = <<>> => SilentInodes' /\ SilentEntries'
           /\ Facts' /\ SaneInv'
           /\ UnreferencedTurns' = 0
<1>1. /\ audit \in BlockLoops /\ audit # "exit1"
      /\ audit' \notin {"exit0", "exit1", "exit2", "inodes", "missing", "entries", "links"}
  BY DEF BlockLoops
<1>2. /\ InodeTurns' = InodeTurns /\ MissingTurns = 0 /\ MissingTurns' = 0
      /\ EntryTurns = 0 /\ EntryTurns' = 0 /\ LinkTurns = 0 /\ LinkTurns' = 0
      /\ UnreferencedTurns' = 0
  BY <1>1 DEF InodeTurns, MissingTurns, EntryTurns, LinkTurns, UnreferencedTurns, BlockLoops
<1>3. /\ Whats(q) \cap (NotFree \cup SaidInUse) = {} /\ Whats(q) \cap {"UNALLOCATED_INODE"} = {}
  BY DEF BlockSayings, NotFree, SaidInUse
<1>4. FreeInv' /\ OnceInv' /\ (printed' = <<>> => SilentInodes')
  <2>1. MissingTurns \in Int /\ MissingTurns' \in Int /\ MissingTurns' <= MissingTurns
    BY <1>2
  <2>2. audit' \in BlockLoops \cup {"inodes"} => audit \in BlockLoops \cup {"inodes"}
    BY <1>1
  <2>3. QED
    BY <1>2, <1>3, <2>1, <2>2, InodesStill
<1>5. EntryInv' /\ CrashInv' /\ (printed' = <<>> => SilentEntries')
  BY <1>1, <1>2, <1>3, EntriesStill
<1>6. ParentInv'
  BY <1>1 DEF ParentInv
<1>7. Facts' /\ SaneInv'
  BY <1>1, SaneStill
<1>8. QED
  BY <1>2, <1>4, <1>5, <1>6, <1>7

LEMMA IndirectKeeps ==
    ASSUME RunInv, AuditIndirect, UNCHANGED <<csv, summary>>
    PROVE  RunInv'
<1>1. Facts /\ Types /\ ErrorInv /\ SaneInv /\ SilentInv
  BY DEF RunInv
<1> DEFINE r == IndirectReference(my_indir[turn + 1])
           q == BlockComplaints(r)
<1>2. /\ audit = "indirect" /\ turn < Len(my_indir) /\ turn' = turn + 1 /\ audit' = audit
      /\ printed' = printed \o q /\ my_error' = (my_error \/ q # <<>>)
      /\ block_dic' = IF r.block \in my_bfree THEN block_dic ELSE Append(block_dic, r)
      /\ UNCHANGED <<my_ifree, my_allocated_inodes, my_parent_inode, my_dict_inode>>
  BY DEF AuditIndirect, Turn, Tell, inodesUnchanged
<1>3. turn \in Nat /\ Len(my_indir) \in Nat /\ block_dic \in Seq(Mentioned)
  BY <1>1, Numerals DEF Types
<1>4. turn + 1 \in 1 .. Len(my_indir) /\ turn \in 0 .. Len(my_indir)
  BY <1>2, <1>3
<1>5. r \in Mentioned /\ r \in ToSet(References)
  <2>1. my_indir[turn + 1] \in IndirectLines
    BY <1>1, <1>4 DEF Facts
  <2>2. QED
    BY <1>1, <1>4, <2>1, IndirectIs, ReferencesHave
<1> HIDE DEF r
<1>6. q \in Seq(Complaints) /\ Whats(q) \subseteq BlockSayings /\ (q = <<>> <=> FineMention(r))
  BY <1>1, <1>5, BlockTold
<1> HIDE DEF q
<1>7. Told(q)
  BY <1>2, <1>6 DEF Told
<1>8. FineMention(r) => r.block \notin my_bfree
  BY DEF FineMention
<1>9. Sane => q = <<>>
  <2>1. SUFFICES ASSUME Sane PROVE FineMention(r)
    BY <1>6
  <2>2. r.block \in (start_block .. my_sp.num_blocks - 1) \ my_bfree
    BY <1>5, <2>1 DEF Sane, Consistent, BlocksConsistent
  <2>3. PICK b \in Int, s \in Nat, n \in Nat : b = r.block /\ s = start_block /\ n = my_sp.num_blocks
    BY <1>1, <1>5, FineIs, Numerals
  <2>4. b \in s .. n - 1 => b \in s .. n
    BY <2>3
  <2>5. QED
    BY <2>2, <2>3, <2>4 DEF FineMention
<1>10. audit' \in BlockLoops /\ audit \in Loops
  BY <1>2 DEF BlockLoops, Loops
<1>11. /\ FreeInv' /\ OnceInv' /\ EntryInv' /\ ParentInv' /\ CrashInv'
       /\ printed' = <<>> => SilentInodes' /\ SilentEntries'
       /\ Facts' /\ SaneInv'
       /\ UnreferencedTurns' = 0
  <2>1. turn' \in Nat /\ audit' # "unreferenced" /\ audit \in {"blocks", "indirect", "duplicates"}
    BY <1>2, <1>3
  <2>2. QED
    BY <1>2, <1>6, <1>7, <1>9, <1>10, <2>1, BlockLoopKeeps
<1>12. /\ BlockTurns' = Len(my_inode) /\ BlockTurns = Len(my_inode)
       /\ IndirectTurns = turn /\ IndirectTurns' = turn + 1
  <2>1. BlockTurns = Len(my_inode)
    BY <1>2 DEF BlockTurns
  <2>2. QED
    BY <1>1, <1>2, <1>10, <2>1, TurnTurns
<1>13. block_dic' \in Seq(Mentioned)
  BY <1>2, <1>3, <1>5
<1>14. ASSUME printed' = <<>> PROVE SilentBlocks'
  <2>1. printed = <<>> /\ q = <<>>
    BY <1>1, <1>7, <1>14, ToldMore
  <2>2. SilentBlocks /\ FineMention(r) /\ block_dic' = Append(block_dic, r)
    BY <1>1, <1>2, <1>6, <1>8, <2>1 DEF SilentInv
  <2>3. /\ \A m, i : Filed(m, i)' = Filed(m, i)
        /\ \A s : FineMention(s)' <=> FineMention(s)
        /\ start_block' = start_block
    BY Frame
  <2>4. block_dic' = Filed(Len(my_inode), turn + 1)
    <3>1. Len(my_inode) \in 0 .. Len(my_inode)
      BY <1>1, Numerals
    <3>2. block_dic = Filed(Len(my_inode), turn)
      BY <1>12, <2>2 DEF SilentBlocks
    <3>3. QED
      BY <1>1, <1>2, <1>4, <2>2, <3>1, <3>2, FiledIndirect DEF r
  <2>5. \A s \in ToSet(block_dic') : FineMention(s)
    <3>1. ToSet(block_dic') = ToSet(block_dic) \cup {r}
      BY <1>3, <1>5, <2>2, RangeAppend
    <3>2. QED
      BY <2>2, <3>1 DEF SilentBlocks
  <2>6. start_block \in Nat
    BY <1>1, Numerals
  <2>7. start_block .. start_block + UnreferencedTurns' - 1 = {}
    BY <1>11, <2>6
  <2>8. QED
    BY <1>2, <1>12, <2>3, <2>4, <2>5, <2>7 DEF SilentBlocks
<1>15. ErrorInv' /\ my_error' \in BOOLEAN
  <2>1. Whats(q) \cap Quiet = {} /\ audit' \notin {"exit0", "exit2"}
    BY <1>2, <1>6 DEF Quiet, BlockSayings
  <2>2. QED
    BY <1>1, <1>2, <1>7, <2>1, ToldError
<1>16. Types'
  <2>1. printed' \in Seq(Complaints) /\ turn' \in Nat /\ turn' <= Len(my_indir')
    BY <1>1, <1>2, <1>3, <1>7, ToldMore DEF summary
  <2>2. QED
    BY <1>1, <1>2, <1>13, <1>15, <2>1 DEF Types
<1>17. QED
  BY <1>11, <1>14, <1>15, <1>16 DEF RunInv, SilentInv

LEMMA InodeBlocksKeeps ==
    ASSUME RunInv, AuditInodeBlocks, UNCHANGED <<csv, summary>>
    PROVE  RunInv'
<1>1. Facts /\ Types /\ ErrorInv /\ SaneInv /\ SilentInv
  BY DEF RunInv
<1> DEFINE refs == InodeReferences(my_inode[turn + 1])
           insane == {r \in ToSet(refs) :
                         r.block \in my_bfree \/ TooLarge(r.block) \/ Reserved(r.block)}
           q == Said(refs)
<1>2. /\ audit = "blocks" /\ turn < Len(my_inode) /\ turn' = turn + 1 /\ audit' = audit
      /\ printed' = printed \o q /\ my_error' = (my_error \/ q # <<>>)
      /\ block_dic' = block_dic \o Without(refs, insane)
      /\ UNCHANGED <<my_ifree, my_allocated_inodes, my_parent_inode, my_dict_inode>>
  BY DEF AuditInodeBlocks, Turn, Tell, inodesUnchanged, Said
<1>3. turn \in Nat /\ Len(my_inode) \in Nat /\ block_dic \in Seq(Mentioned)
  BY <1>1, Numerals DEF Types
<1>4. turn + 1 \in 1 .. Len(my_inode) /\ turn \in 0 .. Len(my_inode)
  BY <1>2, <1>3
<1>5. refs \in Seq(Mentioned) /\ ToSet(refs) \subseteq ToSet(References) /\ ToSet(refs) \subseteq Mentioned
  <2>1. my_inode[turn + 1] \in InodeLines
    BY <1>1, <1>4, LineOfInode
  <2>2. refs \in Seq(Mentioned)
    BY <2>1, ReferencesAre
  <2>3. ToSet(refs) \subseteq ToSet(References)
    BY <1>1, <1>4, ReferencesHave
  <2>4. QED
    BY <2>2, <2>3, RangeType
<1>6. insane = {r \in ToSet(refs) : ~FineMention(r)}
  BY <1>1, <1>5, FineIs
<1> HIDE DEF refs, insane
<1>7. /\ q \in Seq(Complaints) /\ Whats(q) \subseteq BlockSayings
      /\ q = <<>> <=> \A r \in ToSet(refs) : FineMention(r)
  BY <1>1, <1>5, AllTold
<1> HIDE DEF q
<1>8. Told(q)
  BY <1>2, <1>7 DEF Told
<1>9. Sane => q = <<>>
  <2>1. SUFFICES ASSUME Sane, NEW r \in ToSet(refs) PROVE FineMention(r)
    BY <1>7
  <2>2. r.block \in (start_block .. my_sp.num_blocks - 1) \ my_bfree
    BY <1>5, <2>1 DEF Sane, Consistent, BlocksConsistent
  <2>3. r \in Mentioned
    BY <1>5
  <2>4. PICK b \in Int, s \in Nat, n \in Nat : b = r.block /\ s = start_block /\ n = my_sp.num_blocks
    BY <1>1, <2>3, FineIs, Numerals
  <2>5. b \in s .. n - 1 => b \in s .. n
    BY <2>4
  <2>6. QED
    BY <2>2, <2>4, <2>5 DEF FineMention
<1>10. audit' \in BlockLoops /\ audit \in Loops
  BY <1>2 DEF BlockLoops, Loops
<1>11. /\ FreeInv' /\ OnceInv' /\ EntryInv' /\ ParentInv' /\ CrashInv'
       /\ printed' = <<>> => SilentInodes' /\ SilentEntries'
       /\ Facts' /\ SaneInv'
       /\ UnreferencedTurns' = 0
  <2>1. turn' \in Nat /\ audit' # "unreferenced" /\ audit \in {"blocks", "indirect", "duplicates"}
    BY <1>2, <1>3
  <2>2. QED
    BY <1>2, <1>7, <1>8, <1>9, <1>10, <2>1, BlockLoopKeeps
<1>12. /\ BlockTurns = turn /\ BlockTurns' = turn + 1
       /\ IndirectTurns = 0 /\ IndirectTurns' = 0
  <2>1. IndirectTurns = 0
    BY <1>2 DEF IndirectTurns
  <2>2. QED
    BY <1>1, <1>2, <1>10, <2>1, TurnTurns
<1>13. block_dic' \in Seq(Mentioned)
  <2>1. Without(refs, insane) \in Seq(Mentioned)
    BY <1>5, WithoutType
  <2>2. QED
    BY <1>2, <1>3, <2>1, ConcatProperties
<1>14. ASSUME printed' = <<>> PROVE SilentBlocks'
  <2>1. printed = <<>> /\ q = <<>>
    BY <1>1, <1>8, <1>14, ToldMore
  <2>2. SilentBlocks /\ \A r \in ToSet(refs) : FineMention(r)
    BY <1>1, <1>7, <2>1 DEF SilentInv
  <2>3. block_dic' = block_dic \o refs
    <3>1. insane = {}
      BY <1>6, <2>2
    <3>2. Without(refs, {}) = refs
      BY <1>5, WithoutNothing
    <3>3. QED
      BY <1>2, <3>1, <3>2
  <2>4. /\ \A m, i : Filed(m, i)' = Filed(m, i)
        /\ \A s : FineMention(s)' <=> FineMention(s)
        /\ start_block' = start_block
    BY Frame
  <2>5. block_dic' = Filed(turn + 1, 0)
    <3>1. block_dic = Filed(turn, 0)
      BY <1>12, <2>2 DEF SilentBlocks
    <3>2. QED
      BY <1>1, <1>2, <1>4, <2>3, <3>1, FiledInode DEF refs
  <2>6. \A s \in ToSet(block_dic') : FineMention(s)
    <3>1. ToSet(block_dic') = ToSet(block_dic) \cup ToSet(refs)
      BY <1>3, <1>5, <2>3, RangeConcat
    <3>2. QED
      BY <2>2, <3>1 DEF SilentBlocks
  <2>7. start_block \in Nat
    BY <1>1, Numerals
  <2>8. start_block .. start_block + UnreferencedTurns' - 1 = {}
    BY <1>11, <2>7
  <2>9. QED
    BY <1>2, <1>12, <2>4, <2>5, <2>6, <2>8 DEF SilentBlocks
<1>15. ErrorInv' /\ my_error' \in BOOLEAN
  <2>1. Whats(q) \cap Quiet = {} /\ audit' \notin {"exit0", "exit2"}
    BY <1>2, <1>7 DEF Quiet, BlockSayings
  <2>2. QED
    BY <1>1, <1>2, <1>8, <2>1, ToldError
<1>16. Types'
  <2>1. printed' \in Seq(Complaints) /\ turn' \in Nat /\ turn' <= Len(my_inode')
    BY <1>1, <1>2, <1>3, <1>8, ToldMore DEF summary
  <2>2. QED
    BY <1>1, <1>2, <1>13, <1>15, <2>1 DEF Types
<1>17. QED
  BY <1>11, <1>14, <1>15, <1>16 DEF RunInv, SilentInv

LEMMA DuplicatesKeeps ==
    ASSUME RunInv, AuditDuplicates, UNCHANGED <<csv, summary>>
    PROVE  RunInv'
<1>1. Facts /\ Types /\ ErrorInv /\ SaneInv /\ SilentInv
  BY DEF RunInv
<1> DEFINE Mentions(r) == {k \in DOMAIN block_dic : block_dic[k].block = r.block}
           single == {r \in ToSet(block_dic) : \A j, k \in Mentions(r) : j = k}
           shared == Without(block_dic, single)
           q == [k \in DOMAIN shared |-> Complaint("DUPLICATE", shared[k])]
           distinct == \A j, k \in DOMAIN block_dic : block_dic[j].block = block_dic[k].block => j = k
<1>2. /\ audit = "duplicates" /\ turn' = 0 /\ audit' = "unreferenced"
      /\ printed' = printed \o q /\ my_error' = my_error /\ block_dic' = block_dic
      /\ UNCHANGED <<my_ifree, my_allocated_inodes, my_parent_inode, my_dict_inode>>
  BY DEF AuditDuplicates, EndLoop, inodesUnchanged
<1>3. block_dic \in Seq(Mentioned)
  BY <1>1 DEF Types
<1>4. single = ToSet(block_dic) <=> distinct
  BY DEF ToSet
<1>5. single \subseteq ToSet(block_dic)
  OBVIOUS
<1> HIDE DEF single, distinct
<1>6. shared \in Seq(Mentioned) /\ ToSet(shared) = ToSet(block_dic) \ single
  BY <1>3, WithoutType, RangeWithout
<1> HIDE DEF shared
<1>7. shared = <<>> <=> distinct
  <2>1. shared = <<>> <=> ToSet(shared) = {}
    BY <1>6, RangeEmpty
  <2>2. QED
    BY <1>4, <1>5, <1>6, <2>1
<1>8. q \in Seq(Complaints) /\ Whats(q) \subseteq {"DUPLICATE"} /\ (q = <<>> <=> shared = <<>>)
  <2>1. Len(shared) \in Nat /\ DOMAIN shared = 1 .. Len(shared) /\ \A k \in DOMAIN shared : shared[k] \in Mentioned
    BY <1>6
  <2>2. ASSUME NEW k \in DOMAIN shared
        PROVE  Complaint("DUPLICATE", shared[k]) \in Complaints /\ Complaint("DUPLICATE", shared[k]).what = "DUPLICATE"
    BY <2>1 DEF Complaint, Complaints, Sayings
  <2>3. q \in Seq(Complaints) /\ Len(q) = Len(shared)
    BY <2>1, <2>2
  <2>4. ASSUME NEW c \in ToSet(q) PROVE c.what = "DUPLICATE"
    <3>1. PICK k \in DOMAIN shared : c = Complaint("DUPLICATE", shared[k])
      BY DEF ToSet
    <3>2. QED
      BY <2>2, <3>1
  <2>5. Whats(q) \subseteq {"DUPLICATE"}
    <3> HIDE DEF q
    <3>1. QED
      BY <2>4 DEF Whats
  <2>6. q = <<>> <=> shared = <<>>
    <3> HIDE DEF q
    <3>1. /\ q = <<>> <=> Len(q) = 0
          /\ shared = <<>> <=> Len(shared) = 0
      BY <1>6, <2>3, EmptySeq
    <3>2. QED
      BY <2>3, <3>1
  <2>7. QED
    BY <2>3, <2>5, <2>6
<1> HIDE DEF q
<1>9. Told(q)
  BY <1>2, <1>8 DEF Told
<1>10. BlockTurns = Len(my_inode) /\ IndirectTurns = Len(my_indir)
  BY <1>2 DEF BlockTurns, IndirectTurns
<1>11. BlockTurns' = BlockTurns /\ IndirectTurns' = IndirectTurns
  BY <1>2, <1>10 DEF BlockTurns, IndirectTurns, summary
<1>12. Sane => q = <<>>
  <2>1. SUFFICES ASSUME Sane PROVE distinct
    BY <1>7, <1>8
  <2>2. SilentBlocks
    BY <1>1, <2>1 DEF SaneInv, SilentInv
  <2>3. References = block_dic
    BY <1>1, <1>10, <2>2, FiledSane
  <2>4. QED
    BY <2>1, <2>3 DEF Sane, Consistent, BlocksConsistent, distinct
<1>13. /\ FreeInv' /\ OnceInv' /\ EntryInv' /\ ParentInv' /\ CrashInv'
       /\ printed' = <<>> => SilentInodes' /\ SilentEntries'
       /\ Facts' /\ SaneInv'
       /\ UnreferencedTurns' = 0
  <2>1. audit' \in BlockLoops /\ audit \in {"blocks", "indirect", "duplicates"} /\ turn' \in Nat
    BY <1>2 DEF BlockLoops
  <2>2. QED
    BY <1>2, <1>8, <1>9, <1>12, <2>1, BlockLoopKeeps
<1>14. ASSUME printed' = <<>> PROVE SilentBlocks'
  <2>1. printed = <<>> /\ q = <<>>
    BY <1>1, <1>9, <1>14, ToldMore
  <2>2. SilentBlocks /\ distinct
    BY <1>1, <1>7, <1>8, <2>1 DEF SilentInv
  <2>3. /\ \A m, i : Filed(m, i)' = Filed(m, i)
        /\ \A s : FineMention(s)' <=> FineMention(s)
        /\ start_block' = start_block
    BY Frame
  <2>4. start_block \in Nat
    BY <1>1, Numerals
  <2>5. start_block .. start_block + UnreferencedTurns' - 1 = {}
    BY <1>13, <2>4
  <2>6. QED
    BY <1>2, <1>11, <2>2, <2>3, <2>5 DEF SilentBlocks, distinct
<1>15. ErrorInv'
  <2>1. Whats(printed') = Whats(printed) \cup Whats(q)
    BY <1>1, <1>9, ToldMore
  <2>2. Whats(q) \subseteq Quiet
    BY <1>8 DEF Quiet
  <2>3. QED
    BY <1>1, <1>2, <2>1, <2>2 DEF ErrorInv
<1>16. Types'
  <2>1. printed' \in Seq(Complaints)
    BY <1>1, <1>9, ToldMore
  <2>2. audit' \in Loops
    BY <1>2 DEF Loops, BlockLoops
  <2>3. QED
    BY <1>1, <1>2, <2>1, <2>2 DEF Types
<1>17. QED
  BY <1>13, <1>14, <1>15, <1>16 DEF RunInv, SilentInv

-----------------------------------------------------------------------------
(* Parents.                                                                *)

LEMMA MaxIs ==
    ASSUME NEW n \in Nat, NEW T \in SUBSET (1 .. n), T # {}
    PROVE  Max(T) \in T
<1> DEFINE D == {n - x : x \in T}
<1>1. D \in SUBSET Nat /\ D # {}
  <2>1. \A x \in T : n - x \in Nat
    OBVIOUS
  <2>2. D \in SUBSET Nat
    BY <2>1
  <2>3. D # {}
    OBVIOUS
  <2>4. QED
    BY <2>2, <2>3
<1>2. PICK d \in D : \A j \in D : d <= j
  BY <1>1, Least
<1>3. PICK m \in T : d = n - m
  BY <1>2
<1>4. \A x \in T : m >= x
  <2>1. TAKE x \in T
  <2>2. d <= n - x
    BY <1>2
  <2>3. QED
    BY <1>3, <2>2
<1>5. QED
  BY <1>4 DEF Max

LEMMA ParentsKeeps ==
    ASSUME RunInv, FindParents, UNCHANGED <<csv, summary>>
    PROVE  RunInv'
<1>1. Facts /\ Types /\ ErrorInv
  BY DEF RunInv
<1> DEFINE named == {n \in {e.entry_reference_inode : e \in ToSet(my_dir)} : GoodNaming(n) # {}}
           par == [n \in {2} \cup named |->
                      IF n = 2 THEN 2 ELSE my_dir[Max(GoodNaming(n))].parent_inode]
<1>2. /\ audit = "parents" /\ turn' = 0 /\ audit' = "entries"
      /\ UNCHANGED <<my_ifree, block_dic, my_allocated_inodes, my_dict_inode, printed, my_error>>
      /\ my_parent_inode' = par
  BY DEF FindParents, EndLoop
<1>3. Told(<<>>) /\ Whats(<<>>) = {}
  BY <1>1, <1>2, ToldNothing, WhatsNone
<1>4. /\ BlockTurns' = BlockTurns /\ IndirectTurns' = IndirectTurns
      /\ UnreferencedTurns' = UnreferencedTurns
      /\ InodeTurns' = InodeTurns /\ MissingTurns' = MissingTurns
      /\ EntryTurns = 0 /\ EntryTurns' = 0 /\ LinkTurns = 0 /\ LinkTurns' = 0
  <2>1. start_block' = start_block
    BY Frame
  <2>2. QED
    BY <1>2, <2>1 DEF BlockTurns, IndirectTurns, UnreferencedTurns, InodeTurns, MissingTurns,
           EntryTurns, LinkTurns, BlockLoops, summary
<1>5. UnreferencedTurns \in Int /\ MissingTurns \in Int
  BY <1>1, TurnsAre
<1>6. printed' = <<>> => SilentBlocks'
  <2>1. audit \notin Early /\ UnreferencedTurns' <= UnreferencedTurns
    BY <1>2, <1>4, <1>5 DEF Early
  <2>2. QED
    BY <1>2, <1>3, <1>4, <1>5, <2>1, BlocksStill
<1>7. FreeInv' /\ OnceInv' /\ (printed' = <<>> => SilentInodes')
  <2>1. MissingTurns' <= MissingTurns /\ audit' \notin BlockLoops \cup {"inodes"}
    BY <1>2, <1>4, <1>5 DEF BlockLoops
  <2>2. QED
    BY <1>2, <1>3, <1>4, <1>5, <2>1, InodesStill
<1>8. EntryInv' /\ CrashInv' /\ (printed' = <<>> => SilentEntries')
  <2>1. audit # "exit1" /\ audit' # "exit1"
    BY <1>2
  <2>2. QED
    BY <1>2, <1>3, <1>4, <2>1, EntriesStill
<1>9. ErrorInv'
  BY <1>1, <1>2 DEF ErrorInv
<1>10. Types'
  <2>1. audit' \in Loops /\ Len(my_dir) \in Nat /\ my_dir' = my_dir
    BY <1>1, <1>2, Numerals DEF Loops, summary
  <2>2. QED
    BY <1>1, <1>2, <2>1 DEF Types
<1>11. ParentInv'
  <2>1. my_dir' = my_dir /\ \A n : GoodNaming(n)' = GoodNaming(n) /\ Naming(n)' = Naming(n)
    BY <1>2, Frame DEF GoodNaming, summary
  <2>2. Len(my_dir) \in Nat /\ DOMAIN my_dir = 1 .. Len(my_dir)
    BY <1>1, Numerals
  <2>3. \A n : GoodNaming(n) \subseteq Naming(n) /\ Naming(n) \subseteq 1 .. Len(my_dir)
    BY <2>2 DEF GoodNaming, Naming
  <2>4. ASSUME NEW n, GoodNaming(n) # {} PROVE n \in named
    <3>1. PICK k \in GoodNaming(n) : TRUE
      BY <2>4
    <3>2. k \in DOMAIN my_dir /\ my_dir[k].entry_reference_inode = n
      BY <3>1 DEF GoodNaming, Naming
    <3>3. my_dir[k] \in ToSet(my_dir)
      BY <3>2 DEF ToSet
    <3>4. QED
      BY <2>4, <3>2, <3>3
  <2>5. ASSUME NEW n \in named PROVE Max(GoodNaming(n)) \in Naming(n)
    <3>1. GoodNaming(n) # {} /\ GoodNaming(n) \in SUBSET (1 .. Len(my_dir))
      BY <2>3, <2>5
    <3>2. QED
      BY <2>2, <2>3, <3>1, MaxIs
  <2>6. /\ DOMAIN par = {2} \cup named /\ par[2] = 2
        /\ \A n \in named : n # 2 => par[n] = my_dir[Max(GoodNaming(n))].parent_inode
    OBVIOUS
  <2> HIDE DEF par, named
  <2>7. \A n \in DOMAIN par : n # 2 => \E k \in Naming(n) : par[n] = my_dir[k].parent_inode
    BY <2>5, <2>6
  <2>8. QED
    BY <1>2, <2>1, <2>4, <2>6, <2>7 DEF ParentInv
<1>12. Facts' /\ SaneInv'
  <2>1. audit' # "exit1"
    BY <1>2
  <2>2. QED
    BY <1>3, <2>1, SaneStill
<1>13. QED
  BY <1>6, <1>7, <1>8, <1>9, <1>10, <1>11, <1>12 DEF RunInv, SilentInv

-----------------------------------------------------------------------------
(* Entries.                                                                *)

LEMMA LinksMore ==
    ASSUME Facts, NEW t \in 0 .. Len(my_dir), t < Len(my_dir), NEW n
    PROVE  /\ Cardinality(LinksIn(n, t)) \in Nat
           /\ Cardinality(LinksIn(n, t + 1)) =
                 Cardinality(LinksIn(n, t))
                 + IF my_dir[t + 1].entry_reference_inode = n THEN 1 ELSE 0
<1>1. t \in Nat
  BY Numerals
<1>2. 1 .. t + 1 = 1 .. t \cup {t + 1} /\ t + 1 \notin 1 .. t
  BY <1>1
<1>3. LinksIn(n, t) \in SUBSET (1 .. t) /\ IsFiniteSet(1 .. t)
  BY <1>1, FS_Interval DEF LinksIn
<1>4. IsFiniteSet(LinksIn(n, t)) /\ t + 1 \notin LinksIn(n, t)
  BY <1>2, <1>3, FS_Subset
<1>5. Cardinality(LinksIn(n, t)) \in Nat
  BY <1>4, FS_CardinalityType
<1>6. CASE my_dir[t + 1].entry_reference_inode = n
  <2>1. LinksIn(n, t + 1) = LinksIn(n, t) \cup {t + 1}
    BY <1>2, <1>6 DEF LinksIn
  <2>2. Cardinality(LinksIn(n, t) \cup {t + 1}) = Cardinality(LinksIn(n, t)) + 1
    BY <1>4, FS_AddElement
  <2>3. QED
    BY <1>5, <1>6, <2>1, <2>2
<1>7. CASE my_dir[t + 1].entry_reference_inode # n
  <2>1. LinksIn(n, t + 1) = LinksIn(n, t)
    BY <1>2, <1>7 DEF LinksIn
  <2>2. QED
    BY <1>5, <1>7, <2>1
<1>8. QED
  BY <1>6, <1>7

\* The three complaints there may be of an entry.
Pieces(e, wrong, self, up) ==
    /\ wrong = <<>> \/ Says(wrong, "UNALLOCATED_INODE", e) \/ Says(wrong, "INVALID_INODE", e)
    /\ self = <<>> \/ Says(self, "'.'", e)
    /\ up = <<>> \/ Says(up, "'..'", e)

LEMMA EntryTold ==
    ASSUME NEW e \in About, NEW wrong, NEW self, NEW up, Pieces(e, wrong, self, up)
    PROVE  /\ wrong \in Seq(Complaints) /\ self \in Seq(Complaints) /\ up \in Seq(Complaints)
           /\ wrong \o self \o up \in Seq(Complaints)
           /\ wrong \o self \o up = <<>> <=> wrong = <<>> /\ self = <<>> /\ up = <<>>
           /\ Whats(wrong \o self \o up) \cap (NotFree \cup SaidInUse) = {}
           /\ Whats(wrong \o self \o up) \subseteq Quiet <=> wrong = <<>> /\ self = <<>>
           /\ AboutsOf(wrong \o self \o up, {"UNALLOCATED_INODE"}) =
                 IF Says(wrong, "UNALLOCATED_INODE", e) THEN {e} ELSE {}
<1>1. ASSUME NEW what \in Sayings, NEW q, Says(q, what, e)
      PROVE  /\ q \in Seq(Complaints) /\ q # <<>> /\ Whats(q) = {what}
             /\ \A kinds : AboutsOf(q, kinds) = IF what \in kinds THEN {e} ELSE {}
  BY <1>1, ToldOne DEF About
<1>2. <<>> \in Seq(Complaints) /\ Whats(<<>>) = {} /\ \A kinds : AboutsOf(<<>>, kinds) = {}
  BY EmptySeq, WhatsNone
<1>3. /\ "UNALLOCATED_INODE" \in Sayings /\ "INVALID_INODE" \in Sayings
      /\ "'.'" \in Sayings /\ "'..'" \in Sayings
  BY DEF Sayings
<1>4. /\ wrong \in Seq(Complaints)
      /\ wrong = <<>> \/ Whats(wrong) = {"UNALLOCATED_INODE"} \/ Whats(wrong) = {"INVALID_INODE"}
      /\ wrong # <<>> => Whats(wrong) # {}
      /\ AboutsOf(wrong, {"UNALLOCATED_INODE"}) =
            IF Says(wrong, "UNALLOCATED_INODE", e) THEN {e} ELSE {}
  <2>1. CASE wrong = <<>>
    BY <1>1, <1>2, <1>3, <2>1
  <2>2. CASE Says(wrong, "UNALLOCATED_INODE", e)
    <3>1. /\ wrong \in Seq(Complaints) /\ Whats(wrong) = {"UNALLOCATED_INODE"}
          /\ AboutsOf(wrong, {"UNALLOCATED_INODE"}) = {e}
      BY <1>1, <1>3, <2>2
    <3>2. QED
      BY <2>2, <3>1
  <2>3. CASE Says(wrong, "INVALID_INODE", e)
    <3>1. Whats(wrong) = {"INVALID_INODE"} /\ wrong \in Seq(Complaints)
          /\ AboutsOf(wrong, {"UNALLOCATED_INODE"}) = {}
      BY <1>1, <1>3, <2>3
    <3>2. Says(wrong, "UNALLOCATED_INODE", e) => Whats(wrong) = {"UNALLOCATED_INODE"}
      BY <1>1, <1>3
    <3>3. QED
      BY <3>1, <3>2
  <2>4. QED
    BY <2>1, <2>2, <2>3 DEF Pieces
<1>5. /\ self \in Seq(Complaints) /\ Whats(self) = IF self = <<>> THEN {} ELSE {"'.'"}
      /\ AboutsOf(self, {"UNALLOCATED_INODE"}) = {}
  BY <1>1, <1>2, <1>3 DEF Pieces
<1>6. /\ up \in Seq(Complaints) /\ Whats(up) = IF up = <<>> THEN {} ELSE {"'..'"}
      /\ AboutsOf(up, {"UNALLOCATED_INODE"}) = {}
  BY <1>1, <1>2, <1>3 DEF Pieces
<1> DEFINE ws == wrong \o self
           q == ws \o up
<1>7. ws \in Seq(Complaints) /\ q \in Seq(Complaints)
  BY <1>4, <1>5, <1>6, ConcatProperties
<1>8. /\ Whats(ws) = Whats(wrong) \cup Whats(self)
      /\ \A kinds : AboutsOf(ws, kinds) = AboutsOf(wrong, kinds) \cup AboutsOf(self, kinds)
  BY <1>4, <1>5, WhatsConcat
<1> HIDE DEF ws
<1>9. /\ Whats(q) = Whats(ws) \cup Whats(up)
      /\ \A kinds : AboutsOf(q, kinds) = AboutsOf(ws, kinds) \cup AboutsOf(up, kinds)
  BY <1>6, <1>7, WhatsConcat
<1> HIDE DEF q
<1>10. q = <<>> <=> Whats(q) = {}
  <2>1. q = <<>> <=> ToSet(q) = {}
    BY <1>7, RangeEmpty
  <2>2. QED
    BY <2>1 DEF Whats
<1>11. Whats(wrong) = {} <=> wrong = <<>>
  BY <1>2, <1>4
<1>12. q = <<>> <=> wrong = <<>> /\ self = <<>> /\ up = <<>>
  BY <1>5, <1>6, <1>8, <1>9, <1>10, <1>11
<1>13. Whats(q) \cap (NotFree \cup SaidInUse) = {}
  BY <1>2, <1>4, <1>5, <1>6, <1>8, <1>9 DEF NotFree, SaidInUse
<1>14. Whats(q) \subseteq Quiet <=> wrong = <<>> /\ self = <<>>
  BY <1>2, <1>4, <1>5, <1>6, <1>8, <1>9 DEF Quiet
<1>15. AboutsOf(q, {"UNALLOCATED_INODE"}) = IF Says(wrong, "UNALLOCATED_INODE", e) THEN {e} ELSE {}
  BY <1>4, <1>5, <1>6, <1>8, <1>9
<1>16. q = wrong \o self \o up
  BY DEF q, ws
<1>17. QED
  BY <1>4, <1>5, <1>6, <1>7, <1>12, <1>13, <1>14, <1>15, <1>16

LEMMA OtherSaid ==
    ASSUME NEW e \in About, NEW q, q = <<>> \/ Says(q, "INVALID_INODE", e)
    PROVE  ~Says(q, "UNALLOCATED_INODE", e)
<1>1. /\ "INVALID_INODE" \in Sayings /\ "UNALLOCATED_INODE" \in Sayings
      /\ e \in Int \cup CsvLines \cup Mentioned
  BY DEF Sayings, About
<1>2. Says(q, "INVALID_INODE", e) => Whats(q) = {"INVALID_INODE"}
  BY <1>1, ToldOne
<1>3. Says(q, "UNALLOCATED_INODE", e) => Whats(q) = {"UNALLOCATED_INODE"}
  BY <1>1, ToldOne
<1>4. q = <<>> => Whats(q) = {}
  BY WhatsNone
<1>5. QED
  BY <1>2, <1>3, <1>4

\* An entry of a consistent file system leaves the audit silent.
LEMMA EntrySane ==
    ASSUME RunInv, Sane, audit = "entries", turn < Len(my_dir),
           NEW e, e = my_dir[turn + 1]
    PROVE  /\ ~Contains(my_ifree, e.entry_reference_inode)
           /\ ValidInode(e.entry_reference_inode)
           /\ e.entry_name = "." => e.entry_reference_inode = e.parent_inode
           /\ e.entry_name = ".." =>
                 /\ e.parent_inode \in DOMAIN my_parent_inode
                 /\ my_parent_inode[e.parent_inode] = e.entry_reference_inode
<1>1. Facts /\ Types /\ FreeInv /\ SilentInv /\ SaneInv /\ ParentInv
  BY DEF RunInv
<1>2. DirectoriesConsistent({}) /\ InodesConsistent({}) /\ Tree
  BY DEF Sane, Consistent
<1>3. e \in ToSet(my_dir) /\ e.parent_inode \in Nat
  <2>1. turn + 1 \in 1 .. Len(my_dir)
    BY <1>1, Numerals DEF Types
  <2>2. QED
    BY <1>1, <2>1, LineOfEntry
<1>4. printed = <<>> /\ AboutsOf(printed, NotFree) = {}
  BY <1>1, WhatsNone DEF SaneInv
<1>5. \A n \in Used : ~Contains(my_ifree, n) /\ ValidInode(n)
  <2>1. SeenUsed = Used /\ SeenUnused = Unused
    <3>1. InodeTurns = Len(my_inode)
      BY DEF InodeTurns, BlockLoops
    <3>2. QED
      BY <1>1, <3>1, UsedInAll DEF SeenUsed, SeenUnused
  <2>2. ToSet(my_ifree) = (Free \ Used) \cup Unused /\ my_ifree \in Seq(Nat)
    BY <1>1, <1>4, <2>1 DEF FreeInv
  <2>3. Used \cap Unused = {} /\ \A n \in Used : ValidInode(n)
    BY <1>1, UsedOrNot
  <2>4. \A n \in Used : n \notin ToSet(my_ifree)
    BY <2>2, <2>3
  <2>5. QED
    BY <2>2, <2>3, <2>4, Containing
<1>6. \A d \in ToSet(my_dir) : d.entry_reference_inode \in Used
  BY <1>2 DEF DirectoriesConsistent
<1>7. e.entry_name = "." => e.entry_reference_inode = e.parent_inode
  BY <1>2, <1>3 DEF DirectoriesConsistent
<1>8. ASSUME e.entry_name = ".."
      PROVE  /\ e.parent_inode \in DOMAIN my_parent_inode
             /\ my_parent_inode[e.parent_inode] = e.entry_reference_inode
  <2>1. CASE e.parent_inode = 2
    BY <1>1, <1>2, <1>3, <1>8, <2>1 DEF DirectoriesConsistent, ParentInv
  <2>2. CASE e.parent_inode # 2
    <3>1. PICK k \in Naming(e.parent_inode) : my_dir[k].parent_inode = e.entry_reference_inode
      BY <1>2, <1>3, <1>8, <2>2 DEF DirectoriesConsistent
    <3>2. k \in DOMAIN my_dir /\ my_dir[k].entry_reference_inode = e.parent_inode
      BY DEF Naming
    <3>3. my_dir[k] \in ToSet(my_dir)
      BY <3>2 DEF ToSet
    <3>4. e.parent_inode \in Used
      BY <1>6, <3>2, <3>3
    <3>5. k \in GoodNaming(e.parent_inode)
      BY <1>5, <3>4 DEF GoodNaming
    <3>6. e.parent_inode \in DOMAIN my_parent_inode
      BY <1>1, <1>3, <3>5 DEF ParentInv
    <3>7. PICK j \in Naming(e.parent_inode) :
              my_parent_inode[e.parent_inode] = my_dir[j].parent_inode
      BY <1>1, <2>2, <3>6 DEF ParentInv
    <3>8. j = k
      BY <1>2, <1>3, <1>8 DEF Tree
    <3>9. QED
      BY <3>1, <3>6, <3>7, <3>8
  <2>3. QED
    BY <2>1, <2>2
<1>9. QED
  BY <1>3, <1>5, <1>6, <1>7, <1>8

\* An entry of which the audit is silent is as it should be.
LEMMA EntryFine ==
    ASSUME RunInv, audit = "entries", printed = <<>>, NEW e,
           ~Contains(my_ifree, e.entry_reference_inode),
           ValidInode(e.entry_reference_inode),
           e.entry_name = "." => e.entry_reference_inode = e.parent_inode,
           e.entry_name = ".." =>
                 /\ e.parent_inode \in DOMAIN my_parent_inode
                 /\ my_parent_inode[e.parent_inode] = e.entry_reference_inode
    PROVE  FineEntry(e)
<1>1. FreeInv /\ SilentInv /\ ParentInv
  BY DEF RunInv
<1>2. e.entry_reference_inode \notin Free
  <2>1. e.entry_reference_inode \notin ToSet(my_ifree)
    BY <1>1, Containing DEF FreeInv
  <2>2. SeenUsed \cap Free = {}
    BY <1>1 DEF SilentInv, SilentInodes
  <2>3. QED
    BY <1>1, <2>1, <2>2 DEF FreeInv
<1>3. e.entry_name = ".." =>
          IF e.parent_inode = 2 THEN e.entry_reference_inode = 2
          ELSE \E k \in Naming(e.parent_inode) : my_dir[k].parent_inode = e.entry_reference_inode
  <2>1. 2 \in DOMAIN my_parent_inode /\ my_parent_inode[2] = 2
    BY <1>1 DEF ParentInv
  <2>2. \A n \in DOMAIN my_parent_inode : n # 2 =>
              \E k \in Naming(n) : my_parent_inode[n] = my_dir[k].parent_inode
    BY <1>1 DEF ParentInv
  <2>3. QED
    BY <2>1, <2>2
<1>4. QED
  BY <1>2, <1>3 DEF FineEntry

\* Only a directory that no good entry names ends the audit.
LEMMA EntryCrash ==
    ASSUME RunInv, audit = "entries", NEW parent \in Nat, parent \notin DOMAIN my_parent_inode
    PROVE  parent # 2 /\ (Naming(parent) = {} \/ parent \notin Used)
<1>1. Facts /\ FreeInv /\ OnceInv /\ ParentInv
  BY DEF RunInv
<1>2. parent # 2 /\ GoodNaming(parent) = {}
  BY <1>1 DEF ParentInv
<1>3. ASSUME NEW k \in Naming(parent) PROVE parent \notin Used
  <2>1. ~ValidInode(parent) \/ Contains(my_ifree, parent)
    BY <1>2, <1>3 DEF GoodNaming
  <2>2. CASE ~ValidInode(parent)
    BY <1>1, <2>2, UsedOrNot
  <2>3. CASE Contains(my_ifree, parent)
    <3>1. parent \in ToSet(my_ifree)
      BY <1>1, <2>3, Containing DEF FreeInv
    <3>2. SeenUsed = Used /\ SeenUnused = Unused
      <4>1. InodeTurns = Len(my_inode)
        BY DEF InodeTurns, BlockLoops
      <4>2. QED
        BY <1>1, <4>1, UsedInAll DEF SeenUsed, SeenUnused
    <3>3. parent \in (Free \ Used) \cup Unused \cup AboutsOf(printed, NotFree)
      BY <1>1, <3>1, <3>2 DEF FreeInv
    <3>4. Used \cap Unused = {} /\ AboutsOf(printed, NotFree) \cap Used = {}
      BY <1>1, UsedOrNot DEF OnceInv
    <3>5. QED
      BY <3>3, <3>4
  <2>4. QED
    BY <2>1, <2>2, <2>3
<1>4. QED
  BY <1>2, <1>3

LEMMA EntryKeeps ==
    ASSUME RunInv, AuditEntry, UNCHANGED <<csv, summary>>
    PROVE  RunInv'
<1>1. /\ Facts /\ Types /\ ErrorInv /\ SaneInv /\ SilentInv /\ EntryInv
      /\ FreeInv /\ ParentInv
  BY DEF RunInv
<1> DEFINE e == my_dir[turn + 1]
           n == e.entry_reference_inode
           parent == e.parent_inode
           unallocated == Contains(my_ifree, n)
           wrong == IF unallocated THEN <<Complaint("UNALLOCATED_INODE", e)>>
                    ELSE IF ~ValidInode(n) THEN <<Complaint("INVALID_INODE", e)>>
                    ELSE <<>>
           self == IF e.entry_name = "." /\ n # parent THEN <<Complaint("'.'", e)>> ELSE <<>>
           orphan == e.entry_name = ".." /\ parent \notin DOMAIN my_parent_inode
           up == IF e.entry_name = ".." /\ ~orphan /\ my_parent_inode[parent] # n
                 THEN <<Complaint("'..'", e)>> ELSE <<>>
           q == wrong \o self \o up
           counts == [m \in DOMAIN my_dict_inode \cup {n} |-> LinksTo(m) + IF m = n THEN 1 ELSE 0]
<1>2. /\ audit = "entries" /\ turn < Len(my_dir) /\ turn' = turn + 1
      /\ printed' = printed \o wrong \o self \o up
      /\ my_error' = (my_error \/ wrong # <<>> \/ self # <<>>)
      /\ my_dict_inode' = IF wrong # <<>> THEN my_dict_inode ELSE counts
      /\ audit' = IF orphan THEN "exit1" ELSE audit
      /\ UNCHANGED <<my_ifree, block_dic, my_allocated_inodes, my_parent_inode>>
  BY DEF AuditEntry
<1>3. /\ turn \in Nat /\ turn + 1 \in 1 .. Len(my_dir) /\ turn \in 0 .. Len(my_dir)
      /\ Len(my_dir) \in Nat
  <2>1. turn \in Nat /\ turn < Len(my_dir)
    BY <1>1, <1>2 DEF Types
  <2>2. PICK len \in Nat : len = Len(my_dir)
    <3>1. Len(my_dir) \in Nat
      BY <1>1 DEF Facts
    <3>2. QED
      BY <3>1
  <2>3. turn + 1 \in 1 .. len /\ turn \in 0 .. len
    BY <2>1, <2>2
  <2>4. QED
    BY <2>1, <2>2, <2>3
<1>4. /\ e \in EntryLines /\ e \in ToSet(my_dir) /\ n \in Nat /\ parent \in Nat
      /\ e \in About
  <2>1. e \in EntryLines /\ e \in ToSet(my_dir) /\ n \in Nat /\ parent \in Nat
    BY <1>1, <1>3, LineOfEntry
  <2>2. e \in About
    BY <2>1 DEF About, CsvLines
  <2>3. QED
    BY <2>1, <2>2
<1>5. Pieces(e, wrong, self, up)
  BY DEF Pieces, Says
<1>6. /\ wrong = <<>> <=> ~unallocated /\ ValidInode(n)
      /\ self = <<>> <=> (e.entry_name = "." => n = parent)
      /\ up = <<>> <=> (e.entry_name = ".." /\ ~orphan => my_parent_inode[parent] = n)
  OBVIOUS
<1>7. Says(wrong, "UNALLOCATED_INODE", e) <=> unallocated
  <2>1. ASSUME ~unallocated PROVE ~Says(wrong, "UNALLOCATED_INODE", e)
    <3>1. wrong = <<>> \/ Says(wrong, "INVALID_INODE", e)
      BY <2>1 DEF Says
    <3> HIDE DEF wrong, e
    <3>2. QED
      BY <1>4, <3>1, OtherSaid
  <2>2. unallocated => Says(wrong, "UNALLOCATED_INODE", e)
    BY DEF Says
  <2>3. QED
    BY <2>1, <2>2
<1> HIDE DEF wrong, self, up
<1>8. /\ wrong \in Seq(Complaints) /\ self \in Seq(Complaints) /\ up \in Seq(Complaints)
      /\ q \in Seq(Complaints)
      /\ q = <<>> <=> wrong = <<>> /\ self = <<>> /\ up = <<>>
      /\ Whats(q) \cap (NotFree \cup SaidInUse) = {}
      /\ Whats(q) \subseteq Quiet <=> wrong = <<>> /\ self = <<>>
      /\ AboutsOf(q, {"UNALLOCATED_INODE"}) = IF Says(wrong, "UNALLOCATED_INODE", e) THEN {e} ELSE {}
  <2> HIDE DEF e
  <2>1. QED
    BY <1>4, <1>5, EntryTold, ZenonT(60)
<1>9. Told(q)
  <2>1. printed \in Seq(Complaints) /\ wrong \in Seq(Complaints) /\ self \in Seq(Complaints)
    BY <1>1, <1>8 DEF Types
  <2>2. printed \o wrong \o self = printed \o (wrong \o self)
    BY <2>1, ConcatAssociative
  <2> DEFINE ws == wrong \o self
  <2>3. ws \in Seq(Complaints)
    BY <2>1, ConcatProperties
  <2> HIDE DEF ws
  <2>4. printed \in Seq(Complaints) /\ ws \in Seq(Complaints) /\ up \in Seq(Complaints)
    BY <1>8, <2>1, <2>3
  <2>5. printed \o ws \o up = printed \o (ws \o up)
    BY <2>4, ConcatAssociative
  <2>6. printed \o wrong \o self \o up = printed \o (wrong \o self \o up)
    BY <2>2, <2>5 DEF ws
  <2>7. QED
    BY <1>2, <1>8, <2>6 DEF Told
<1> HIDE DEF q
<1>10. /\ BlockTurns' = BlockTurns /\ IndirectTurns' = IndirectTurns
       /\ UnreferencedTurns' = UnreferencedTurns
       /\ InodeTurns' = InodeTurns /\ MissingTurns' = MissingTurns
       /\ EntryTurns = turn /\ LinkTurns' = 0
       /\ ~orphan => EntryTurns' = turn + 1
  <2>1. start_block' = start_block
    BY Frame
  <2>2. audit' \in {"entries", "exit1"} /\ (~orphan => audit' = "entries")
    BY <1>2
  <2> HIDE DEF orphan
  <2>3. QED
    BY <1>2, <2>1, <2>2 DEF BlockTurns, IndirectTurns, UnreferencedTurns, InodeTurns, MissingTurns,
           EntryTurns, LinkTurns, BlockLoops, summary
<1>11. UnreferencedTurns \in Int /\ MissingTurns \in Int
  BY <1>1, TurnsAre
<1>12. printed' = <<>> => SilentBlocks'
  <2>1. UnreferencedTurns' <= UnreferencedTurns /\ audit \notin Early
    BY <1>2, <1>10, <1>11 DEF Early
  <2>2. QED
    BY <1>2, <1>9, <1>10, <1>11, <2>1, BlocksStill
<1>13. FreeInv' /\ OnceInv' /\ (printed' = <<>> => SilentInodes')
  <2>1. MissingTurns' <= MissingTurns /\ audit' \notin BlockLoops \cup {"inodes"}
    BY <1>2, <1>10, <1>11 DEF BlockLoops
  <2>2. QED
    BY <1>2, <1>8, <1>9, <1>10, <1>11, <2>1, InodesStill
<1>14. EntryInv'
  <2>1. SUFFICES ASSUME ~orphan PROVE EntryInv'
    BY <1>2 DEF EntryInv
  <2> DEFINE wanted(k) == my_dir[k].entry_reference_inode \in ToSet(my_ifree)
  <2>2. AboutsOf(printed, {"UNALLOCATED_INODE"}) = {my_dir[k] : k \in {j \in 1 .. turn : wanted(j)}}
    BY <1>1, <1>2, <1>10 DEF EntryInv
  <2>3. AboutsOf(printed', {"UNALLOCATED_INODE"})
            = AboutsOf(printed, {"UNALLOCATED_INODE"}) \cup AboutsOf(q, {"UNALLOCATED_INODE"})
    BY <1>1, <1>9, ToldMore
  <2>4. AboutsOf(q, {"UNALLOCATED_INODE"}) = IF wanted(turn + 1) THEN {e} ELSE {}
    <3>1. unallocated <=> n \in ToSet(my_ifree)
      BY <1>1, Containing DEF FreeInv
    <3> HIDE DEF unallocated
    <3>2. QED
      BY <1>7, <1>8, <3>1
  <2>5. 1 .. turn + 1 = 1 .. turn \cup {turn + 1}
    BY <1>3
  <2> HIDE DEF wanted
  <2>6. AboutsOf(printed', {"UNALLOCATED_INODE"})
            = {my_dir[k] : k \in {j \in 1 .. turn + 1 : wanted(j)}}
    <3>1. CASE wanted(turn + 1)
      <4>1. {j \in 1 .. turn + 1 : wanted(j)} = {j \in 1 .. turn : wanted(j)} \cup {turn + 1}
        BY <2>5, <3>1
      <4>2. QED
        BY <2>2, <2>3, <2>4, <3>1, <4>1
    <3>2. CASE ~wanted(turn + 1)
      <4>1. {j \in 1 .. turn + 1 : wanted(j)} = {j \in 1 .. turn : wanted(j)}
        BY <2>5, <3>2
      <4>2. QED
        BY <2>2, <2>3, <2>4, <3>2, <4>1
    <3>3. QED
      BY <3>1, <3>2
  <2>7. my_dir' = my_dir /\ my_ifree' = my_ifree /\ EntryTurns' = turn + 1
    BY <1>2, <1>10, <2>1 DEF summary
  <2>8. QED
    BY <2>6, <2>7 DEF EntryInv, wanted
<1>15. CrashInv'
  <2>1. SUFFICES ASSUME orphan PROVE CrashInv'
    BY <1>2 DEF CrashInv
  <2>2. e.entry_name = ".." /\ parent \notin DOMAIN my_parent_inode
    BY <2>1
  <2> HIDE DEF e
  <2>3. parent # 2 /\ (Naming(parent) = {} \/ parent \notin Used)
    BY <1>2, <1>4, <2>2, EntryCrash
  <2>4. Used' = Used /\ my_dir' = my_dir
    BY Frame DEF summary
  <2>5. \A m : Naming(m)' = Naming(m)
    BY Frame
  <2>6. \E d \in ToSet(my_dir) :
            /\ d.entry_name = ".." /\ d.parent_inode # 2
            /\ Naming(d.parent_inode) = {} \/ d.parent_inode \notin Used
    BY <1>4, <2>2, <2>3
  <2>7. QED
    BY <2>4, <2>5, <2>6 DEF CrashInv
<1>16. my_dict_inode' \in [DOMAIN my_dict_inode' -> Nat] /\ \A m : LinksTo(m) \in Nat
  <2>1. \A m : LinksTo(m) \in Nat
    BY <1>1 DEF LinksTo, Types
  <2>2. counts \in [DOMAIN counts -> Nat]
    BY <2>1
  <2> HIDE DEF counts
  <2>3. my_dict_inode \in [DOMAIN my_dict_inode -> Nat]
    BY <1>1 DEF Types
  <2>4. my_dict_inode' = my_dict_inode \/ my_dict_inode' = counts
    BY <1>2
  <2>5. QED
    BY <2>1, <2>2, <2>3, <2>4
<1>17. ASSUME printed' = <<>> PROVE SilentEntries'
  <2>1. SUFFICES ASSUME ~orphan PROVE SilentEntries'
    BY <1>2 DEF SilentEntries
  <2>2. printed = <<>> /\ q = <<>>
    BY <1>1, <1>9, <1>17, ToldMore
  <2>3. wrong = <<>> /\ self = <<>> /\ up = <<>>
    BY <1>8, <2>2
  <2>4. FineEntry(e)
    <3>1. /\ ~Contains(my_ifree, e.entry_reference_inode)
          /\ ValidInode(e.entry_reference_inode)
          /\ e.entry_name = "." => e.entry_reference_inode = e.parent_inode
          /\ e.entry_name = ".." =>
                /\ e.parent_inode \in DOMAIN my_parent_inode
                /\ my_parent_inode[e.parent_inode] = e.entry_reference_inode
      BY <1>6, <2>1, <2>3
    <3> HIDE DEF e
    <3>2. QED
      BY <1>2, <2>2, <3>1, EntryFine
  <2>5. SilentEntries
    BY <1>1, <2>2 DEF SilentInv
  <2>6. \A k \in 1 .. turn + 1 : FineEntry(my_dir[k])
    <3>1. TAKE k \in 1 .. turn + 1
    <3>2. k \in 1 .. turn \/ k = turn + 1
      BY <1>3
    <3>3. QED
      BY <1>2, <1>10, <2>4, <2>5, <3>2 DEF SilentEntries
  <2>7. ASSUME NEW m \in Nat PROVE LinksTo(m)' = Cardinality(LinksIn(m, turn + 1))
    <3>1. LinksTo(m)' = LinksTo(m) + IF n = m THEN 1 ELSE 0
      <4>1. my_dict_inode' = counts
        BY <1>2, <2>3
      <4>2. LinksTo(m)' = IF m \in DOMAIN my_dict_inode' THEN my_dict_inode'[m] ELSE 0
        BY DEF LinksTo
      <4>3. CASE m \in DOMAIN my_dict_inode \cup {n}
        BY <4>1, <4>2, <4>3
      <4>4. CASE m \notin DOMAIN my_dict_inode \cup {n}
        <5>1. LinksTo(m) = 0 /\ m # n
          BY <4>4 DEF LinksTo
        <5>2. m \notin DOMAIN my_dict_inode'
          BY <4>1, <4>4
        <5>3. QED
          BY <4>2, <5>1, <5>2
      <4>5. QED
        BY <4>3, <4>4
    <3>2. LinksTo(m) = Cardinality(LinksIn(m, turn))
      BY <1>2, <1>10, <2>5 DEF SilentEntries
    <3>3. Cardinality(LinksIn(m, turn + 1))
              = Cardinality(LinksIn(m, turn)) + IF n = m THEN 1 ELSE 0
      BY <1>1, <1>2, <1>3, LinksMore
    <3>4. QED
      BY <3>1, <3>2, <3>3
  <2>8. /\ \A m, k : LinksIn(m, k)' = LinksIn(m, k)
        /\ \A d : FineEntry(d)' <=> FineEntry(d)
        /\ my_dir' = my_dir
    BY Frame DEF summary
  <2>9. EntryTurns' = turn + 1 /\ LinkTurns' = 0
    BY <1>10, <2>1
  <2>10. \A k \in 1 .. EntryTurns' : FineEntry(my_dir[k])'
    BY <2>6, <2>8, <2>9
  <2>11. \A m \in Nat : LinksTo(m)' = Cardinality(LinksIn(m, EntryTurns)')
    BY <2>7, <2>8, <2>9
  <2>12. 1 .. LinkTurns' = {}
    BY <2>9
  <2>13. QED
    BY <2>8, <2>10, <2>11, <2>12 DEF SilentEntries
<1>18. ErrorInv' /\ my_error' \in BOOLEAN
  <2>1. Whats(printed') = Whats(printed) \cup Whats(q)
    BY <1>1, <1>9, ToldMore
  <2>2. my_error' <=> ~(Whats(printed') \subseteq Quiet)
    BY <1>1, <1>2, <1>8, <2>1 DEF ErrorInv
  <2>3. audit' \notin {"exit0", "exit2"}
    BY <1>2
  <2>4. my_error' \in BOOLEAN
    BY <1>1, <1>2 DEF Types
  <2>5. QED
    BY <2>2, <2>3, <2>4 DEF ErrorInv
<1>19. Types' /\ ParentInv'
  <2>1. printed' \in Seq(Complaints)
    BY <1>1, <1>9, ToldMore
  <2>2. turn' \in Nat /\ turn' <= Len(my_dir) /\ my_dir' = my_dir
    BY <1>2, <1>3 DEF summary
  <2>3. audit' \in {"entries", "exit1"} /\ audit' \in Loops \cup Ends
    BY <1>2 DEF Loops, Ends
  <2>4. Types'
    BY <1>1, <1>2, <1>16, <1>18, <2>1, <2>2, <2>3 DEF Types
  <2>5. \A m : GoodNaming(m)' = GoodNaming(m) /\ Naming(m)' = Naming(m)
    BY <1>2, Frame DEF GoodNaming
  <2>6. ParentInv'
    BY <1>1, <1>2, <2>2, <2>5 DEF ParentInv
  <2>7. QED
    BY <2>4, <2>6
<1>20. Facts' /\ SaneInv'
  <2>1. ASSUME Sane PROVE q = <<>> /\ audit' # "exit1"
    <3>1. /\ ~Contains(my_ifree, e.entry_reference_inode)
          /\ ValidInode(e.entry_reference_inode)
          /\ e.entry_name = "." => e.entry_reference_inode = e.parent_inode
          /\ e.entry_name = ".." =>
                /\ e.parent_inode \in DOMAIN my_parent_inode
                /\ my_parent_inode[e.parent_inode] = e.entry_reference_inode
      <4> HIDE DEF e
      <4>1. e = my_dir[turn + 1]
        BY DEF e
      <4>2. QED
        BY <1>2, <2>1, <4>1, EntrySane
    <3>2. ~orphan /\ wrong = <<>> /\ self = <<>> /\ up = <<>>
      BY <1>6, <3>1
    <3>3. QED
      BY <1>2, <1>8, <3>2
  <2>2. QED
    BY <1>9, <2>1, SaneStill
<1>21. QED
  BY <1>12, <1>13, <1>14, <1>15, <1>17, <1>18, <1>19, <1>20 DEF RunInv, SilentInv

-----------------------------------------------------------------------------
(* The summary is read.                                                    *)

Beginning ==
    /\ Filed(0, 0) = <<>>
    /\ UsedIn(0) = {} /\ UnusedIn(0) = {}
    /\ \A n : LinksIn(n, 0) = {}
    /\ Facts => /\ start_block \in Nat /\ my_sp.first_inode \in Nat
                /\ Len(my_inode) \in Nat

LEMMA Beginnings == Beginning
<1>1. Facts => /\ start_block \in Nat /\ my_sp.first_inode \in Nat
               /\ Len(my_inode) \in Nat
  BY Numerals
<1>2. \A n : LinksIn(n, 0) = {}
  BY DEF LinksIn
<1>3. QED
  BY <1>1, <1>2, FiledNone, UsedInNone DEF Beginning

LEMMA ParseKeeps ==
    ASSUME Summarised, AuditInit, Parse, UNCHANGED csv
    PROVE  AuditInv'
<1>1. \A kind : Lines(kind)' = Lines(kind) /\ NumberFields(kind)' = NumberFields(kind)
  BY DEF Lines, NumberFields
<1>2. Readable' <=> Readable
  BY DEF Readable
<1>3. Summarised'
  BY <1>1, <1>2 DEF Summarised
<1>4. CASE ~Readable
  <2>1. audit' = "exit1" /\ printed' = <<>>
    BY <1>4 DEF Parse, AuditInit
  <2>2. QED
    BY <1>2, <1>3, <1>4, <2>1 DEF AuditInv
<1>5. CASE Readable
  <2>1. /\ audit' = "blocks" /\ turn' = 0 /\ my_ifree' = NumberFields("IFREE")
        /\ block_dic' = <<>> /\ my_allocated_inodes' = <<>>
        /\ my_dict_inode' = <<>> /\ printed' = <<>> /\ my_error' = FALSE
    BY <1>5 DEF Parse, AuditInit
  <2>2. Facts'
    BY <1>5, ParseFacts
  <2>3. /\ Filed(0, 0)' = <<>>
        /\ UsedIn(0)' = {} /\ UnusedIn(0)' = {}
        /\ \A n : LinksIn(n, 0)' = {}
        /\ Facts' => /\ start_block' \in Nat /\ my_sp'.first_inode \in Nat
                     /\ Len(my_inode') \in Nat
    <3>1. Beginning'
      BY Beginnings, PTL
    <3>2. QED
      BY <3>1 DEF Beginning
  <2>4. /\ BlockTurns' = 0 /\ IndirectTurns' = 0 /\ UnreferencedTurns' = 0 /\ InodeTurns' = 0
        /\ MissingTurns' = 0 /\ EntryTurns' = 0 /\ LinkTurns' = 0
    BY <2>1 DEF BlockTurns, IndirectTurns, UnreferencedTurns, InodeTurns, MissingTurns,
           EntryTurns, LinkTurns, BlockLoops
  <2>5. /\ Whats(<<>>) = {} /\ \A kinds : AboutsOf(<<>>, kinds) = {} /\ Once(<<>>, kinds)
        /\ ToSet(<<>>) = {}
    BY WhatsNone, RangeNothing
  <2>6. /\ <<>> \in Seq(Complaints) /\ <<>> \in Seq(Mentioned) /\ <<>> \in Seq(InodeLines)
        /\ DOMAIN <<>> = {}
    BY EmptySeq
  <2>7. Types'
    <3>1. audit' \in Loops
      BY <2>1 DEF Loops, BlockLoops
    <3>2. turn' \in Nat /\ turn' <= Len(my_inode')
      BY <2>1, <2>2, <2>3
    <3>3. my_dict_inode' \in [DOMAIN my_dict_inode' -> Nat]
      BY <2>1
    <3>4. QED
      BY <2>1, <2>6, <3>1, <3>2, <3>3 DEF Types
  <2>8. ErrorInv'
    BY <2>1, <2>5 DEF ErrorInv
  <2>9. FreeInv'
    <3>1. csv \in Seq(CsvLines) /\ IsInjective(NumberFields("IFREE"))
      BY <1>5 DEF Summarised
    <3>2. NumberFields("IFREE") \in Seq(Nat)
      BY <3>1, NumbersAre
    <3>3. Free' = ToSet(my_ifree')
      BY <1>1, <2>1 DEF Free
    <3>4. SeenUsed' = {} /\ SeenUnused' = {}
      BY <2>3, <2>4 DEF SeenUsed, SeenUnused
    <3>5. AboutsOf(printed, NotFree)' = {}
      BY <2>1, <2>5
    <3>6. ToSet(my_allocated_inodes)' =
              {my_inode'[k] : k \in {j \in 1 .. InodeTurns' : my_inode'[j].file_type # "0"}}
      <4>1. 1 .. InodeTurns' = {}
        BY <2>4
      <4>2. QED
        BY <2>1, <2>5, <4>1
    <3>7. QED
      BY <2>1, <3>1, <3>2, <3>3, <3>4, <3>5, <3>6 DEF FreeInv
  <2>10. OnceInv' /\ EntryInv'
    <3>1. \A kinds : AboutsOf(printed', kinds) = {} /\ Once(printed', kinds)
      BY <2>1, <2>5
    <3>2. 1 .. EntryTurns' = {}
      BY <2>4
    <3>3. OnceInv'
      BY <3>1 DEF OnceInv, NotFree, SaidInUse
    <3>4. EntryInv'
      BY <3>1, <3>2 DEF EntryInv
    <3>5. QED
      BY <3>3, <3>4
  <2>11. ParentInv' /\ CrashInv' /\ SaneInv'
    BY <2>1 DEF ParentInv, CrashInv, SaneInv
  <2>12. SilentBlocks'
    <3>1. block_dic' = Filed(BlockTurns, IndirectTurns)'
      BY <2>1, <2>3, <2>4
    <3>2. ToSet(block_dic') = {} /\ DOMAIN block_dic' = {}
      BY <2>1, <2>5, <2>6
    <3>3. start_block' .. start_block' + UnreferencedTurns' - 1 = {}
      BY <2>2, <2>3, <2>4
    <3>4. QED
      BY <3>1, <3>2, <3>3 DEF SilentBlocks
  <2>13. SilentInodes'
    <3>1. SeenUsed' = {} /\ SeenUnused' = {}
      BY <2>3, <2>4 DEF SeenUsed, SeenUnused
    <3>2. my_sp'.first_inode .. my_sp'.first_inode + MissingTurns' - 1 = {}
      <4>1. PICK a \in Nat : a = my_sp'.first_inode
        BY <2>2, <2>3
      <4>2. QED
        BY <2>4, <4>1
    <3>3. QED
      BY <3>1, <3>2 DEF SilentInodes
  <2>14. SilentEntries'
    <3>1. 1 .. EntryTurns' = {} /\ 1 .. LinkTurns' = {}
      BY <2>4
    <3>2. ASSUME NEW n \in Nat PROVE LinksTo(n)' = Cardinality(LinksIn(n, EntryTurns)')
      <4>1. LinksTo(n)' = 0
        BY <2>1, <2>6 DEF LinksTo
      <4>2. LinksIn(n, EntryTurns)' = {}
        BY <2>3, <2>4
      <4>3. QED
        BY <4>1, <4>2, FS_EmptySet
    <3>3. QED
      BY <3>1, <3>2 DEF SilentEntries
  <2>15. RunInv'
    BY <2>2, <2>7, <2>8, <2>9, <2>10, <2>11, <2>12, <2>13, <2>14 DEF RunInv, SilentInv
  <2>16. QED
    BY <1>2, <1>3, <1>5, <2>1, <2>15 DEF AuditInv
<1>6. QED
  BY <1>4, <1>5

-----------------------------------------------------------------------------
(* The audit.                                                              *)

\* A step that changes nothing.
LEMMA StutterKeeps ==
    ASSUME AuditInv, UNCHANGED <<csv, auditVars>>
    PROVE  AuditInv'
<1>1. /\ audit' = audit /\ turn' = turn /\ UNCHANGED <<csv, summary>>
      /\ my_ifree' = my_ifree /\ block_dic' = block_dic
      /\ my_allocated_inodes' = my_allocated_inodes /\ my_parent_inode' = my_parent_inode
      /\ my_dict_inode' = my_dict_inode /\ printed' = printed /\ my_error' = my_error
  BY DEF auditVars
<1>2. /\ my_sp' = my_sp /\ my_group' = my_group /\ my_bfree' = my_bfree
      /\ my_inode' = my_inode /\ my_dir' = my_dir /\ my_indir' = my_indir
  BY <1>1 DEF summary
<1>3. /\ Summarised' <=> Summarised
      /\ Readable' <=> Readable
      /\ Facts' <=> Facts
      /\ Sane' <=> Sane
      /\ Free' = Free /\ Used' = Used /\ Unused' = Unused
      /\ start_block' = start_block
      /\ \A m : UsedIn(m)' = UsedIn(m) /\ UnusedIn(m)' = UnusedIn(m)
      /\ \A n : Naming(n)' = Naming(n)
      /\ \A n : ValidInode(n)' <=> ValidInode(n)
      /\ \A n, m : LinksIn(n, m)' = LinksIn(n, m)
      /\ \A m, i : Filed(m, i)' = Filed(m, i)
      /\ \A r : FineMention(r)' <=> FineMention(r)
      /\ \A e : FineEntry(e)' <=> FineEntry(e)
  BY <1>1, Frame
<1>4. /\ BlockTurns' = BlockTurns /\ IndirectTurns' = IndirectTurns
      /\ UnreferencedTurns' = UnreferencedTurns /\ InodeTurns' = InodeTurns
      /\ MissingTurns' = MissingTurns /\ EntryTurns' = EntryTurns /\ LinkTurns' = LinkTurns
  BY <1>1, <1>2, <1>3 DEF BlockTurns, IndirectTurns, UnreferencedTurns, InodeTurns, MissingTurns,
         EntryTurns, LinkTurns
<1>5. /\ SeenUsed' = SeenUsed /\ SeenUnused' = SeenUnused
      /\ \A n : GoodNaming(n)' = GoodNaming(n) /\ LinksTo(n)' = LinksTo(n)
      /\ \A b : Covered(b)' <=> Covered(b)
  BY <1>1, <1>2, <1>3, <1>4 DEF SeenUsed, SeenUnused, GoodNaming, LinksTo, Covered
<1>6. ASSUME RunInv PROVE RunInv'
  <2>1. /\ Facts /\ Types /\ ErrorInv /\ FreeInv /\ OnceInv /\ EntryInv /\ ParentInv /\ CrashInv
        /\ SilentInv /\ SaneInv
    BY <1>6 DEF RunInv
  <2>2. Facts' /\ SaneInv'
    BY <1>1, <1>3, <2>1 DEF SaneInv
  <2>3. Types' /\ ErrorInv'
    BY <1>1, <1>2, <2>1 DEF Types, ErrorInv
  <2>4. FreeInv'
    BY <1>1, <1>2, <1>3, <1>4, <1>5, <2>1 DEF FreeInv
  <2>5. OnceInv'
    BY <1>1, <1>3, <1>5, <2>1 DEF OnceInv
  <2>6. EntryInv'
    BY <1>1, <1>2, <1>4, <2>1 DEF EntryInv
  <2>7. ParentInv' /\ CrashInv'
    BY <1>1, <1>2, <1>3, <1>5, <2>1 DEF ParentInv, CrashInv
  <2>8. ASSUME printed' = <<>> PROVE SilentBlocks' /\ SilentInodes' /\ SilentEntries'
    <3>1. SilentBlocks /\ SilentInodes /\ SilentEntries
      BY <1>1, <2>1, <2>8 DEF SilentInv
    <3>2. SilentBlocks'
      BY <1>1, <1>3, <1>4, <1>5, <3>1 DEF SilentBlocks
    <3>3. SilentInodes'
      BY <1>2, <1>3, <1>4, <1>5, <3>1 DEF SilentInodes
    <3>4. SilentEntries'
      BY <1>1, <1>2, <1>3, <1>4, <1>5, <3>1 DEF SilentEntries
    <3>5. QED
      BY <3>2, <3>3, <3>4
  <2>9. QED
    BY <2>2, <2>3, <2>4, <2>5, <2>6, <2>7, <2>8 DEF RunInv, SilentInv
<1>7. AuditInit' <=> AuditInit
  BY <1>1, <1>2 DEF AuditInit
<1>8. QED
  BY <1>1, <1>3, <1>6, <1>7 DEF AuditInv

LEMMA LoopOf ==
    /\ AuditInodeBlocks => audit = "blocks"
    /\ AuditIndirect => audit = "indirect"
    /\ AuditDuplicates => audit = "duplicates"
    /\ AuditUnreferenced => audit = "unreferenced"
    /\ AuditInode => audit = "inodes"
    /\ AuditMissing => audit = "missing"
    /\ FindParents => audit = "parents"
    /\ AuditEntry => audit = "entries"
    /\ AuditLinks => audit = "links"
    /\ NextLoop => audit \in {"blocks", "indirect", "unreferenced", "inodes", "missing", "entries",
                              "links"}
<1>1. AuditInodeBlocks => audit = "blocks"
  BY DEF AuditInodeBlocks, Turn
<1>2. AuditIndirect => audit = "indirect"
  BY DEF AuditIndirect, Turn
<1>3. AuditDuplicates => audit = "duplicates"
  BY DEF AuditDuplicates, EndLoop
<1>4. AuditUnreferenced => audit = "unreferenced"
  BY DEF AuditUnreferenced, Turn
<1>5. AuditInode => audit = "inodes"
  BY DEF AuditInode, Turn
<1>6. AuditMissing => audit = "missing"
  BY DEF AuditMissing, Turn
<1>7. FindParents => audit = "parents"
  BY DEF FindParents, EndLoop
<1>8. AuditEntry => audit = "entries"
  BY DEF AuditEntry
<1>9. AuditLinks => audit = "links"
  BY DEF AuditLinks, Turn
<1>10. NextLoop => audit \in {"blocks", "indirect", "unreferenced", "inodes", "missing", "entries",
                              "links"}
  BY DEF NextLoop, EndLoop
<1>11. QED
  BY <1>1, <1>2, <1>3, <1>4, <1>5, <1>6, <1>7, <1>8, <1>9, <1>10

\* A step of a loop.
LEMMA LoopKeeps ==
    ASSUME AuditInv, UNCHANGED <<csv, summary>>,
           \/ AuditInodeBlocks \/ AuditIndirect \/ AuditDuplicates \/ AuditUnreferenced
           \/ AuditInode \/ AuditMissing
           \/ FindParents \/ AuditEntry \/ AuditLinks
           \/ NextLoop
    PROVE  AuditInv'
<1>1. audit \in Loops
  <2>1. audit \in {"blocks", "indirect", "duplicates", "unreferenced", "inodes", "missing",
                   "parents", "entries", "links"}
    BY LoopOf
  <2>2. QED
    BY <2>1 DEF Loops, BlockLoops
<1>2. RunInv /\ Readable
  <2>1. "parse" \notin Loops /\ "exit1" \notin Loops
    BY DEF Loops, BlockLoops
  <2>2. QED
    BY <1>1, <2>1 DEF AuditInv
<1>3. RunInv'
  <2>1. CASE AuditInodeBlocks
    BY <1>2, <2>1, InodeBlocksKeeps
  <2>2. CASE AuditIndirect
    BY <1>2, <2>2, IndirectKeeps
  <2>3. CASE AuditDuplicates
    BY <1>2, <2>3, DuplicatesKeeps
  <2>4. CASE AuditUnreferenced
    BY <1>2, <2>4, UnreferencedKeeps
  <2>5. CASE AuditInode
    BY <1>2, <2>5, InodeKeeps
  <2>6. CASE AuditMissing
    BY <1>2, <2>6, MissingKeeps
  <2>7. CASE FindParents
    BY <1>2, <2>7, ParentsKeeps
  <2>8. CASE AuditEntry
    BY <1>2, <2>8, EntryKeeps
  <2>9. CASE AuditLinks
    BY <1>2, <2>9, LinksKeeps
  <2>10. CASE NextLoop
    BY <1>2, <2>10, NextLoopKeeps
  <2>11. QED
    BY <2>1, <2>2, <2>3, <2>4, <2>5, <2>6, <2>7, <2>8, <2>9, <2>10
<1>4. Summarised' /\ Readable'
  BY <1>2, Frame DEF AuditInv
<1>5. audit' # "parse"
  <2>1. audit' \in Loops \cup Ends /\ "parse" \notin Loops \cup Ends
    BY <1>3 DEF RunInv, Types, Loops, BlockLoops, Ends
  <2>2. QED
    BY <2>1
<1>6. QED
  BY <1>3, <1>4, <1>5 DEF AuditInv

LEMMA AuditKeeps == ASSUME AuditInv, Audit PROVE AuditInv'
<1>1. CASE Parse /\ UNCHANGED csv
  <2>1. Summarised /\ AuditInit
    BY <1>1 DEF AuditInv, Parse
  <2>2. QED
    BY <1>1, <2>1, ParseKeeps
<1>2. CASE /\ \/ AuditInodeBlocks \/ AuditIndirect \/ AuditDuplicates \/ AuditUnreferenced
              \/ AuditInode \/ AuditMissing
              \/ FindParents \/ AuditEntry \/ AuditLinks
              \/ NextLoop
           /\ UNCHANGED summary
           /\ UNCHANGED csv
  BY <1>2, LoopKeeps
<1>3. QED
  BY <1>1, <1>2 DEF Audit

LEMMA AuditBegins == Summarised /\ AuditInit => AuditInv
BY DEF AuditInv, AuditInit

\* Every action of the audit keeps its invariant.
THEOREM AuditInvariant == AuditSpec => []AuditInv
<1>1. Summarised /\ AuditInit => AuditInv
  BY AuditBegins
<1>2. ASSUME AuditInv, [Audit]_<<csv, auditVars>> PROVE AuditInv'
  BY <1>2, AuditKeeps, StutterKeeps
<1>3. QED
  BY <1>1, <1>2, PTL DEF AuditSpec

-----------------------------------------------------------------------------
(* What the audit guarantees.                                              *)

LEMMA OnceSays == AuditInv => UnallocatedOnce
<1>1. SUFFICES ASSUME AuditInv, AuditEnded, Readable PROVE UnallocatedOnce
  BY DEF UnallocatedOnce
<1> DEFINE Of(kinds) == {k \in DOMAIN printed : printed[k].what \in kinds}
           about(kind) == {printed[k].about : k \in Of({kind})}
<1>2. Facts /\ FreeInv /\ OnceInv /\ EntryInv
  BY <1>1 DEF AuditInv, AuditEnded, RunInv
<1>3. ASSUME NEW kind PROVE about(kind) = AboutsOf(printed, {kind})
  BY DEF AboutsOf, ToSet
<1>4. \A j, k \in Of({"UNALLOCATED_INODE_NOT_ON_FREELIST", "ALLOCATED_INODE_ON_FREELIST"}) :
          printed[j].about = printed[k].about => j = k
  BY <1>2 DEF OnceInv, Once, NotFree, SaidInUse
<1> HIDE DEF about, Of
<1>5. ASSUME audit # "exit1"
      PROVE  about("UNALLOCATED_INODE") =
                 {e \in ToSet(my_dir) :
                     e.entry_reference_inode
                         \in (Free \ Used) \cup Unused \cup about("UNALLOCATED_INODE_NOT_ON_FREELIST")}
  <2>1. InodeTurns = Len(my_inode) /\ EntryTurns = Len(my_dir)
    BY <1>1, <1>5 DEF AuditEnded, InodeTurns, EntryTurns, BlockLoops
  <2>2. ToSet(my_ifree) =
            (Free \ Used) \cup Unused \cup about("UNALLOCATED_INODE_NOT_ON_FREELIST")
    <3>1. SeenUsed = Used /\ SeenUnused = Unused
      BY <1>2, <2>1, UsedInAll DEF SeenUsed, SeenUnused
    <3>2. about("UNALLOCATED_INODE_NOT_ON_FREELIST") = AboutsOf(printed, NotFree)
      BY <1>3 DEF NotFree
    <3>3. QED
      BY <1>2, <3>1, <3>2 DEF FreeInv
  <2>3. about("UNALLOCATED_INODE") =
            {my_dir[k] : k \in {j \in 1 .. Len(my_dir) :
                                   my_dir[j].entry_reference_inode \in ToSet(my_ifree)}}
    BY <1>2, <1>3, <1>5, <2>1 DEF EntryInv
  <2>4. DOMAIN my_dir = 1 .. Len(my_dir)
    BY <1>2, Numerals
  <2>5. {my_dir[k] : k \in {j \in 1 .. Len(my_dir) :
                               my_dir[j].entry_reference_inode \in ToSet(my_ifree)}}
            = {e \in ToSet(my_dir) : e.entry_reference_inode \in ToSet(my_ifree)}
    BY <2>4 DEF ToSet
  <2>6. QED
    BY <2>2, <2>3, <2>5
<1>6. QED
  BY <1>4, <1>5 DEF UnallocatedOnce, about, Of

\* No inode is reported twice, whatever happens to the list of free inodes
\* meanwhile, and the entries called unallocated are the right ones.
THEOREM OnceToldOfInodes == AuditSpec => []UnallocatedOnce
<1>1. AuditInv => UnallocatedOnce
  BY OnceSays
<1>2. QED
  BY <1>1, AuditInvariant, PTL

LEMMA EndSays == AuditInv => ExitTells
<1>1. SUFFICES ASSUME AuditInv, AuditEnded PROVE ExitTells
  BY DEF ExitTells
<1>2. audit # "parse"
  BY <1>1 DEF AuditEnded
<1>3. CASE ~Readable
  BY <1>1, <1>2, <1>3 DEF AuditInv, ExitTells
<1>4. CASE Readable
  <2>1. ErrorInv /\ CrashInv
    BY <1>1, <1>2, <1>4 DEF AuditInv, RunInv
  <2>2. {p.what : p \in ToSet(printed)} = Whats(printed)
    BY DEF Whats
  <2>3. CASE audit = "exit1"
    BY <2>1, <2>3 DEF CrashInv, ExitTells
  <2>4. CASE audit \in {"exit0", "exit2"}
    <3>1. audit = IF Whats(printed) \subseteq Quiet THEN "exit0" ELSE "exit2"
      BY <2>1, <2>4 DEF ErrorInv
    <3>2. QED
      BY <2>2, <3>1 DEF ExitTells, Quiet
  <2>5. QED
    BY <1>1, <2>3, <2>4 DEF AuditEnded
<1>5. QED
  BY <1>3, <1>4

\* How the audit ends says what it has printed.
THEOREM EndTells == AuditSpec => []ExitTells
<1>1. AuditInv => ExitTells
  BY EndSays
<1>2. QED
  BY <1>1, AuditInvariant, PTL

LEMMA AllButOne == \A a, b \in Nat : \A n \in a .. b : n # b => n \in a .. a + (b - a) - 1
OBVIOUS

LEMMA AllOfThem == \A a, b \in Nat : \A n \in a .. b - 1 : n \in a .. a + (b - a) - 1
OBVIOUS

\* Where the audit has kept silent, all is as it should be.
LEMMA SilentConsistent ==
    ASSUME RunInv, audit = "exit0", printed = <<>>
    PROVE  Consistent(my_sp.num_blocks, Overlooked)
<1>1. Facts /\ FreeInv /\ SilentBlocks /\ SilentInodes /\ SilentEntries
  BY DEF RunInv, SilentInv
<1>2. /\ BlockTurns = Len(my_inode) /\ IndirectTurns = Len(my_indir)
      /\ UnreferencedTurns = my_group.bid_group - start_block
      /\ InodeTurns = Len(my_inode) /\ MissingTurns = my_sp.num_inodes - my_sp.first_inode
      /\ EntryTurns = Len(my_dir) /\ LinkTurns = Len(my_allocated_inodes)
  BY DEF BlockTurns, IndirectTurns, UnreferencedTurns, InodeTurns, MissingTurns, EntryTurns,
         LinkTurns, BlockLoops
<1>3. /\ start_block \in Nat /\ my_group.bid_group \in Nat
      /\ my_sp.first_inode \in Nat /\ my_sp.num_inodes \in Nat
      /\ DOMAIN my_dir = 1 .. Len(my_dir)
  BY <1>1, Numerals
<1>4. SeenUsed = Used /\ SeenUnused = Unused
  BY <1>1, <1>2, UsedInAll DEF SeenUsed, SeenUnused
<1>5. BlocksConsistent(my_sp.num_blocks)
  <2>1. References = block_dic
    BY <1>1, <1>2, FiledSane
  <2>2. \A r \in ToSet(block_dic) : r.block \in (start_block .. my_sp.num_blocks) \ my_bfree
    BY <1>1 DEF SilentBlocks, FineMention
  <2>3. \A j, k \in DOMAIN block_dic : block_dic[j].block = block_dic[k].block => j = k
    BY <1>1 DEF SilentBlocks
  <2>4. ASSUME NEW b \in start_block .. my_group.bid_group - 1
        PROVE  b \in my_bfree \/ \E r \in ToSet(block_dic) : r.block = b
    <3>1. PICK x \in Nat, y \in Nat : x = start_block /\ y = my_group.bid_group
      BY <1>3
    <3>2. b \in x .. x + (y - x) - 1
      BY <3>1, AllOfThem
    <3>3. b \in start_block .. start_block + UnreferencedTurns - 1
      BY <1>2, <3>1, <3>2
    <3>4. QED
      BY <1>1, <3>3 DEF SilentBlocks, Covered
  <2>5. QED
    BY <2>1, <2>2, <2>3, <2>4 DEF BlocksConsistent
<1>6. ASSUME NEW n \in (my_sp.first_inode .. my_sp.num_inodes) \ Overlooked PROVE n \in Used \cup Free
  <2>1. PICK x \in Nat, y \in Nat : x = my_sp.first_inode /\ y = my_sp.num_inodes
    BY <1>3
  <2>2. n \in x .. y /\ n # y
    BY <1>6, <2>1 DEF Overlooked
  <2>3. n \in x .. x + (y - x) - 1
    BY <2>2, AllButOne
  <2>4. n \in my_sp.first_inode .. my_sp.first_inode + MissingTurns - 1
    BY <1>2, <2>1, <2>3
  <2>5. QED
    BY <1>1, <2>4 DEF SilentInodes
<1>7. InodesConsistent(Overlooked)
  BY <1>1, <1>4, <1>6 DEF SilentInodes, InodesConsistent
<1>8. ASSUME NEW e \in ToSet(my_dir)
      PROVE  FineEntry(e) /\ e.entry_reference_inode \in Used \cup (Overlooked \ Free)
  <2>1. PICK k \in 1 .. Len(my_dir) : e = my_dir[k]
    BY <1>3 DEF ToSet
  <2>2. FineEntry(e)
    BY <1>1, <1>2, <2>1 DEF SilentEntries
  <2>3. ASSUME NEW n, ValidInode(n), n \notin Overlooked
        PROVE  n \in (my_sp.first_inode .. my_sp.num_inodes) \ Overlooked
    <3>1. PICK x \in Nat, y \in Nat : x = my_sp.first_inode /\ y = my_sp.num_inodes
      BY <1>3
    <3>2. n \in 1 .. y /\ n \notin 1 .. x - 1
      BY <2>3, <3>1 DEF ValidInode, Overlooked
    <3>3. n \in x .. y
      BY <3>2
    <3>4. QED
      BY <2>3, <3>1, <3>3
  <2>4. QED
    BY <1>6, <2>2, <2>3 DEF FineEntry
<1>9. ASSUME NEW inode \in ToSet(my_inode), inode.file_type # "0"
      PROVE  inode.linkage_counts =
                 Cardinality({k \in DOMAIN my_dir :
                                 my_dir[k].entry_reference_inode = inode.inode_number})
  <2>1. PICK i \in 1 .. Len(my_inode) : inode = my_inode[i]
    BY <1>1, Numerals DEF ToSet
  <2>2. inode \in ToSet(my_allocated_inodes) /\ inode.inode_number \in Nat
    BY <1>1, <1>2, <1>9, <2>1, LineOfInode DEF FreeInv
  <2>3. PICK k \in 1 .. Len(my_allocated_inodes) : inode = my_allocated_inodes[k]
    <3>1. my_allocated_inodes \in Seq(InodeLines)
      BY DEF RunInv, Types
    <3>2. QED
      BY <2>2, <3>1 DEF ToSet
  <2>4. LinksTo(inode.inode_number) = inode.linkage_counts
    BY <1>1, <1>2, <2>3 DEF SilentEntries
  <2>5. LinksTo(inode.inode_number) = Cardinality(LinksIn(inode.inode_number, Len(my_dir)))
    BY <1>1, <1>2, <2>2 DEF SilentEntries
  <2>6. LinksIn(inode.inode_number, Len(my_dir))
            = {j \in DOMAIN my_dir : my_dir[j].entry_reference_inode = inode.inode_number}
    BY <1>3 DEF LinksIn
  <2>7. QED
    BY <2>4, <2>5, <2>6
<1>10. DirectoriesConsistent(Overlooked)
  BY <1>8, <1>9 DEF DirectoriesConsistent, FineEntry
<1>11. QED
  BY <1>5, <1>7, <1>10 DEF Consistent

LEMMA SilenceSays == AuditInv => SilentIffConsistent
<1>1. SUFFICES ASSUME AuditInv, AuditEnded, Readable PROVE SilentIffConsistent
  BY DEF SilentIffConsistent
<1>2. RunInv
  BY <1>1 DEF AuditInv, AuditEnded
<1>3. ASSUME Consistent(my_sp.num_blocks - 1, {}) /\ Tree PROVE audit = "exit0" /\ printed = <<>>
  <2>1. SaneInv /\ ErrorInv
    BY <1>2 DEF RunInv
  <2>2. printed = <<>> /\ audit # "exit1"
    BY <1>3, <2>1 DEF SaneInv, Sane
  <2>3. ~my_error
    BY <2>1, <2>2, WhatsNone DEF ErrorInv
  <2>4. QED
    BY <1>1, <2>1, <2>2, <2>3 DEF ErrorInv, AuditEnded
<1>4. ASSUME audit = "exit0", printed = <<>> PROVE Consistent(my_sp.num_blocks, Overlooked)
  BY <1>2, <1>4, SilentConsistent
<1>5. QED
  BY <1>3, <1>4 DEF SilentIffConsistent

\* The audit keeps silent of sound file systems, and of no other up to what it
\* overlooks.
THEOREM SilenceTells == AuditSpec => []SilentIffConsistent
<1>1. AuditInv => SilentIffConsistent
  BY SilenceSays
<1>2. QED
  BY <1>1, AuditInvariant, PTL

-----------------------------------------------------------------------------
(* The lines of one kind.                                                  *)

OfKind(s, kind) == Without(s, {l \in ToSet(s) : l.line # kind})

LEMMA LinesOfCsv == \A kind : Lines(kind) = OfKind(csv, kind)
BY DEF Lines, OfKind

\* Only what is in a sequence can be dropped from it.
LEMMA WithoutSame ==
    ASSUME NEW S, NEW s \in Seq(S), NEW c, NEW d, ToSet(s) \cap c = ToSet(s) \cap d
    PROVE  Without(s, c) = Without(s, d)
<1>1. \A i \in DOMAIN s : s[i] \in c <=> s[i] \in d
  BY DEF ToSet
<1>2. [i \in DOMAIN s |-> IF s[i] \in c THEN <<>> ELSE <<s[i]>>]
          = [i \in DOMAIN s |-> IF s[i] \in d THEN <<>> ELSE <<s[i]>>]
  BY <1>1
<1>3. QED
  BY <1>2 DEF Without

LEMMA OfKindType ==
    ASSUME NEW S, NEW s \in Seq(S), NEW kind
    PROVE  OfKind(s, kind) \in Seq(S)
BY WithoutType DEF OfKind

LEMMA OfKindConcat ==
    ASSUME NEW S, NEW s \in Seq(S), NEW t \in Seq(S), NEW kind
    PROVE  OfKind(s \o t, kind) = OfKind(s, kind) \o OfKind(t, kind)
<1> DEFINE other(r) == {l \in ToSet(r) : l.line # kind}
<1>1. s \o t \in Seq(S) /\ ToSet(s \o t) = ToSet(s) \cup ToSet(t)
  BY RangeConcat, ConcatProperties
<1>2. Without(s, other(s \o t)) = Without(s, other(s))
  <2>1. ToSet(s) \cap other(s \o t) = ToSet(s) \cap other(s)
    BY <1>1
  <2> HIDE DEF other
  <2>2. QED
    BY <2>1, WithoutSame
<1>3. Without(t, other(s \o t)) = Without(t, other(t))
  <2>1. ToSet(t) \cap other(s \o t) = ToSet(t) \cap other(t)
    BY <1>1
  <2> HIDE DEF other
  <2>2. QED
    BY <2>1, WithoutSame
<1> HIDE DEF other
<1>4. Without(s \o t, other(s \o t)) = Without(s, other(s \o t)) \o Without(t, other(s \o t))
  BY WithoutConcat
<1>5. QED
  BY <1>2, <1>3, <1>4 DEF OfKind, other

LEMMA OfKindAll ==
    ASSUME NEW S, NEW s \in Seq(S), NEW kind, \A l \in ToSet(s) : l.line = kind
    PROVE  OfKind(s, kind) = s
<1>1. {l \in ToSet(s) : l.line # kind} = {}
  OBVIOUS
<1>2. QED
  BY <1>1, WithoutNothing DEF OfKind

LEMMA OfKindNone ==
    ASSUME NEW S, NEW s \in Seq(S), NEW kind, \A l \in ToSet(s) : l.line # kind
    PROVE  OfKind(s, kind) = <<>>
<1>1. /\ OfKind(s, kind) \in Seq(S)
      /\ ToSet(OfKind(s, kind)) = ToSet(s) \ {l \in ToSet(s) : l.line # kind}
  BY WithoutType, RangeWithout DEF OfKind
<1>2. ToSet(OfKind(s, kind)) = {}
  BY <1>1
<1>3. QED
  BY <1>1, <1>2, RangeEmpty

After(s, t) == s \o t

AllOf(t, kind) == \A l \in ToSet(t) : l.line = kind
MoreOf(s, t, kind) ==
    /\ OfKind(After(s, t), kind) = After(OfKind(s, kind), t)
    /\ \A other : other # kind => OfKind(After(s, t), other) = OfKind(s, other)

\* What is printed next is of one kind: only the lines of that kind are more.
LEMMA PrintedMore ==
    ASSUME NEW S, NEW s \in Seq(S), NEW t \in Seq(S), NEW kind, AllOf(t, kind)
    PROVE  After(s, t) \in Seq(S) /\ MoreOf(s, t, kind)
<1> \A l \in ToSet(t) : l.line = kind
  BY DEF AllOf
<1>1. OfKind(t, kind) = t
  BY OfKindAll
<1>2. ASSUME NEW other, other # kind PROVE OfKind(s \o t, other) = OfKind(s, other)
  <2>1. \A l \in ToSet(t) : l.line # other
    BY <1>2
  <2>2. OfKind(t, other) = <<>>
    BY <2>1, OfKindNone
  <2>3. OfKind(s \o t, other) = OfKind(s, other) \o OfKind(t, other)
    BY OfKindConcat
  <2>4. OfKind(s, other) \in Seq(S)
    BY OfKindType
  <2>5. QED
    BY <2>2, <2>3, <2>4, ConcatEmptySeq
<1>3. OfKind(s \o t, kind) = OfKind(s, kind) \o OfKind(t, kind)
  BY OfKindConcat
<1>4. s \o t \in Seq(S)
  BY ConcatProperties
<1>5. QED
  BY <1>1, <1>2, <1>3, <1>4 DEF After, MoreOf

-----------------------------------------------------------------------------
(* Sequences made of one piece for each of the numbers 1 to m.             *)

Upto(f, m) == FlattenSeq([n \in 1 .. m |-> f[n]])

LEMMA UptoNone == ASSUME NEW f PROVE Upto(f, 0) = <<>>
<1>1. [n \in 1 .. 0 |-> f[n]] = <<>>
  OBVIOUS
<1>2. QED
  BY <1>1, FlattenEmpty DEF Upto

LEMMA UptoNext ==
    ASSUME NEW S, NEW f \in [Nat -> Seq(S)], NEW m \in Nat
    PROVE  /\ Upto(f, m) \in Seq(S)
           /\ Upto(f, m + 1) = Upto(f, m) \o f[m + 1]
<1> DEFINE P(k) == [n \in 1 .. k |-> f[n]]
<1>1. P(m) \in Seq(Seq(S)) /\ f[m + 1] \in Seq(S)
  OBVIOUS
<1>2. Append(P(m), f[m + 1]) = P(m + 1)
  <2>1. /\ P(m) \in Seq(Seq(S)) /\ Len(P(m)) = m
        /\ P(m + 1) \in Seq(Seq(S)) /\ Len(P(m + 1)) = m + 1
    OBVIOUS
  <2>2. \A n \in 1 .. m : P(m + 1)[n] = P(m)[n]
    OBVIOUS
  <2>3. P(m + 1)[m + 1] = f[m + 1]
    OBVIOUS
  <2>4. /\ Append(P(m), f[m + 1]) \in Seq(Seq(S)) /\ Len(Append(P(m), f[m + 1])) = m + 1
        /\ \A n \in 1 .. m : Append(P(m), f[m + 1])[n] = P(m)[n]
        /\ Append(P(m), f[m + 1])[m + 1] = f[m + 1]
    BY <1>1, <2>1, AppendProperties
  <2> HIDE DEF P
  <2>5. \A n \in 1 .. m + 1 : Append(P(m), f[m + 1])[n] = P(m + 1)[n]
    BY <2>2, <2>3, <2>4, SMTT(40)
  <2>6. QED
    BY <2>1, <2>4, <2>5, SeqEqual
<1> HIDE DEF P
<1>3. /\ FlattenSeq(P(m)) \in Seq(S)
      /\ FlattenSeq(Append(P(m), f[m + 1])) = FlattenSeq(P(m)) \o f[m + 1]
  BY <1>1, FlattenAppend
<1>4. QED
  BY <1>2, <1>3 DEF Upto, P

\* Empty pieces change nothing.
LEMMA UptoStill ==
    ASSUME NEW S, NEW f \in [Nat -> Seq(S)], NEW m \in Nat, NEW k \in Nat, m <= k,
           \A n \in m + 1 .. k : f[n] = <<>>
    PROVE  Upto(f, k) = Upto(f, m)
<1> DEFINE T == {n \in Nat : m + n <= k => Upto(f, m + n) = Upto(f, m)}
<1>1. 0 \in T
  OBVIOUS
<1>2. ASSUME NEW n \in Nat, n \in T PROVE n + 1 \in T
  <2>1. SUFFICES ASSUME m + (n + 1) <= k PROVE Upto(f, m + (n + 1)) = Upto(f, m)
    OBVIOUS
  <2>2. m + n \in Nat /\ m + n <= k /\ (m + n) + 1 \in m + 1 .. k /\ (m + n) + 1 = m + (n + 1)
    BY <2>1
  <2>3. Upto(f, m + n) = Upto(f, m) /\ f[(m + n) + 1] = <<>>
    BY <1>2, <2>2
  <2>4. Upto(f, m + n) \in Seq(S) /\ Upto(f, (m + n) + 1) = Upto(f, m + n) \o f[(m + n) + 1]
    BY <2>2, UptoNext
  <2>5. QED
    BY <2>2, <2>3, <2>4, ConcatEmptySeq
<1>3. Nat \subseteq T
  BY <1>1, <1>2, NatSetInduction
<1>4. k - m \in Nat /\ m + (k - m) = k
  OBVIOUS
<1>5. k - m \in T
  BY <1>3, <1>4
<1>6. QED
  BY <1>4, <1>5

LEMMA UptoRange ==
    ASSUME NEW S, NEW f \in [Nat -> Seq(S)], NEW m \in Nat
    PROVE  ToSet(Upto(f, m)) = UNION {ToSet(f[n]) : n \in 1 .. m}
<1> DEFINE P == [n \in 1 .. m |-> f[n]]
<1>1. P \in Seq(Seq(S)) /\ DOMAIN P = 1 .. m /\ \A n \in 1 .. m : P[n] = f[n]
  OBVIOUS
<1> HIDE DEF P
<1>2. ToSet(FlattenSeq(P)) = UNION {ToSet(s) : s \in ToSet(P)}
  BY <1>1, RangeFlatten
<1>3. ToSet(P) = {f[n] : n \in 1 .. m}
  BY <1>1 DEF ToSet
<1>4. QED
  BY <1>2, <1>3 DEF Upto, P

\* Pieces that have one element or none.
Kept(D, keep, f) == [k \in 1 .. D |-> IF k \in keep THEN <<f[k]>> ELSE <<>>]
ImageOf(f, keep) == {f[k] : k \in keep}

LEMMA KeptRange ==
    ASSUME NEW S, NEW D \in Nat, NEW keep \in SUBSET (1 .. D), NEW f \in [1 .. D -> S]
    PROVE  /\ FlattenSeq(Kept(D, keep, f)) \in Seq(S)
           /\ ToSet(FlattenSeq(Kept(D, keep, f))) = ImageOf(f, keep)
<1> DEFINE pieces == [k \in 1 .. D |-> IF k \in keep THEN <<f[k]>> ELSE <<>>]
<1>1. pieces \in Seq(Seq(S))
  <2>1. \A k \in 1 .. D : pieces[k] \in Seq(S)
    BY EmptySeq
  <2>2. DOMAIN pieces = 1 .. D
    OBVIOUS
  <2>3. pieces = [k \in 1 .. D |-> pieces[k]]
    OBVIOUS
  <2> HIDE DEF pieces
  <2>4. QED
    BY <2>1, <2>3
<1>2. \A k \in 1 .. D : ToSet(pieces[k]) = IF k \in keep THEN {f[k]} ELSE {}
  BY RangeNothing DEF ToSet
<1>3. DOMAIN pieces = 1 .. D
  OBVIOUS
<1> HIDE DEF pieces
<1>4. /\ FlattenSeq(pieces) \in Seq(S)
      /\ ToSet(FlattenSeq(pieces)) = UNION {ToSet(s) : s \in ToSet(pieces)}
  BY <1>1, RangeFlatten, EmptySeq, FlattenAppend
<1>5. ToSet(pieces) = {pieces[k] : k \in 1 .. D}
  BY <1>3 DEF ToSet
<1>6. UNION {ToSet(s) : s \in ToSet(pieces)} = UNION {ToSet(pieces[k]) : k \in 1 .. D}
  BY <1>5
<1>7. UNION {ToSet(pieces[k]) : k \in 1 .. D} = {f[k] : k \in keep}
  BY <1>2
<1>8. QED
  BY <1>4, <1>6, <1>7 DEF pieces, Kept, ImageOf

\* Each line is followed by what is below it.
Followed(lines, g) == FlattenSeq([k \in DOMAIN lines |-> <<lines[k]>> \o g[lines[k]]])
Following(lines, g) == UNION {ToSet(g[l]) : l \in ToSet(lines)}

LEMMA FollowedRange ==
    ASSUME NEW S, NEW lines \in Seq(S), NEW g \in [S -> Seq(S)]
    PROVE  /\ Followed(lines, g) \in Seq(S)
           /\ ToSet(Followed(lines, g)) = ToSet(lines) \cup Following(lines, g)
<1> DEFINE pieces == [k \in DOMAIN lines |-> <<lines[k]>> \o g[lines[k]]]
<1>1. ASSUME NEW k \in DOMAIN lines
      PROVE  /\ pieces[k] \in Seq(S)
             /\ ToSet(pieces[k]) = {lines[k]} \cup ToSet(g[lines[k]])
  <2>1. PICK e \in S : e = lines[k]
    OBVIOUS
  <2>2. PICK s \in Seq(S), t \in Seq(S) : s = <<e>> /\ t = g[e]
    <3>1. <<e>> \in Seq(S) /\ g[e] \in Seq(S)
      OBVIOUS
    <3>2. QED
      BY <3>1, Zenon
  <2>3. s \o t \in Seq(S) /\ ToSet(s \o t) = ToSet(s) \cup ToSet(t)
    BY RangeConcat, ConcatProperties
  <2>4. pieces[k] = s \o t /\ ToSet(s) = {e}
    BY <2>1, <2>2 DEF ToSet
  <2>5. QED
    BY <2>1, <2>2, <2>3, <2>4
<1>2. DOMAIN pieces = DOMAIN lines /\ DOMAIN lines = 1 .. Len(lines) /\ Len(lines) \in Nat
  OBVIOUS
<1>3. pieces = [k \in DOMAIN lines |-> pieces[k]]
  OBVIOUS
<1> HIDE DEF pieces
<1>4. pieces \in Seq(Seq(S))
  BY <1>1, <1>2, <1>3
<1>5. /\ FlattenSeq(pieces) \in Seq(S)
      /\ ToSet(FlattenSeq(pieces)) = UNION {ToSet(s) : s \in ToSet(pieces)}
  BY <1>4, RangeFlatten, EmptySeq, FlattenAppend
<1>6. UNION {ToSet(s) : s \in ToSet(pieces)} = UNION {ToSet(pieces[k]) : k \in DOMAIN lines}
  <2>1. ToSet(pieces) = {pieces[k] : k \in DOMAIN lines}
    BY <1>2 DEF ToSet
  <2>2. QED
    BY <2>1
<1>7. UNION {ToSet(pieces[k]) : k \in DOMAIN lines}
         = UNION {{lines[k]} \cup ToSet(g[lines[k]]) : k \in DOMAIN lines}
  BY <1>1
<1>8. ToSet(lines) = {lines[k] : k \in DOMAIN lines}
  BY DEF ToSet
<1>9. UNION {{lines[k]} \cup ToSet(g[lines[k]]) : k \in DOMAIN lines}
         = ToSet(lines) \cup UNION {ToSet(g[l]) : l \in ToSet(lines)}
  <2> DEFINE below(l) == ToSet(g[l])
             L == ToSet(lines)
  <2>1. ASSUME NEW x
        PROVE  x \in UNION {{lines[k]} \cup below(lines[k]) : k \in DOMAIN lines}
                  <=> \E l \in L : x = l \/ x \in below(l)
    <3> HIDE DEF below
    <3>1. ASSUME NEW k \in DOMAIN lines, x \in {lines[k]} \cup below(lines[k])
          PROVE  \E l \in L : x = l \/ x \in below(l)
      <4>1. PICK l : l = lines[k]
        OBVIOUS
      <4>2. l \in L /\ (x = l \/ x \in below(l))
        BY <1>8, <3>1, <4>1
      <4>3. QED
        BY <4>2
    <3>2. ASSUME NEW l \in L, x = l \/ x \in below(l)
          PROVE  \E k \in DOMAIN lines : x \in {lines[k]} \cup below(lines[k])
      <4>1. PICK k \in DOMAIN lines : l = lines[k]
        BY <1>8
      <4>2. QED
        BY <3>2, <4>1
    <3>3. QED
      BY <3>1, <3>2
  <2>2. ASSUME NEW x
        PROVE  x \in L \cup UNION {below(l) : l \in L} <=> \E l \in L : x = l \/ x \in below(l)
    <3> HIDE DEF below, L
    <3>1. QED
      OBVIOUS
  <2> HIDE DEF below, L
  <2>3. UNION {{lines[k]} \cup below(lines[k]) : k \in DOMAIN lines} = L \cup UNION {below(l) : l \in L}
    BY <2>1, <2>2
  <2>4. QED
    BY <2>3 DEF below, L
<1>10. QED
  BY <1>5, <1>6, <1>7, <1>9 DEF pieces, Followed, Following

-----------------------------------------------------------------------------
(* How often a sequence has an element of a set.                           *)

Has(s, X) == \E i \in DOMAIN s : s[i] \in X
Twice(s, X) == \E i, j \in DOMAIN s : i # j /\ s[i] \in X /\ s[j] \in X

LEMMA TwiceConcat ==
    ASSUME NEW S, NEW s \in Seq(S), NEW t \in Seq(S), NEW X,
           Twice(s, X) \/ Twice(t, X) \/ (Has(s, X) /\ Has(t, X))
    PROVE  Twice(s \o t, X)
<1> DEFINE c == s \o t
<1>1. /\ Len(s) \in Nat /\ Len(t) \in Nat /\ DOMAIN s = 1 .. Len(s) /\ DOMAIN t = 1 .. Len(t)
      /\ DOMAIN c = 1 .. Len(s) + Len(t)
      /\ \A i \in 1 .. Len(s) : c[i] = s[i]
      /\ \A i \in 1 .. Len(t) : c[Len(s) + i] = t[i]
  BY ConcatProperties
<1> HIDE DEF c
<1>2. CASE Twice(s, X)
  BY <1>1, <1>2 DEF Twice, c
<1>3. CASE Twice(t, X)
  <2>1. PICK i \in DOMAIN t, j \in DOMAIN t : i # j /\ t[i] \in X /\ t[j] \in X
    BY <1>3 DEF Twice
  <2>2. /\ Len(s) + i \in DOMAIN c /\ Len(s) + j \in DOMAIN c /\ Len(s) + i # Len(s) + j
        /\ c[Len(s) + i] \in X /\ c[Len(s) + j] \in X
    BY <1>1, <2>1
  <2>3. QED
    BY <2>2 DEF Twice, c
<1>4. CASE Has(s, X) /\ Has(t, X)
  <2>1. PICK i \in DOMAIN s, j \in DOMAIN t : s[i] \in X /\ t[j] \in X
    BY <1>4 DEF Has
  <2>2. /\ i \in DOMAIN c /\ Len(s) + j \in DOMAIN c /\ i # Len(s) + j
        /\ c[i] \in X /\ c[Len(s) + j] \in X
    BY <1>1, <2>1
  <2>3. QED
    BY <2>2 DEF Twice, c
<1>5. QED
  BY <1>2, <1>3, <1>4

LEMMA HasIs ==
    ASSUME NEW S, NEW s \in Seq(S), NEW X
    PROVE  Has(s, X) <=> \E e \in ToSet(s) : e \in X
BY DEF Has, ToSet

\* In one piece twice, or in two.
TwiceIn(ss, X) ==
    \/ \E i \in DOMAIN ss : Twice(ss[i], X)
    \/ \E i, j \in DOMAIN ss : i # j /\ Has(ss[i], X) /\ Has(ss[j], X)

LEMMA TwiceFlatten ==
    ASSUME NEW S, NEW ss \in Seq(Seq(S)), NEW X, TwiceIn(ss, X)
    PROVE  Twice(FlattenSeq(ss), X)
<1> DEFINE T == {r \in Seq(Seq(S)) : TwiceIn(r, X) => Twice(FlattenSeq(r), X)}
<1>1. <<>> \in T
  BY EmptySeq DEF TwiceIn
<1>2. ASSUME NEW r \in Seq(Seq(S)), r \in T, NEW e \in Seq(S) PROVE Append(r, e) \in T
  <2> DEFINE a == Append(r, e)
  <2>1. /\ a \in Seq(Seq(S)) /\ Len(r) \in Nat /\ DOMAIN r = 1 .. Len(r)
        /\ DOMAIN a = 1 .. Len(r) + 1 /\ a[Len(r) + 1] = e
        /\ \A i \in 1 .. Len(r) : a[i] = r[i]
    BY AppendProperties
  <2>2. FlattenSeq(r) \in Seq(S) /\ FlattenSeq(a) = FlattenSeq(r) \o e
    BY FlattenAppend
  <2>3. PICK f \in Seq(S) : f = FlattenSeq(r)
    BY <2>2
  <2>4. TwiceIn(r, X) => Twice(f, X)
    BY <1>2, <2>3
  <2>5. ASSUME NEW i \in DOMAIN r, Has(r[i], X) PROVE Has(f, X)
    <3>1. PICK x \in ToSet(r[i]) : x \in X
      BY <2>5, HasIs
    <3>2. r[i] \in ToSet(r)
      BY DEF ToSet
    <3>3. ToSet(f) = UNION {ToSet(s) : s \in ToSet(r)}
      BY <2>3, RangeFlatten
    <3>4. x \in ToSet(f)
      BY <3>1, <3>2, <3>3
    <3>5. QED
      BY <3>1, <3>4, HasIs
  <2> HIDE DEF a
  <2>6. ASSUME TwiceIn(a, X) PROVE Twice(f, X) \/ Twice(e, X) \/ (Has(f, X) /\ Has(e, X))
    <3>1. \A i \in DOMAIN a : (i \in DOMAIN r /\ a[i] = r[i]) \/ (i = Len(r) + 1 /\ a[i] = e)
      <4>1. \A n \in Nat : \A i \in 1 .. n + 1 : i \in 1 .. n \/ i = n + 1
        OBVIOUS
      <4>2. ASSUME NEW i \in DOMAIN a PROVE i \in DOMAIN r \/ i = Len(r) + 1
        BY <2>1, <4>1
      <4>3. QED
        BY <2>1, <4>2
    <3>2. CASE \E i \in DOMAIN a : Twice(a[i], X)
      BY <2>4, <3>1, <3>2 DEF TwiceIn
    <3>3. CASE \E i, j \in DOMAIN a : i # j /\ Has(a[i], X) /\ Has(a[j], X)
      <4>1. PICK i \in DOMAIN a, j \in DOMAIN a : i # j /\ Has(a[i], X) /\ Has(a[j], X)
        BY <3>3
      <4>2. CASE i \in DOMAIN r /\ j \in DOMAIN r /\ a[i] = r[i] /\ a[j] = r[j]
        BY <2>4, <4>1, <4>2 DEF TwiceIn
      <4>3. CASE ~(i \in DOMAIN r /\ j \in DOMAIN r /\ a[i] = r[i] /\ a[j] = r[j])
        BY <2>5, <3>1, <4>1, <4>3
      <4>4. QED
        BY <4>2, <4>3
    <3>4. QED
      BY <2>6, <3>2, <3>3 DEF TwiceIn
  <2>7. TwiceIn(a, X) => Twice(f \o e, X)
    BY <2>6, TwiceConcat
  <2>8. QED
    BY <2>1, <2>2, <2>3, <2>7 DEF a
<1>3. Seq(Seq(S)) \subseteq T
  BY <1>1, <1>2, SeqSetInduction
<1>4. QED
  BY <1>3


LEMMA HasOne == ASSUME NEW X, NEW e \in X PROVE Has(<<e>>, X)
BY DEF Has

LEMMA KeptTwice ==
    ASSUME NEW S, NEW D \in Nat, NEW keep \in SUBSET (1 .. D), NEW f \in [1 .. D -> S], NEW X,
           NEW i \in keep, NEW j \in keep, i # j, f[i] \in X, f[j] \in X
    PROVE  Twice(FlattenSeq(Kept(D, keep, f)), X)
<1> DEFINE pieces == Kept(D, keep, f)
<1>1. DOMAIN pieces = 1 .. D /\ \A k \in 1 .. D : pieces[k] = IF k \in keep THEN <<f[k]>> ELSE <<>>
  BY DEF Kept
<1>2. \A k \in 1 .. D : pieces[k] \in Seq(S)
  <2>1. ASSUME NEW k \in 1 .. D PROVE <<f[k]>> \in Seq(S) /\ <<>> \in Seq(S)
    BY EmptySeq
  <2> HIDE DEF pieces
  <2>2. QED
    BY <1>1, <2>1
<1>3. pieces = [k \in 1 .. D |-> pieces[k]]
  BY DEF Kept
<1> HIDE DEF pieces
<1>4. pieces \in Seq(Seq(S))
  <2>1. [k \in 1 .. D |-> pieces[k]] \in Seq(Seq(S))
    BY <1>2
  <2>2. QED
    BY <1>3, <2>1
<1>5. Has(pieces[i], X) /\ Has(pieces[j], X) /\ i \in DOMAIN pieces /\ j \in DOMAIN pieces
  <2>1. Has(<<f[i]>>, X) /\ Has(<<f[j]>>, X)
    BY HasOne
  <2>2. QED
    BY <1>1, <2>1
<1>6. TwiceIn(pieces, X)
  BY <1>5 DEF TwiceIn
<1>7. QED
  BY <1>4, <1>6, TwiceFlatten DEF pieces

LEMMA WithoutTwice ==
    ASSUME NEW S, NEW s \in Seq(S), NEW dropped, NEW X, X \cap dropped = {}, Twice(s, X)
    PROVE  Twice(Without(s, dropped), X)
<1> DEFINE keep == {i \in DOMAIN s : s[i] \notin dropped}
<1>1. PICK i \in DOMAIN s, j \in DOMAIN s : i # j /\ s[i] \in X /\ s[j] \in X
  BY DEF Twice
<1>2. Len(s) \in Nat /\ DOMAIN s = 1 .. Len(s) /\ s \in [1 .. Len(s) -> S]
  OBVIOUS
<1>3. keep \in SUBSET (1 .. Len(s)) /\ i \in keep /\ j \in keep
  BY <1>1, <1>2
<1>4. Without(s, dropped) = FlattenSeq(Kept(Len(s), keep, s))
  <2>1. [k \in DOMAIN s |-> IF s[k] \in dropped THEN <<>> ELSE <<s[k]>>] = Kept(Len(s), keep, s)
    BY <1>2 DEF Kept
  <2>2. QED
    BY <2>1 DEF Without
<1> HIDE DEF keep
<1>5. Twice(FlattenSeq(Kept(Len(s), keep, s)), X)
  BY <1>1, <1>2, <1>3, KeptTwice
<1>6. QED
  BY <1>4, <1>5

LEMMA FollowedTwice ==
    ASSUME NEW S, NEW lines \in Seq(S), NEW g \in [S -> Seq(S)], NEW X,
           Twice(lines, X) \/ \E l \in ToSet(lines) : Twice(g[l], X)
    PROVE  Twice(Followed(lines, g), X)
<1> DEFINE pieces == [k \in DOMAIN lines |-> <<lines[k]>> \o g[lines[k]]]
<1>1. ASSUME NEW k \in DOMAIN lines
      PROVE  /\ pieces[k] \in Seq(S)
             /\ lines[k] \in X => Has(pieces[k], X)
             /\ Twice(g[lines[k]], X) => Twice(pieces[k], X)
  <2>1. PICK e \in S : e = lines[k]
    OBVIOUS
  <2>2. PICK s \in Seq(S), t \in Seq(S) : s = <<e>> /\ t = g[e]
    <3>1. <<e>> \in Seq(S) /\ g[e] \in Seq(S)
      OBVIOUS
    <3>2. QED
      BY <3>1, Zenon
  <2>3. s \o t \in Seq(S) /\ ToSet(s \o t) = ToSet(s) \cup ToSet(t)
    BY RangeConcat, ConcatProperties
  <2>4. e \in ToSet(s)
    BY <2>2 DEF ToSet
  <2>5. e \in X => Has(s \o t, X)
    BY <2>3, <2>4, HasIs
  <2>6. Twice(t, X) => Twice(s \o t, X)
    BY TwiceConcat
  <2>7. pieces[k] = s \o t
    BY <2>1, <2>2
  <2>8. QED
    BY <2>1, <2>2, <2>3, <2>5, <2>6, <2>7
<1>2. DOMAIN pieces = DOMAIN lines /\ DOMAIN lines = 1 .. Len(lines) /\ Len(lines) \in Nat
  OBVIOUS
<1>3. pieces = [k \in DOMAIN lines |-> pieces[k]]
  OBVIOUS
<1> HIDE DEF pieces
<1>4. pieces \in Seq(Seq(S))
  BY <1>1, <1>2, <1>3
<1>5. TwiceIn(pieces, X)
  <2>1. CASE Twice(lines, X)
    BY <1>1, <1>2, <2>1 DEF Twice, TwiceIn
  <2>2. CASE \E l \in ToSet(lines) : Twice(g[l], X)
    <3>1. PICK k \in DOMAIN lines : Twice(g[lines[k]], X)
      BY <2>2 DEF ToSet
    <3>2. QED
      BY <1>1, <1>2, <3>1 DEF TwiceIn
  <2>3. QED
    BY <2>1, <2>2
<1>6. QED
  BY <1>4, <1>5, TwiceFlatten DEF pieces, Followed

LEMMA UptoTwice ==
    ASSUME NEW S, NEW f \in [Nat -> Seq(S)], NEW m \in Nat, NEW n \in 1 .. m, NEW X, Twice(f[n], X)
    PROVE  Twice(Upto(f, m), X)
<1>1. PICK P \in Seq(Seq(S)) : P = [k \in 1 .. m |-> f[k]]
  <2>1. [k \in 1 .. m |-> f[k]] \in Seq(Seq(S))
    OBVIOUS
  <2>2. QED
    BY <2>1
<1>2. n \in DOMAIN P /\ P[n] = f[n]
  BY <1>1
<1>3. TwiceIn(P, X)
  BY <1>2 DEF TwiceIn
<1>4. QED
  BY <1>1, <1>3, TwiceFlatten DEF Upto

-----------------------------------------------------------------------------
(* A sequence has two elements of a set only where its parts have them.    *)

LEMMA ConcatHas ==
    ASSUME NEW S, NEW s \in Seq(S), NEW t \in Seq(S), NEW X, Has(s \o t, X)
    PROVE  Has(s, X) \/ Has(t, X)
<1>1. s \o t \in Seq(S) /\ ToSet(s \o t) = ToSet(s) \cup ToSet(t)
  BY RangeConcat, ConcatProperties
<1>2. PICK e : e \in X /\ (e \in ToSet(s) \/ e \in ToSet(t))
  BY <1>1, HasIs
<1>3. QED
  BY <1>2, HasIs

LEMMA ConcatTwice ==
    ASSUME NEW S, NEW s \in Seq(S), NEW t \in Seq(S), NEW X, Twice(s \o t, X)
    PROVE  Twice(s, X) \/ Twice(t, X) \/ (Has(s, X) /\ Has(t, X))
<1> DEFINE c == s \o t
<1>1. /\ Len(s) \in Nat /\ Len(t) \in Nat /\ DOMAIN s = 1 .. Len(s) /\ DOMAIN t = 1 .. Len(t)
      /\ DOMAIN c = 1 .. Len(s) + Len(t)
      /\ \A i \in 1 .. Len(s) : c[i] = s[i]
      /\ \A i \in 1 .. Len(t) : c[Len(s) + i] = t[i]
  BY ConcatProperties
<1>2. PICK i \in DOMAIN c, j \in DOMAIN c : i # j /\ c[i] \in X /\ c[j] \in X
  BY DEF Twice
<1>3. PICK m \in Nat, n \in Nat : m = Len(s) /\ n = Len(t)
  <2>1. Len(s) \in Nat /\ Len(t) \in Nat
    OBVIOUS
  <2>2. QED
    BY <2>1
<1> HIDE DEF c
<1>4. \A k \in 1 .. m + n : k \in 1 .. m \/ \E q \in 1 .. n : k = m + q
  <2>1. ASSUME NEW k \in 1 .. m + n, k \notin 1 .. m PROVE \E q \in 1 .. n : k = m + q
    <3>1. k - m \in 1 .. n /\ k = m + (k - m)
      BY <2>1
    <3>2. QED
      BY <3>1
  <2>2. QED
    BY <2>1
<1>5. \A k \in DOMAIN c : (k \in DOMAIN s /\ c[k] = s[k]) \/ \E q \in DOMAIN t : k = m + q /\ c[k] = t[q]
  <2>1. DOMAIN c = 1 .. m + n /\ DOMAIN s = 1 .. m /\ DOMAIN t = 1 .. n
    BY <1>1, <1>3
  <2>2. (\A k \in 1 .. m : c[k] = s[k]) /\ \A q \in 1 .. n : c[m + q] = t[q]
    BY <1>1, <1>3
  <2>3. ASSUME NEW k \in 1 .. m + n PROVE (k \in 1 .. m /\ c[k] = s[k]) \/ \E q \in 1 .. n : k = m + q /\ c[k] = t[q]
    <3>1. CASE k \in 1 .. m
      BY <2>2, <3>1
    <3>2. CASE k \notin 1 .. m
      <4>1. PICK q \in 1 .. n : k = m + q
        BY <1>4, <3>2
      <4>2. c[k] = t[q]
        BY <2>2, <4>1
      <4>3. QED
        BY <4>1, <4>2
    <3>3. QED
      BY <3>1, <3>2
  <2>4. QED
    BY <2>1, <2>3
<1>6. CASE i \in DOMAIN s /\ c[i] = s[i] /\ j \in DOMAIN s /\ c[j] = s[j]
  BY <1>2, <1>6 DEF Twice
<1>7. CASE ~(i \in DOMAIN s /\ c[i] = s[i]) /\ ~(j \in DOMAIN s /\ c[j] = s[j])
  BY <1>2, <1>5, <1>7 DEF Twice
<1>8. CASE ~(<1>6!1 \/ <1>7!1)
  BY <1>2, <1>5, <1>8 DEF Has
<1>9. QED
  BY <1>6, <1>7, <1>8

LEMMA FlattenHas ==
    ASSUME NEW S, NEW ss \in Seq(Seq(S)), NEW X, Has(FlattenSeq(ss), X)
    PROVE  \E i \in DOMAIN ss : Has(ss[i], X)
<1>1. PICK e : e \in X /\ e \in ToSet(FlattenSeq(ss))
  BY DEF Has, ToSet
<1>2. PICK s \in ToSet(ss) : e \in ToSet(s)
  BY <1>1, RangeFlatten
<1>3. PICK i \in DOMAIN ss : s = ss[i]
  BY <1>2 DEF ToSet
<1>4. QED
  BY <1>1, <1>2, <1>3 DEF Has, ToSet

LEMMA FlattenTwice ==
    ASSUME NEW S, NEW ss \in Seq(Seq(S)), NEW X, Twice(FlattenSeq(ss), X)
    PROVE  TwiceIn(ss, X)
<1> DEFINE T == {r \in Seq(Seq(S)) : Twice(FlattenSeq(r), X) => TwiceIn(r, X)}
<1>1. <<>> \in T
  <2>1. FlattenSeq(<<>>) = <<>> /\ <<>> \in Seq(Seq(S)) /\ DOMAIN <<>> = {}
    BY FlattenEmpty, EmptySeq
  <2>2. ~Twice(<<>>, X)
    BY <2>1 DEF Twice
  <2>3. QED
    BY <2>1, <2>2
<1>2. ASSUME NEW r \in Seq(Seq(S)), r \in T, NEW e \in Seq(S) PROVE Append(r, e) \in T
  <2> DEFINE a == Append(r, e)
  <2>1. /\ a \in Seq(Seq(S)) /\ Len(r) \in Nat /\ DOMAIN r = 1 .. Len(r)
        /\ DOMAIN a = 1 .. Len(r) + 1 /\ a[Len(r) + 1] = e
        /\ \A i \in 1 .. Len(r) : a[i] = r[i]
    BY AppendProperties
  <2>2. FlattenSeq(r) \in Seq(S) /\ FlattenSeq(a) = FlattenSeq(r) \o e
    BY FlattenAppend
  <2>3. PICK f \in Seq(S) : f = FlattenSeq(r)
    BY <2>2
  <2>4. Twice(f, X) => TwiceIn(r, X)
    BY <1>2, <2>3
  <2>5. Has(f, X) => \E i \in DOMAIN r : Has(r[i], X)
    BY <2>3, FlattenHas
  <2> HIDE DEF a
  <2>6. PICK last \in DOMAIN a : a[last] = e /\ last \notin DOMAIN r
    <3>1. \A n \in Nat : n + 1 \in 1 .. n + 1 /\ n + 1 \notin 1 .. n
      OBVIOUS
    <3>2. Len(r) + 1 \in DOMAIN a /\ Len(r) + 1 \notin DOMAIN r
      BY <2>1, <3>1
    <3>3. QED
      BY <2>1, <3>2
  <2>7. \A i \in DOMAIN r : i \in DOMAIN a /\ a[i] = r[i]
    BY <2>1
  <2>8. Twice(f, X) \/ Twice(e, X) \/ (Has(f, X) /\ Has(e, X)) => TwiceIn(a, X)
    <3>1. ASSUME Twice(f, X) PROVE TwiceIn(a, X)
      BY <2>4, <2>7, <3>1 DEF TwiceIn
    <3>2. ASSUME Twice(e, X) PROVE TwiceIn(a, X)
      BY <2>6, <3>2 DEF TwiceIn
    <3>3. ASSUME Has(f, X), Has(e, X) PROVE TwiceIn(a, X)
      BY <2>5, <2>6, <2>7, <3>3 DEF TwiceIn
    <3>4. QED
      BY <3>1, <3>2, <3>3
  <2>9. Twice(f \o e, X) => TwiceIn(a, X)
    BY <2>8, ConcatTwice
  <2>10. QED
    BY <2>1, <2>2, <2>3, <2>9 DEF a
<1>3. Seq(Seq(S)) \subseteq T
  BY <1>1, <1>2, SeqSetInduction
<1>4. QED
  BY <1>3

LEMMA OneOnce == ASSUME NEW e, NEW X PROVE ~Twice(<<e>>, X) /\ (Has(<<e>>, X) => e \in X)
BY DEF Twice, Has

LEMMA NoneOnce == ASSUME NEW X PROVE ~Twice(<<>>, X) /\ ~Has(<<>>, X)
BY DEF Twice, Has

LEMMA TwiceKept ==
    ASSUME NEW S, NEW D \in Nat, NEW keep \in SUBSET (1 .. D), NEW f \in [1 .. D -> S], NEW X,
           Twice(FlattenSeq(Kept(D, keep, f)), X)
    PROVE  \E i, j \in keep : i # j /\ f[i] \in X /\ f[j] \in X
<1> DEFINE pieces == Kept(D, keep, f)
<1>1. DOMAIN pieces = 1 .. D /\ \A k \in 1 .. D : pieces[k] = IF k \in keep THEN <<f[k]>> ELSE <<>>
  BY DEF Kept
<1>2. \A k \in 1 .. D : pieces[k] \in Seq(S)
  <2>1. ASSUME NEW k \in 1 .. D PROVE <<f[k]>> \in Seq(S) /\ <<>> \in Seq(S)
    BY EmptySeq
  <2> HIDE DEF pieces
  <2>2. QED
    BY <1>1, <2>1
<1>3. pieces = [k \in 1 .. D |-> pieces[k]]
  BY DEF Kept
<1> HIDE DEF pieces
<1>4. pieces \in Seq(Seq(S))
  <2>1. [k \in 1 .. D |-> pieces[k]] \in Seq(Seq(S))
    BY <1>2
  <2>2. QED
    BY <1>3, <2>1
<1>5. TwiceIn(pieces, X)
  <2>1. Twice(FlattenSeq(pieces), X)
    BY DEF pieces
  <2>2. QED
    BY <1>4, <2>1, FlattenTwice
<1>6. ASSUME NEW k \in 1 .. D PROVE ~Twice(pieces[k], X) /\ (Has(pieces[k], X) => k \in keep /\ f[k] \in X)
  <2>1. CASE k \in keep
    BY <1>1, <2>1, OneOnce
  <2>2. CASE k \notin keep
    BY <1>1, <2>2, NoneOnce
  <2>3. QED
    BY <2>1, <2>2
<1>7. QED
  BY <1>1, <1>5, <1>6 DEF TwiceIn

LEMMA TwiceWithout ==
    ASSUME NEW S, NEW s \in Seq(S), NEW dropped, NEW X, Twice(Without(s, dropped), X)
    PROVE  Twice(s, X)
<1> DEFINE keep == {i \in DOMAIN s : s[i] \notin dropped}
<1>1. Len(s) \in Nat /\ DOMAIN s = 1 .. Len(s) /\ s \in [1 .. Len(s) -> S]
  OBVIOUS
<1>2. keep \in SUBSET (1 .. Len(s))
  BY <1>1
<1>3. Without(s, dropped) = FlattenSeq(Kept(Len(s), keep, s))
  <2>1. [k \in DOMAIN s |-> IF s[k] \in dropped THEN <<>> ELSE <<s[k]>>] = Kept(Len(s), keep, s)
    BY <1>1 DEF Kept
  <2>2. QED
    BY <2>1 DEF Without
<1> HIDE DEF keep
<1>4. PICK D \in Nat : D = Len(s)
  <2>1. Len(s) \in Nat
    OBVIOUS
  <2>2. QED
    BY <2>1
<1>5. s \in [1 .. D -> S] /\ keep \in SUBSET (1 .. D) /\ Twice(FlattenSeq(Kept(D, keep, s)), X)
  BY <1>1, <1>2, <1>3, <1>4
<1>6. \E i, j \in keep : i # j /\ s[i] \in X /\ s[j] \in X
  BY <1>5, TwiceKept
<1>7. QED
  BY <1>1, <1>2, <1>6 DEF Twice

\* Followed lines: their own, and those that follow.
LEMMA FollowedOnce ==
    ASSUME NEW S, NEW lines \in Seq(S), NEW g \in [S -> Seq(S)], NEW X, ~Twice(lines, X),
           \A k \in DOMAIN lines : ~Twice(g[lines[k]], X),
           \A j, k \in DOMAIN lines : ~(lines[j] \in X /\ Has(g[lines[k]], X)),
           \A j, k \in DOMAIN lines : j # k => ~(Has(g[lines[j]], X) /\ Has(g[lines[k]], X))
    PROVE  ~Twice(Followed(lines, g), X)
<1> DEFINE pieces == [k \in DOMAIN lines |-> <<lines[k]>> \o g[lines[k]]]
<1>1. ASSUME NEW k \in DOMAIN lines
      PROVE  /\ pieces[k] \in Seq(S) /\ ~Twice(pieces[k], X)
             /\ Has(pieces[k], X) => lines[k] \in X \/ Has(g[lines[k]], X)
  <2>1. PICK e \in S : e = lines[k]
    OBVIOUS
  <2>2. PICK s \in Seq(S), t \in Seq(S) : s = <<e>> /\ t = g[e]
    <3>1. <<e>> \in Seq(S) /\ g[e] \in Seq(S)
      OBVIOUS
    <3>2. QED
      BY <3>1, Zenon
  <2>3. s \o t \in Seq(S)
    BY ConcatProperties
  <2>4. ~Twice(s, X) /\ (Has(s, X) => e \in X)
    BY <2>2, OneOnce
  <2>5. Has(s \o t, X) => e \in X \/ Has(t, X)
    BY <2>4, ConcatHas
  <2>6. ~Twice(t, X) /\ ~(e \in X /\ Has(t, X))
    BY <2>1, <2>2
  <2>7. ~Twice(s \o t, X)
    BY <2>4, <2>6, ConcatTwice
  <2>8. pieces[k] = s \o t
    BY <2>1, <2>2
  <2>9. QED
    BY <2>1, <2>2, <2>3, <2>5, <2>7, <2>8
<1>2. DOMAIN pieces = DOMAIN lines /\ DOMAIN lines = 1 .. Len(lines) /\ Len(lines) \in Nat
  OBVIOUS
<1>3. pieces = [k \in DOMAIN lines |-> pieces[k]]
  OBVIOUS
<1> HIDE DEF pieces
<1>4. pieces \in Seq(Seq(S))
  BY <1>1, <1>2, <1>3
<1>5. ASSUME TwiceIn(pieces, X) PROVE FALSE
  <2>1. PICK i \in DOMAIN lines, j \in DOMAIN lines : i # j /\ Has(pieces[i], X) /\ Has(pieces[j], X)
    BY <1>1, <1>2, <1>5 DEF TwiceIn
  <2>2. /\ lines[i] \in X \/ Has(g[lines[i]], X)
        /\ lines[j] \in X \/ Has(g[lines[j]], X)
    BY <1>1, <2>1
  <2>3. CASE lines[i] \in X /\ lines[j] \in X
    BY <2>1, <2>3 DEF Twice
  <2>4. QED
    BY <2>1, <2>2, <2>3
<1>6. Followed(lines, g) = FlattenSeq(pieces)
  BY DEF Followed, pieces
<1>7. QED
  BY <1>4, <1>5, <1>6, FlattenTwice

LEMMA UptoOnce ==
    ASSUME NEW S, NEW f \in [Nat -> Seq(S)], NEW m \in Nat, NEW X,
           \A n \in 1 .. m : ~Twice(f[n], X),
           \A n, q \in 1 .. m : n # q => ~(Has(f[n], X) /\ Has(f[q], X))
    PROVE  ~Twice(Upto(f, m), X)
<1>1. PICK P \in Seq(Seq(S)) : P = [k \in 1 .. m |-> f[k]]
  <2>1. [k \in 1 .. m |-> f[k]] \in Seq(Seq(S))
    OBVIOUS
  <2>2. QED
    BY <2>1
<1>2. DOMAIN P = 1 .. m /\ \A k \in 1 .. m : P[k] = f[k]
  BY <1>1
<1>3. ~TwiceIn(P, X)
  BY <1>2 DEF TwiceIn
<1>4. QED
  BY <1>1, <1>3, FlattenTwice DEF Upto

=============================================================================
