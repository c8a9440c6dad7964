---------------------------- MODULE Ext2_proofs ----------------------------
(***************************************************************************)
(* Theorems about Ext2, for any images: what the scan prints is what the   *)
(* image says, and a summary that the audit's theorems apply to.           *)
(***************************************************************************)
EXTENDS Ext2, Lab3b_proofs

\* What a line of a scan is: all that the audit can read.
ScanLines ==
    SuperLines \cup GroupLines \cup NumberLines \cup InodeLines \cup EntryLines \cup IndirectLines

-----------------------------------------------------------------------------
(* What is known of an image, and the lines that describe it.              *)

LEMMA ImageFacts ==
    ASSUME image \in Images
    PROVE  /\ sb \in ext2_super_block /\ super = sb /\ image.group \in ext2_group_desc
           /\ sb.s_blocks_count \in 1 .. sb.s_blocks_per_group
           /\ sb.s_blocks_count <= BitmapBits
           /\ sb.s_inodes_count \in 1 .. sb.s_inodes_per_group
           /\ image.block_bitmap \subseteq 0 .. BitmapBits - 1
           /\ image.inode_bitmap \subseteq 0 .. BitmapBits - 1
           /\ Numbers = 1 .. sb.s_inodes_count
           /\ \A n \in Numbers : At(n) \in ext2_inode
           /\ \A b \in DOMAIN image.pointers : image.pointers[b] \in Seq(Nat)
           /\ \A b \in DOMAIN image.entries : \A o \in DOMAIN image.entries[b] :
                 o \in 0 .. block_size - 1 /\ image.entries[b][o] \in ext2_dir_entry
BY ImagesAssumption DEF sb, super, Numbers, At

LEMMA PointersType == ASSUME image \in Images, NEW b PROVE Pointers(b) \in Seq(Nat)
BY ImageFacts, EmptySeq DEF Pointers

LEMMA EntriesType ==
    ASSUME image \in Images, NEW b, NEW o
    PROVE  EntryAt(b, o) \in ext2_dir_entry
<1>1. NoEntry \in ext2_dir_entry
  BY DEF NoEntry, ext2_dir_entry
<1>2. QED
  BY <1>1, ImageFacts DEF EntryAt

LEMMA IndirectType ==
    ASSUME NEW n \in Nat, NEW level \in Nat, NEW offset \in Nat, NEW b \in Nat, NEW p \in Nat
    PROVE  /\ Indirect(n, level, offset, b, p) \in IndirectLines
           /\ Indirect(n, level, offset, b, p).line = "INDIRECT"
           /\ Indirect(n, level, offset, b, p).parent_inode_number = n
           /\ Indirect(n, level, offset, b, p).level = level
           /\ Indirect(n, level, offset, b, p).logical_offset = offset
           /\ Indirect(n, level, offset, b, p).block_number = b
           /\ Indirect(n, level, offset, b, p).reference_number = p
BY DEF Indirect, IndirectLines

LEMMA EntryType ==
    ASSUME NEW n \in Nat, NEW offset \in Nat, NEW e \in ext2_dir_entry
    PROVE  /\ DirectoryEntry(n, offset, e.inode, e.name) \in EntryLines
           /\ DirectoryEntry(n, offset, e.inode, e.name).line = "DIRENT"
BY DEF DirectoryEntry, EntryLines, ext2_dir_entry

-----------------------------------------------------------------------------
(* The pointers in one block.                                              *)

\* What is counted before the k-th pointer.
Before1(level) == program = "lab3a" /\ level = 1
CountedIn(P, level, k) == {j \in 1 .. k - 1 : P[j] = 0 \/ Before1(level)}
OffsetIn(P, level, offset, k) == offset + Span(level) * Cardinality(CountedIn(P, level, k))

LEMMA CountedIs ==
    ASSUME NEW P \in Seq(Nat), NEW level, NEW k \in DOMAIN P
    PROVE  /\ Cardinality(CountedIn(P, level, k)) \in 0 .. k - 1
           /\ CountedIn(P, level, k) = 1 .. k - 1 => Cardinality(CountedIn(P, level, k)) = k - 1
<1>1. k \in Nat /\ k - 1 \in Nat /\ k >= 1
  OBVIOUS
<1>2. IsFiniteSet(1 .. k - 1) /\ Cardinality(1 .. k - 1) = k - 1
  BY <1>1, FS_Interval, SMTT(40)
<1>3. CountedIn(P, level, k) \subseteq 1 .. k - 1
  BY DEF CountedIn
<1>4. /\ IsFiniteSet(CountedIn(P, level, k))
      /\ Cardinality(CountedIn(P, level, k)) <= Cardinality(1 .. k - 1)
  BY <1>2, <1>3, FS_Subset
<1>5. Cardinality(CountedIn(P, level, k)) \in Nat
  BY <1>4, FS_CardinalityType
<1>6. QED
  BY <1>1, <1>2, <1>4, <1>5

LEMMA SpanIs == ASSUME NEW level \in 1 .. 3 PROVE Span(level) \in Nat
<1>1. level = 1 \/ level = 2 \/ level = 3
  OBVIOUS
<1>2. QED
  BY <1>1 DEF Span

LEMMA OffsetIs ==
    ASSUME NEW P \in Seq(Nat), NEW level \in 1 .. 3, NEW offset \in Nat, NEW k \in DOMAIN P
    PROVE  /\ OffsetIn(P, level, offset, k) \in Nat
           /\ OffsetIn(P, level, offset, k) <= offset + (k - 1) * Span(level)
           /\ (\A j \in 1 .. k - 1 : P[j] = 0 \/ Before1(level)) =>
                 OffsetIn(P, level, offset, k) = offset + (k - 1) * Span(level)
<1> DEFINE c == Cardinality(CountedIn(P, level, k))
           s == Span(level)
<1>1. c \in 0 .. k - 1 /\ k - 1 \in Nat
  BY CountedIs
<1>2. s \in Nat
  BY SpanIs
<1>3. (\A j \in 1 .. k - 1 : P[j] = 0 \/ Before1(level)) => c = k - 1
  <2>1. (\A j \in 1 .. k - 1 : P[j] = 0 \/ Before1(level)) => CountedIn(P, level, k) = 1 .. k - 1
    BY DEF CountedIn
  <2>2. QED
    BY <2>1, CountedIs
<1>4. OffsetIn(P, level, offset, k) = offset + s * c
  BY DEF OffsetIn
<1> HIDE DEF c, s
<1>5. s * c \in Nat /\ s * c <= (k - 1) * s /\ (c = k - 1 => s * c = (k - 1) * s)
  <2>1. PICK m \in Nat : m = k - 1
    BY <1>1
  <2>2. c \in Nat /\ c <= m
    BY <1>1, <2>1
  <2>3. \A a, b, t \in Nat : a <= b => t * a \in Nat /\ t * a <= b * t
    OBVIOUS
  <2>4. s * c \in Nat /\ s * c <= m * s
    BY <1>2, <2>2, <2>3
  <2>5. c = m => s * c = m * s
    BY <1>2, <2>2
  <2>6. QED
    BY <2>1, <2>4, <2>5
<1>6. PICK y \in Nat : y = s * c
  BY <1>5
<1>7. PICK x \in Nat : x = (k - 1) * s
  <2>1. \A a, b \in Nat : a * b \in Nat
    OBVIOUS
  <2>2. (k - 1) * s \in Nat
    BY <1>1, <1>2, <2>1
  <2>3. QED
    BY <2>2
<1>8. y <= x /\ (c = k - 1 => y = x)
  BY <1>5, <1>6, <1>7
<1>9. OffsetIn(P, level, offset, k) = offset + y /\ offset + (k - 1) * Span(level) = offset + x
  BY <1>4, <1>6, <1>7 DEF s
<1>10. PICK z, o : z = offset + (k - 1) * Span(level) /\ o = OffsetIn(P, level, offset, k)
  OBVIOUS
<1>11. o \in Nat /\ o <= z /\ (c = k - 1 => o = z)
  <2>1. o = offset + y /\ z = offset + x
    BY <1>9, <1>10
  <2>2. QED
    BY <1>8, <2>1
<1>12. QED
  <2>1. /\ o \in Nat /\ o <= z
        /\ (\A j \in 1 .. k - 1 : P[j] = 0 \/ Before1(level)) => o = z
    BY <1>3, <1>11
  <2>2. QED
    BY <1>10, <2>1, Zenon

-----------------------------------------------------------------------------
(* The lines for the pointers in one block, and for those in a tree, of    *)
(* either program.                                                         *)

\* lab3a_std has no block 0.
PointersAt(cur) == IF program = "lab3a_std" /\ cur = 0 THEN <<>> ELSE Pointers(cur)

LineAt(n, level, cur, offset, k) ==
    Indirect(n, level, OffsetIn(PointersAt(cur), level, offset, k), cur, PointersAt(cur)[k])

BlockLines(n, level, cur, offset) ==
    FlattenSeq([k \in DOMAIN PointersAt(cur) |->
        IF PointersAt(cur)[k] = 0 THEN <<>> ELSE <<LineAt(n, level, cur, offset, k)>>])

\* The lines for the pointers of one inode.
LinesFor(n) == {l \in IndirectLines : l.parent_inode_number = n /\ l.reference_number \in Nat \ {0}}

Tree1(n, cur, offset) == BlockLines(n, 1, cur, offset)

Tree2(n, cur, offset) ==
    LET lines == BlockLines(n, 2, cur, offset)
    IN  FlattenSeq([k \in DOMAIN lines |->
            <<lines[k]>> \o Tree1(n, lines[k].reference_number, lines[k].logical_offset)])

Tree3(n, cur, offset) ==
    LET lines == BlockLines(n, 3, cur, offset)
    IN  FlattenSeq([k \in DOMAIN lines |->
            <<lines[k]>> \o Tree2(n, lines[k].reference_number, lines[k].logical_offset)])

TreesOf(n) ==
    Tree1(n, At(n).i_block[12], 12) \o Tree2(n, At(n).i_block[13], 268)
    \o Tree3(n, At(n).i_block[14], 65804)

LEMMA PointersAtType == ASSUME image \in Images, NEW b PROVE PointersAt(b) \in Seq(Nat)
BY PointersType, EmptySeq DEF PointersAt

Slots(cur) == {k \in DOMAIN PointersAt(cur) : PointersAt(cur)[k] # 0}

LEMMA LineAtIs ==
    ASSUME image \in Images, NEW n \in Nat, NEW level \in 1 .. 3, NEW cur \in Nat, NEW offset \in Nat,
           NEW k \in DOMAIN PointersAt(cur)
    PROVE  LET l == LineAt(n, level, cur, offset, k)
           IN  /\ l \in IndirectLines
               /\ k \in Slots(cur) => l \in LinesFor(n)
               /\ l.level = level /\ l.block_number = cur /\ l.reference_number = PointersAt(cur)[k]
               /\ l.logical_offset = OffsetIn(PointersAt(cur), level, offset, k)
<1>1. PICK P \in Seq(Nat) : P = PointersAt(cur)
  BY PointersAtType
<1>2. PICK p \in Nat : p = PointersAt(cur)[k]
  BY <1>1
<1>3. PICK o \in Nat : o = OffsetIn(PointersAt(cur), level, offset, k)
  BY <1>1, OffsetIs
<1>4. level \in Nat
  OBVIOUS
<1>5. LineAt(n, level, cur, offset, k) = Indirect(n, level, o, cur, p)
  BY <1>2, <1>3 DEF LineAt
<1>6. PICK l : l = LineAt(n, level, cur, offset, k)
  OBVIOUS
<1>7. /\ l \in IndirectLines /\ l.parent_inode_number = n /\ l.level = level
      /\ l.logical_offset = o /\ l.block_number = cur /\ l.reference_number = p
  <2>1. l = Indirect(n, level, o, cur, p)
    BY <1>5, <1>6
  <2>2. PICK d \in Nat : d = level
    BY <1>4
  <2>3. /\ Indirect(n, d, o, cur, p) \in IndirectLines
        /\ Indirect(n, d, o, cur, p).parent_inode_number = n
        /\ Indirect(n, d, o, cur, p).level = d
        /\ Indirect(n, d, o, cur, p).logical_offset = o
        /\ Indirect(n, d, o, cur, p).block_number = cur
        /\ Indirect(n, d, o, cur, p).reference_number = p
    BY DEF Indirect, IndirectLines
  <2>4. QED
    BY <2>1, <2>2, <2>3
<1>8. k \in Slots(cur) => p # 0
  BY <1>2 DEF Slots
<1>9. k \in Slots(cur) => l \in LinesFor(n)
  BY <1>7, <1>8 DEF LinesFor
<1>10. QED
  BY <1>2, <1>3, <1>6, <1>7, <1>9

LinesIn(n, level, cur, offset) == {LineAt(n, level, cur, offset, k) : k \in Slots(cur)}

LEMMA BlockLinesAre ==
    ASSUME image \in Images, NEW n \in Nat, NEW level \in 1 .. 3, NEW cur \in Nat, NEW offset \in Nat
    PROVE  /\ BlockLines(n, level, cur, offset) \in Seq(LinesFor(n))
           /\ ToSet(BlockLines(n, level, cur, offset)) = LinesIn(n, level, cur, offset)
<1> DEFINE D == Len(PointersAt(cur))
           keep == Slots(cur)
           f == [k \in 1 .. D |-> LineAt(n, level, cur, offset, k)]
           some == CHOOSE l \in LinesFor(n) : TRUE
           h == [k \in 1 .. D |-> IF k \in keep THEN f[k] ELSE some]
<1>1. D \in Nat /\ DOMAIN PointersAt(cur) = 1 .. D /\ keep \in SUBSET (1 .. D)
  BY PointersAtType DEF Slots
<1>2. BlockLines(n, level, cur, offset) = FlattenSeq(Kept(D, keep, h))
  <2>1. ASSUME NEW k \in 1 .. D
        PROVE  (IF PointersAt(cur)[k] = 0 THEN <<>> ELSE <<LineAt(n, level, cur, offset, k)>>)
                  = IF k \in keep THEN <<h[k]>> ELSE <<>>
    BY <1>1 DEF Slots
  <2>2. [k \in 1 .. D |-> IF PointersAt(cur)[k] = 0 THEN <<>> ELSE <<LineAt(n, level, cur, offset, k)>>]
           = Kept(D, keep, h)
    BY <2>1 DEF Kept
  <2>3. QED
    BY <1>1, <2>2 DEF BlockLines
<1>3. \A k \in keep : h[k] = LineAt(n, level, cur, offset, k)
  BY <1>1
<1>4. \A k \in keep : LineAt(n, level, cur, offset, k) \in LinesFor(n)
  BY <1>1, LineAtIs
<1>5. some \in LinesFor(n)
  <2>1. Indirect(n, 1, 0, 0, 1) \in LinesFor(n)
    BY IndirectType, SMTT(40) DEF LinesFor
  <2>2. QED
    BY <2>1
<1>6. h \in [1 .. D -> LinesFor(n)]
  <2> HIDE DEF some
  <2>1. \A k \in 1 .. D : h[k] \in LinesFor(n)
    BY <1>3, <1>4, <1>5
  <2>2. h = [k \in 1 .. D |-> h[k]]
    OBVIOUS
  <2> HIDE DEF h
  <2>3. QED
    BY <2>1, <2>2
<1> HIDE DEF h, keep, D
<1>7. /\ FlattenSeq(Kept(D, keep, h)) \in Seq(LinesFor(n))
      /\ ToSet(FlattenSeq(Kept(D, keep, h))) = ImageOf(h, keep)
  BY <1>1, <1>6, KeptRange
<1>8. ImageOf(h, keep) = {LineAt(n, level, cur, offset, k) : k \in keep}
  BY <1>3 DEF ImageOf
<1>9. QED
  BY <1>2, <1>7, <1>8 DEF keep, LinesIn

LEMMA LinesForAre ==
    ASSUME NEW n \in Nat
    PROVE  /\ LinesFor(n) \subseteq IndirectLines
           /\ \A l \in LinesFor(n) : /\ l.line = "INDIRECT" /\ l.parent_inode_number = n
                                     /\ l.reference_number \in Nat /\ l.reference_number # 0
                                     /\ l.logical_offset \in Nat
BY DEF LinesFor, IndirectLines

LEMMA Tree1Are ==
    ASSUME image \in Images, NEW n \in Nat, NEW cur \in Nat, NEW offset \in Nat
    PROVE  Tree1(n, cur, offset) \in Seq(LinesFor(n))
<1>1. 1 \in 1 .. 3
  OBVIOUS
<1>2. QED
  BY <1>1, BlockLinesAre DEF Tree1

Below1(n, lines) == UNION {ToSet(Tree1(n, l.reference_number, l.logical_offset)) : l \in lines}
Below2(n, lines) == UNION {ToSet(Tree2(n, l.reference_number, l.logical_offset)) : l \in lines}

Under1(n) == [l \in LinesFor(n) |-> Tree1(n, l.reference_number, l.logical_offset)]

LEMMA Tree2Followed ==
    ASSUME image \in Images, NEW n \in Nat, NEW cur \in Nat, NEW offset \in Nat
    PROVE  /\ BlockLines(n, 2, cur, offset) \in Seq(LinesFor(n))
           /\ Under1(n) \in [LinesFor(n) -> Seq(LinesFor(n))]
           /\ \A l \in LinesFor(n) : Under1(n)[l] = Tree1(n, l.reference_number, l.logical_offset)
           /\ Tree2(n, cur, offset) = Followed(BlockLines(n, 2, cur, offset), Under1(n))
<1> DEFINE g == Under1(n)
           lines == BlockLines(n, 2, cur, offset)
<1>1. lines \in Seq(LinesFor(n))
  <2>1. 2 \in 1 .. 3
    OBVIOUS
  <2>2. QED
    BY <2>1, BlockLinesAre
<1>2. g \in [LinesFor(n) -> Seq(LinesFor(n))]
  <2>1. \A l \in LinesFor(n) : Tree1(n, l.reference_number, l.logical_offset) \in Seq(LinesFor(n))
    <3>1. ASSUME NEW l \in LinesFor(n)
          PROVE  Tree1(n, l.reference_number, l.logical_offset) \in Seq(LinesFor(n))
      <4>1. PICK b \in Nat, o \in Nat : b = l.reference_number /\ o = l.logical_offset
        BY LinesForAre
      <4>2. Tree1(n, b, o) \in Seq(LinesFor(n))
        BY Tree1Are
      <4>3. QED
        BY <4>1, <4>2
    <3>2. QED
      BY <3>1
  <2>2. QED
    BY <2>1 DEF Under1
<1>3. \A l \in LinesFor(n) : g[l] = Tree1(n, l.reference_number, l.logical_offset)
  BY DEF Under1
<1>4. \A k \in DOMAIN lines : lines[k] \in LinesFor(n)
  BY <1>1
<1>5. Tree2(n, cur, offset) = Followed(lines, g)
  <2> HIDE DEF g
  <2>1. \A k \in DOMAIN lines :
           <<lines[k]>> \o Tree1(n, lines[k].reference_number, lines[k].logical_offset)
              = <<lines[k]>> \o g[lines[k]]
    BY <1>3, <1>4
  <2>2. [k \in DOMAIN lines |->
            <<lines[k]>> \o Tree1(n, lines[k].reference_number, lines[k].logical_offset)]
           = [k \in DOMAIN lines |-> <<lines[k]>> \o g[lines[k]]]
    BY <2>1
  <2>3. QED
    BY <2>2 DEF Followed, Tree2
<1>6. QED
  BY <1>1, <1>2, <1>3, <1>5

LEMMA Tree2Are ==
    ASSUME image \in Images, NEW n \in Nat, NEW cur \in Nat, NEW offset \in Nat
    PROVE  LET lines == ToSet(BlockLines(n, 2, cur, offset))
           IN  /\ Tree2(n, cur, offset) \in Seq(LinesFor(n))
               /\ ToSet(Tree2(n, cur, offset)) = lines \cup Below1(n, lines)
<1> DEFINE g == Under1(n)
           lines == BlockLines(n, 2, cur, offset)
<1>1. /\ lines \in Seq(LinesFor(n)) /\ g \in [LinesFor(n) -> Seq(LinesFor(n))]
      /\ \A l \in LinesFor(n) : g[l] = Tree1(n, l.reference_number, l.logical_offset)
      /\ Tree2(n, cur, offset) = Followed(lines, g)
  BY Tree2Followed
<1> HIDE DEF g, lines
<1>2. /\ Followed(lines, g) \in Seq(LinesFor(n))
      /\ ToSet(Followed(lines, g)) = ToSet(lines) \cup Following(lines, g)
  BY <1>1, FollowedRange
<1>3. ToSet(lines) \subseteq LinesFor(n)
  BY <1>1, RangeType
<1>4. Following(lines, g) = Below1(n, ToSet(lines))
  BY <1>1, <1>3 DEF Following, Below1
<1>5. QED
  BY <1>1, <1>2, <1>4 DEF lines

Under2(n) == [l \in LinesFor(n) |-> Tree2(n, l.reference_number, l.logical_offset)]

LEMMA Tree3Followed ==
    ASSUME image \in Images, NEW n \in Nat, NEW cur \in Nat, NEW offset \in Nat
    PROVE  /\ BlockLines(n, 3, cur, offset) \in Seq(LinesFor(n))
           /\ Under2(n) \in [LinesFor(n) -> Seq(LinesFor(n))]
           /\ \A l \in LinesFor(n) : Under2(n)[l] = Tree2(n, l.reference_number, l.logical_offset)
           /\ Tree3(n, cur, offset) = Followed(BlockLines(n, 3, cur, offset), Under2(n))
<1> DEFINE g == Under2(n)
           lines == BlockLines(n, 3, cur, offset)
<1>1. lines \in Seq(LinesFor(n))
  <2>1. 3 \in 1 .. 3
    OBVIOUS
  <2>2. QED
    BY <2>1, BlockLinesAre
<1>2. g \in [LinesFor(n) -> Seq(LinesFor(n))]
  <2>1. \A l \in LinesFor(n) : Tree2(n, l.reference_number, l.logical_offset) \in Seq(LinesFor(n))
    <3>1. ASSUME NEW l \in LinesFor(n)
          PROVE  Tree2(n, l.reference_number, l.logical_offset) \in Seq(LinesFor(n))
      <4>1. PICK b \in Nat, o \in Nat : b = l.reference_number /\ o = l.logical_offset
        BY LinesForAre
      <4>2. Tree2(n, b, o) \in Seq(LinesFor(n))
        BY Tree2Are
      <4>3. QED
        BY <4>1, <4>2
    <3>2. QED
      BY <3>1
  <2>2. QED
    BY <2>1 DEF Under2
<1>3. \A l \in LinesFor(n) : g[l] = Tree2(n, l.reference_number, l.logical_offset)
  BY DEF Under2
<1>4. \A k \in DOMAIN lines : lines[k] \in LinesFor(n)
  BY <1>1
<1>5. Tree3(n, cur, offset) = Followed(lines, g)
  <2> HIDE DEF g
  <2>1. \A k \in DOMAIN lines :
           <<lines[k]>> \o Tree2(n, lines[k].reference_number, lines[k].logical_offset)
              = <<lines[k]>> \o g[lines[k]]
    BY <1>3, <1>4
  <2>2. [k \in DOMAIN lines |->
            <<lines[k]>> \o Tree2(n, lines[k].reference_number, lines[k].logical_offset)]
           = [k \in DOMAIN lines |-> <<lines[k]>> \o g[lines[k]]]
    BY <2>1
  <2>3. QED
    BY <2>2 DEF Followed, Tree3
<1>6. QED
  BY <1>1, <1>2, <1>3, <1>5

LEMMA Tree3Are ==
    ASSUME image \in Images, NEW n \in Nat, NEW cur \in Nat, NEW offset \in Nat
    PROVE  LET lines == ToSet(BlockLines(n, 3, cur, offset))
           IN  /\ Tree3(n, cur, offset) \in Seq(LinesFor(n))
               /\ ToSet(Tree3(n, cur, offset)) = lines \cup Below2(n, lines)
<1> DEFINE g == Under2(n)
           lines == BlockLines(n, 3, cur, offset)
<1>1. /\ lines \in Seq(LinesFor(n)) /\ g \in [LinesFor(n) -> Seq(LinesFor(n))]
      /\ \A l \in LinesFor(n) : g[l] = Tree2(n, l.reference_number, l.logical_offset)
      /\ Tree3(n, cur, offset) = Followed(lines, g)
  BY Tree3Followed
<1> HIDE DEF g, lines
<1>2. /\ Followed(lines, g) \in Seq(LinesFor(n))
      /\ ToSet(Followed(lines, g)) = ToSet(lines) \cup Following(lines, g)
  BY <1>1, FollowedRange
<1>3. ToSet(lines) \subseteq LinesFor(n)
  BY <1>1, RangeType
<1>4. Following(lines, g) = Below2(n, ToSet(lines))
  BY <1>1, <1>3 DEF Following, Below2
<1>5. QED
  BY <1>1, <1>2, <1>4 DEF lines

-----------------------------------------------------------------------------
(* The lines are those of the pointers.                                    *)

Matches(l, p) ==
    /\ l.level = p.level /\ l.block_number = p.block /\ l.reference_number = p.reference
    /\ l.logical_offset <= p.offset
    /\ p.first => l.logical_offset = p.offset

\* Each line has its pointer and each pointer its line.
Right(lines, found) ==
    /\ \A l \in lines : \E p \in found : Matches(l, p)
    /\ \A p \in found : \E l \in lines : Matches(l, p)

\* Where a call is believed to be, and where it is.
Counts(o, offset, first) == o \in Nat /\ offset \in Nat /\ o <= offset /\ (first => o = offset)

PointerAt(block, level, offset, first, k) ==
    [level |-> level, block |-> block, slot |-> k, reference |-> Pointers(block)[k],
     offset |-> offset + (k - 1) * Span(level),
     first |-> /\ first
               /\ \/ program = "lab3a" /\ level = 1
                  \/ \A j \in 1 .. k - 1 : Pointers(block)[j] = 0]

LEMMA BelowIs ==
    ASSUME NEW block, block # 0, NEW level, NEW offset, NEW first
    PROVE  Below(block, level, offset, first) = {PointerAt(block, level, offset, first, k) : k \in Slots(block)}
BY DEF Below, PointerAt, Slots, PointersAt

Found(level) == {p \in [level : {level}, block : Nat, slot : Nat, reference : Nat, offset : Nat, first : BOOLEAN] :
                     p.reference # 0}

LEMMA BlockRight ==
    ASSUME image \in Images, NEW n \in Nat, NEW level \in 1 .. 3, NEW cur \in Nat, cur # 0,
           NEW o, NEW offset, NEW first \in BOOLEAN, Counts(o, offset, first)
    PROVE  /\ Below(cur, level, offset, first) \subseteq Found(level)
           /\ Right(ToSet(BlockLines(n, level, cur, o)), Below(cur, level, offset, first))
<1> DEFINE P == Pointers(cur)
           slots == Slots(cur)
           line(k) == LineAt(n, level, cur, o, k)
           found(k) == PointerAt(cur, level, offset, first, k)
<1>1. o \in Nat /\ offset \in Nat /\ o <= offset /\ (first => o = offset)
  BY DEF Counts
<1>2. P \in Seq(Nat) /\ PointersAt(cur) = P /\ \A k \in slots : k \in DOMAIN P /\ P[k] # 0
  BY PointersType DEF PointersAt, Slots
<1>3. ToSet(BlockLines(n, level, cur, o)) = {line(k) : k \in slots}
  <2>1. ToSet(BlockLines(n, level, cur, o)) = LinesIn(n, level, cur, o)
    BY <1>1, BlockLinesAre
  <2>2. QED
    BY <2>1 DEF LinesIn
<1>4. Below(cur, level, offset, first) = {found(k) : k \in slots}
  BY BelowIs
<1>5. ASSUME NEW k \in slots PROVE found(k) \in Found(level) /\ Matches(line(k), found(k))
  <2>1. k \in DOMAIN P /\ k \in Nat /\ k >= 1 /\ P[k] \in Nat /\ P[k] # 0
    BY <1>2
  <2> DEFINE l == line(k)
             p == found(k)
  <2>2. /\ l.level = level /\ l.block_number = cur /\ l.reference_number = P[k]
        /\ l.logical_offset = OffsetIn(P, level, o, k)
    <3>1. k \in DOMAIN PointersAt(cur)
      BY <1>2
    <3>2. /\ l.level = level /\ l.block_number = cur /\ l.reference_number = PointersAt(cur)[k]
          /\ l.logical_offset = OffsetIn(PointersAt(cur), level, o, k)
      <4> HIDE DEF P, slots
      <4>1. QED
        BY <1>1, <3>1, LineAtIs
    <3>3. QED
      BY <1>2, <3>2
  <2>3. PICK x \in Nat : x = (k - 1) * Span(level)
    <3>1. \A a, b \in Nat : a * b \in Nat
      OBVIOUS
    <3>2. k - 1 \in Nat /\ Span(level) \in Nat
      BY <2>1, SpanIs
    <3>3. (k - 1) * Span(level) \in Nat
      BY <3>1, <3>2
    <3>4. QED
      BY <3>3
  <2>4. /\ p.level = level /\ p.block = cur /\ p.slot = k /\ p.reference = P[k] /\ p.offset = offset + x
        /\ p.first = (first /\ (Before1(level) \/ \A j \in 1 .. k - 1 : P[j] = 0))
        /\ p \in [level : {level}, block : Nat, slot : Nat, reference : Nat, offset : Nat, first : BOOLEAN]
    <3>1. PICK f \in BOOLEAN : f = (first /\ (Before1(level) \/ \A j \in 1 .. k - 1 : P[j] = 0))
      OBVIOUS
    <3>2. PICK y \in Nat : y = offset + x
      BY <1>1
    <3>3. p = [level |-> level, block |-> cur, slot |-> k, reference |-> P[k], offset |-> y, first |-> f]
      BY <2>3, <3>1, <3>2 DEF PointerAt, Before1
    <3>4. PICK r \in Nat : r = P[k]
      BY <2>1
    <3> HIDE DEF p, P
    <3>5. p = [level |-> level, block |-> cur, slot |-> k, reference |-> r, offset |-> y, first |-> f]
      BY <3>3, <3>4
    <3>6. /\ p.level = level /\ p.block = cur /\ p.slot = k /\ p.reference = r /\ p.offset = y /\ p.first = f
          /\ p \in [level : {level}, block : Nat, slot : Nat, reference : Nat, offset : Nat, first : BOOLEAN]
      BY <2>1, <3>5
    <3>7. QED
      BY <3>1, <3>2, <3>4, <3>6
  <2>5. PICK z \in Nat : /\ z = OffsetIn(P, level, o, k)
                         /\ z <= o + x
                         /\ (\A j \in 1 .. k - 1 : P[j] = 0 \/ Before1(level)) => z = o + x
    <3>1. /\ OffsetIn(P, level, o, k) \in Nat
          /\ OffsetIn(P, level, o, k) <= o + (k - 1) * Span(level)
          /\ (\A j \in 1 .. k - 1 : P[j] = 0 \/ Before1(level)) =>
                 OffsetIn(P, level, o, k) = o + (k - 1) * Span(level)
      BY <1>1, <1>2, <2>1, OffsetIs
    <3>2. QED
      BY <2>3, <3>1, Zenon
  <2>6. p.first => z = offset + x
    BY <1>1, <2>4, <2>5
  <2>7. z <= offset + x
    BY <1>1, <2>3, <2>5
  <2>8. p \in Found(level)
    BY <2>1, <2>4 DEF Found
  <2> HIDE DEF l, p
  <2>9. Matches(l, p)
    BY <2>2, <2>4, <2>5, <2>6, <2>7 DEF Matches
  <2>10. QED
    BY <2>8, <2>9 DEF l, p
<1> HIDE DEF line, found, slots
<1>6. QED
  BY <1>3, <1>4, <1>5 DEF Right

Union(f, S) == UNION {f[x] : x \in S}

LEMMA RightUnion ==
    ASSUME NEW lines, NEW found, Right(lines, found), NEW g, NEW h,
           \A l \in lines : \A p \in found : Matches(l, p) => Right(g[l], h[p])
    PROVE  Right(Union(g, lines), Union(h, found))
<1>1. ASSUME NEW m \in Union(g, lines) PROVE \E q \in Union(h, found) : Matches(m, q)
  <2>1. PICK l \in lines : m \in g[l]
    BY DEF Union
  <2>2. PICK p \in found : Matches(l, p)
    BY DEF Right
  <2>3. PICK q \in h[p] : Matches(m, q)
    <3>1. Right(g[l], h[p])
      BY <2>2
    <3>2. QED
      BY <2>1, <3>1 DEF Right
  <2>4. q \in Union(h, found)
    BY DEF Union
  <2>5. QED
    BY <2>3, <2>4
<1>2. ASSUME NEW q \in Union(h, found) PROVE \E m \in Union(g, lines) : Matches(m, q)
  <2>1. PICK p \in found : q \in h[p]
    BY DEF Union
  <2>2. PICK l \in lines : Matches(l, p)
    BY DEF Right
  <2>3. PICK m \in g[l] : Matches(m, q)
    <3>1. Right(g[l], h[p])
      BY <2>2
    <3>2. QED
      BY <2>1, <3>1 DEF Right
  <2>4. m \in Union(g, lines)
    BY DEF Union
  <2>5. QED
    BY <2>3, <2>4
<1>3. QED
  BY <1>1, <1>2 DEF Right

LEMMA RightBoth ==
    ASSUME NEW l1, NEW f1, NEW l2, NEW f2, Right(l1, f1), Right(l2, f2)
    PROVE  Right(l1 \cup l2, f1 \cup f2)
BY DEF Right

LEMMA DeeperIs ==
    ASSUME NEW level \in {2, 3}, NEW found \in SUBSET Found(level)
    PROVE  Deeper(found) = Union([p \in found |-> Below(p.reference, level - 1, p.offset, p.first)], found)
<1>1. \A p \in found : p.level = level /\ p.level > 1
  BY DEF Found
<1>2. {q \in found : q.level > 1} = found
  BY <1>1
<1>3. {Below(p.reference, p.level - 1, p.offset, p.first) : p \in found}
         = {[q \in found |-> Below(q.reference, level - 1, q.offset, q.first)][p] : p \in found}
  BY <1>1
<1>4. QED
  BY <1>2, <1>3 DEF Deeper, Union

\* There is nothing below the pointers to data.
LEMMA DeepestIs == ASSUME NEW found \in SUBSET Found(1) PROVE Deeper(found) = {}
<1>1. {q \in found : q.level > 1} = {}
  BY DEF Found
<1>2. QED
  BY <1>1 DEF Deeper

LEMMA DeeperUnion ==
    ASSUME NEW f, NEW S PROVE Deeper(Union(f, S)) = Union([x \in S |-> Deeper(f[x])], S)
<1> DEFINE below(p) == Below(p.reference, p.level - 1, p.offset, p.first)
<1>1. \A found : Deeper(found) = UNION {below(p) : p \in {q \in found : q.level > 1}}
  BY DEF Deeper
<1> HIDE DEF below
<1>2. ASSUME NEW y PROVE y \in Deeper(Union(f, S)) <=> \E x \in S : y \in Deeper(f[x])
  <2>1. \A found : y \in Deeper(found) <=> \E p \in found : p.level > 1 /\ y \in below(p)
    BY <1>1
  <2>2. \A p : p \in Union(f, S) <=> \E x \in S : p \in f[x]
    BY DEF Union
  <2>3. QED
    BY <2>1, <2>2
<1>3. \A y : y \in Union([x \in S |-> Deeper(f[x])], S) <=> \E x \in S : y \in Deeper(f[x])
  BY DEF Union
<1>4. QED
  BY <1>2, <1>3

LEMMA BlockLinesHave ==
    ASSUME image \in Images, NEW n \in Nat, NEW level \in 1 .. 3, NEW cur \in Nat, NEW o \in Nat,
           NEW l \in ToSet(BlockLines(n, level, cur, o))
    PROVE  /\ l \in LinesFor(n) /\ l.level = level
           /\ l.reference_number \in Nat /\ l.reference_number # 0 /\ l.logical_offset \in Nat
<1>1. BlockLines(n, level, cur, o) \in Seq(LinesFor(n))
  BY BlockLinesAre
<1>2. ToSet(BlockLines(n, level, cur, o)) = LinesIn(n, level, cur, o)
  BY BlockLinesAre
<1>3. l \in LinesFor(n)
  BY <1>1, RangeType
<1>4. PICK k \in Slots(cur) : l = LineAt(n, level, cur, o, k)
  BY <1>2 DEF LinesIn
<1>5. LineAt(n, level, cur, o, k).level = level
  BY DEF LineAt, Indirect
<1>6. l.level = level
  BY <1>4, <1>5
<1>7. QED
  BY <1>3, <1>6, LinesForAre

\* A match is where a call begins.
LEMMA MatchCounts ==
    ASSUME NEW l, NEW level, NEW p \in Found(level), Matches(l, p), l.logical_offset \in Nat
    PROVE  Counts(l.logical_offset, p.offset, p.first) /\ p.first \in BOOLEAN
           /\ p.reference = l.reference_number /\ p.reference \in Nat /\ p.reference # 0
BY DEF Matches, Counts, Found

LEMMA Tree2Right ==
    ASSUME image \in Images, NEW n \in Nat, NEW cur \in Nat, cur # 0,
           NEW o, NEW offset, NEW first \in BOOLEAN, Counts(o, offset, first)
    PROVE  LET one == Below(cur, 2, offset, first)
           IN  /\ one \subseteq Found(2) /\ Deeper(one) \subseteq Found(1)
               /\ Right(ToSet(Tree2(n, cur, o)), one \cup Deeper(one))
<1> DEFINE one == Below(cur, 2, offset, first)
           lines == ToSet(BlockLines(n, 2, cur, o))
           g == [l \in lines |-> ToSet(Tree1(n, l.reference_number, l.logical_offset))]
           h == [p \in one |-> Below(p.reference, 1, p.offset, p.first)]
<1>1. o \in Nat /\ 2 \in 1 .. 3 /\ 1 \in 1 .. 3 /\ 2 \in {2, 3} /\ 2 - 1 = 1
  BY DEF Counts
<1>2. one \subseteq Found(2) /\ Right(lines, one)
  BY <1>1, BlockRight
<1>3. Deeper(one) = Union(h, one)
  <2>1. one \in SUBSET Found(2)
    BY <1>2
  <2> HIDE DEF one
  <2>2. Deeper(one) = Union([p \in one |-> Below(p.reference, 2 - 1, p.offset, p.first)], one)
    BY <1>1, <2>1, DeeperIs
  <2>3. QED
    BY <1>1, <2>2
<1>4. ToSet(Tree2(n, cur, o)) = lines \cup Union(g, lines)
  <2>1. ToSet(Tree2(n, cur, o)) = lines \cup Below1(n, lines)
    BY <1>1, Tree2Are
  <2> HIDE DEF lines
  <2>2. Union(g, lines) = Below1(n, lines)
    BY DEF Union, Below1
  <2>3. QED
    BY <2>1, <2>2
<1>5. ASSUME NEW l \in lines, NEW p \in one, Matches(l, p)
      PROVE  Right(g[l], h[p]) /\ h[p] \subseteq Found(1)
  <2>1. PICK b \in Nat, c \in Nat : b = l.reference_number /\ c = l.logical_offset /\ b # 0
    BY <1>1, BlockLinesHave
  <2>2. p \in Found(2)
    BY <1>2
  <2>3. Counts(c, p.offset, p.first) /\ p.first \in BOOLEAN /\ p.reference = b
    BY <1>5, <2>1, <2>2, MatchCounts
  <2>4. /\ Below(b, 1, p.offset, p.first) \subseteq Found(1)
        /\ Right(ToSet(BlockLines(n, 1, b, c)), Below(b, 1, p.offset, p.first))
    BY <1>1, <2>1, <2>3, BlockRight
  <2>5. g[l] = ToSet(BlockLines(n, 1, b, c))
    BY <2>1 DEF Tree1
  <2>6. h[p] = Below(b, 1, p.offset, p.first)
    BY <2>3
  <2>7. QED
    BY <2>4, <2>5, <2>6
<1> HIDE DEF one, lines, g, h
<1>6. Right(Union(g, lines), Union(h, one))
  BY <1>2, <1>5, RightUnion
<1>7. Union(h, one) \subseteq Found(1)
  <2>1. \A p \in one : \E l \in lines : Matches(l, p)
    BY <1>2 DEF Right
  <2>2. QED
    BY <1>5, <2>1 DEF Union
<1>8. Right(lines \cup Union(g, lines), one \cup Union(h, one))
  BY <1>2, <1>6, RightBoth
<1>9. QED
  BY <1>2, <1>3, <1>4, <1>7, <1>8 DEF one

LEMMA Tree3Right ==
    ASSUME image \in Images, NEW n \in Nat, NEW cur \in Nat, cur # 0,
           NEW o, NEW offset, NEW first \in BOOLEAN, Counts(o, offset, first)
    PROVE  LET one == Below(cur, 3, offset, first)
               two == Deeper(one)
           IN  Right(ToSet(Tree3(n, cur, o)), one \cup two \cup Deeper(two))
<1> DEFINE one == Below(cur, 3, offset, first)
           lines == ToSet(BlockLines(n, 3, cur, o))
           g == [l \in lines |-> ToSet(Tree2(n, l.reference_number, l.logical_offset))]
           below == [p \in one |-> Below(p.reference, 2, p.offset, p.first)]
           deeper == [p \in one |-> Deeper(below[p])]
           h == [p \in one |-> below[p] \cup deeper[p]]
<1>1. o \in Nat /\ 3 \in 1 .. 3 /\ 3 \in {2, 3} /\ 3 - 1 = 2
  BY DEF Counts
<1>2. one \subseteq Found(3) /\ Right(lines, one)
  BY <1>1, BlockRight
<1>3. Deeper(one) = Union(below, one)
  <2>1. one \in SUBSET Found(3)
    BY <1>2
  <2> HIDE DEF one
  <2>2. Deeper(one) = Union([p \in one |-> Below(p.reference, 3 - 1, p.offset, p.first)], one)
    BY <1>1, <2>1, DeeperIs
  <2>3. QED
    BY <1>1, <2>2
<1>4. ToSet(Tree3(n, cur, o)) = lines \cup Union(g, lines)
  <2>1. ToSet(Tree3(n, cur, o)) = lines \cup Below2(n, lines)
    BY <1>1, Tree3Are
  <2> HIDE DEF lines
  <2>2. Union(g, lines) = Below2(n, lines)
    BY DEF Union, Below2
  <2>3. QED
    BY <2>1, <2>2
<1>5. ASSUME NEW l \in lines, NEW p \in one, Matches(l, p)
      PROVE  Right(g[l], h[p])
  <2>1. PICK b \in Nat, c \in Nat : b = l.reference_number /\ c = l.logical_offset /\ b # 0
    BY <1>1, BlockLinesHave
  <2>2. p \in Found(3)
    BY <1>2
  <2>3. Counts(c, p.offset, p.first) /\ p.first \in BOOLEAN /\ p.reference = b
    BY <1>5, <2>1, <2>2, MatchCounts
  <2>4. PICK under : under = Below(b, 2, p.offset, p.first)
    OBVIOUS
  <2>5. Right(ToSet(Tree2(n, b, c)), under \cup Deeper(under))
    BY <2>1, <2>3, <2>4, Tree2Right
  <2>6. g[l] = ToSet(Tree2(n, b, c))
    BY <2>1
  <2>7. h[p] = under \cup Deeper(under)
    BY <2>3, <2>4
  <2>8. QED
    BY <2>5, <2>6, <2>7
<1> HIDE DEF one, lines, g, below
<1>6. Union(h, one) = Deeper(one) \cup Deeper(Deeper(one))
  <2>1. Deeper(Deeper(one)) = Union(deeper, one)
    <3>1. Deeper(Union(below, one)) = Union([p \in one |-> Deeper(below[p])], one)
      BY DeeperUnion
    <3>2. QED
      BY <1>3, <3>1
  <2> HIDE DEF deeper
  <2>2. Union(h, one) = Union(below, one) \cup Union(deeper, one)
    BY DEF Union
  <2>3. QED
    BY <1>3, <2>1, <2>2
<1> HIDE DEF h
<1>7. Right(Union(g, lines), Union(h, one))
  BY <1>2, <1>5, RightUnion
<1>8. Right(lines \cup Union(g, lines), one \cup Union(h, one))
  BY <1>2, <1>7, RightBoth
<1>9. one \cup Union(h, one) = one \cup Deeper(one) \cup Deeper(Deeper(one))
  BY <1>6
<1>10. QED
  BY <1>4, <1>8, <1>9 DEF one

\* What lab3a takes for a tree where there is none has no pointers.
Programs == {"lab3a", "lab3a_std"}
NoTreeAt0 == program \in Programs /\ (program = "lab3a" => BootBlockEmpty)

LEMMA NothingAt0 ==
    ASSUME image \in Images, NoTreeAt0, NEW n \in Nat, NEW level \in 1 .. 3, NEW o \in Nat
    PROVE  ToSet(BlockLines(n, level, 0, o)) = {}
<1>1. Slots(0) = {}
  BY DEF Slots, PointersAt, NoTreeAt0, Programs, BootBlockEmpty
<1>2. ToSet(BlockLines(n, level, 0, o)) = LinesIn(n, level, 0, o)
  BY BlockLinesAre
<1>3. QED
  BY <1>1, <1>2 DEF LinesIn

LEMMA TreesAt0 ==
    ASSUME image \in Images, NoTreeAt0, NEW n \in Nat, NEW o \in Nat
    PROVE  ToSet(Tree1(n, 0, o)) = {} /\ ToSet(Tree2(n, 0, o)) = {} /\ ToSet(Tree3(n, 0, o)) = {}
<1>1. 1 \in 1 .. 3 /\ 2 \in 1 .. 3 /\ 3 \in 1 .. 3 /\ 0 \in Nat
  OBVIOUS
<1>2. ToSet(Tree1(n, 0, o)) = {}
  BY <1>1, NothingAt0 DEF Tree1
<1>3. ToSet(BlockLines(n, 2, 0, o)) = {} /\ ToSet(BlockLines(n, 3, 0, o)) = {}
  BY <1>1, NothingAt0
<1>4. ToSet(Tree2(n, 0, o)) = ToSet(BlockLines(n, 2, 0, o)) \cup Below1(n, ToSet(BlockLines(n, 2, 0, o)))
  BY <1>1, Tree2Are
<1>5. ToSet(Tree3(n, 0, o)) = ToSet(BlockLines(n, 3, 0, o)) \cup Below2(n, ToSet(BlockLines(n, 3, 0, o)))
  BY <1>1, Tree3Are
<1>6. Below1(n, {}) = {} /\ Below2(n, {}) = {}
  BY DEF Below1, Below2
<1>7. QED
  BY <1>2, <1>3, <1>4, <1>5, <1>6

LEMMA TreeRight ==
    ASSUME image \in Images, NoTreeAt0, NEW n \in Nat, NEW cur \in Nat, NEW o \in Nat
    PROVE  /\ Right(ToSet(Tree1(n, cur, o)), PointersUnder(cur, 1, o))
           /\ Right(ToSet(Tree2(n, cur, o)), PointersUnder(cur, 2, o))
           /\ Right(ToSet(Tree3(n, cur, o)), PointersUnder(cur, 3, o))
<1>1. Counts(o, o, TRUE) /\ TRUE \in BOOLEAN /\ 1 \in 1 .. 3
  BY DEF Counts
<1>2. CASE cur = 0
  <2>1. \A level : PointersUnder(0, level, o) = {}
    BY DEF PointersUnder, Deeper
  <2>2. Right({}, {})
    BY DEF Right
  <2>3. QED
    BY <1>2, <2>1, <2>2, TreesAt0
<1>3. CASE cur # 0
  <2>1. Right(ToSet(Tree1(n, cur, o)), PointersUnder(cur, 1, o))
    <3> DEFINE one == Below(cur, 1, o, TRUE)
    <3>1. one \subseteq Found(1) /\ Right(ToSet(BlockLines(n, 1, cur, o)), one)
      BY <1>1, <1>3, BlockRight
    <3>2. PointersUnder(cur, 1, o) = one \cup Deeper(one) \cup Deeper(Deeper(one))
      BY <1>3 DEF PointersUnder
    <3> HIDE DEF one
    <3>3. Deeper(one) = {} /\ Deeper({}) = {}
      <4>1. one \in SUBSET Found(1) /\ {} \in SUBSET Found(1)
        BY <3>1
      <4>2. QED
        BY <4>1, DeepestIs
    <3>4. QED
      BY <3>1, <3>2, <3>3 DEF Tree1
  <2>2. Right(ToSet(Tree2(n, cur, o)), PointersUnder(cur, 2, o))
    <3> DEFINE one == Below(cur, 2, o, TRUE)
    <3>1. /\ one \subseteq Found(2) /\ Deeper(one) \subseteq Found(1)
          /\ Right(ToSet(Tree2(n, cur, o)), one \cup Deeper(one))
      BY <1>1, <1>3, Tree2Right
    <3>2. PointersUnder(cur, 2, o) = one \cup Deeper(one) \cup Deeper(Deeper(one))
      BY <1>3 DEF PointersUnder
    <3> HIDE DEF one
    <3>3. Deeper(Deeper(one)) = {}
      <4>1. Deeper(one) \in SUBSET Found(1)
        BY <3>1
      <4>2. QED
        BY <4>1, DeepestIs
    <3>4. QED
      BY <3>1, <3>2, <3>3
  <2>3. Right(ToSet(Tree3(n, cur, o)), PointersUnder(cur, 3, o))
    <3>1. PointersUnder(cur, 3, o) =
             LET one == Below(cur, 3, o, TRUE)
                 two == Deeper(one)
             IN  one \cup two \cup Deeper(two)
      BY <1>3 DEF PointersUnder
    <3>2. Right(ToSet(Tree3(n, cur, o)),
                LET one == Below(cur, 3, o, TRUE)
                    two == Deeper(one)
                IN  one \cup two \cup Deeper(two))
      BY <1>1, <1>3, Tree3Right
    <3>3. QED
      BY <3>1, <3>2, Zenon
  <2>4. QED
    BY <2>1, <2>2, <2>3
<1>4. QED
  BY <1>2, <1>3

LEMMA RootsAre ==
    ASSUME image \in Images, NEW n \in Numbers
    PROVE  /\ n \in Nat /\ At(n) \in ext2_inode
           /\ At(n).i_block[12] \in Nat /\ At(n).i_block[13] \in Nat /\ At(n).i_block[14] \in Nat
<1>1. n \in Nat /\ At(n) \in ext2_inode
  BY ImageFacts DEF ext2_super_block
<1>2. At(n).i_block \in [0 .. EXT2_N_BLOCKS - 1 -> Nat] /\ EXT2_N_BLOCKS = 15
  BY <1>1 DEF ext2_inode, EXT2_N_BLOCKS, EXT2_TIND_BLOCK, EXT2_DIND_BLOCK, EXT2_IND_BLOCK, EXT2_NDIR_BLOCKS
<1>3. QED
  BY <1>1, <1>2

LEMMA TreesOfType ==
    ASSUME image \in Images, NEW n \in Numbers
    PROVE  /\ TreesOf(n) \in Seq(LinesFor(n))
           /\ ToSet(TreesOf(n)) = ToSet(Tree1(n, At(n).i_block[12], 12))
                                  \cup ToSet(Tree2(n, At(n).i_block[13], 268))
                                  \cup ToSet(Tree3(n, At(n).i_block[14], 65804))
<1> DEFINE r(k) == At(n).i_block[k]
<1>1. n \in Nat /\ r(12) \in Nat /\ r(13) \in Nat /\ r(14) \in Nat
  BY RootsAre
<1> HIDE DEF r
<1>2. /\ Tree1(n, r(12), 12) \in Seq(LinesFor(n))
       /\ Tree2(n, r(13), 268) \in Seq(LinesFor(n))
       /\ Tree3(n, r(14), 65804) \in Seq(LinesFor(n))
  <2>1. Tree1(n, r(12), 12) \in Seq(LinesFor(n))
    BY <1>1, Tree1Are
  <2>2. Tree2(n, r(13), 268) \in Seq(LinesFor(n))
    BY <1>1, Tree2Are
  <2>3. Tree3(n, r(14), 65804) \in Seq(LinesFor(n))
    BY <1>1, Tree3Are
  <2>4. QED
    BY <2>1, <2>2, <2>3
<1>3. PICK a \in Seq(LinesFor(n)) : a = Tree1(n, r(12), 12)
  BY <1>2
<1>4. PICK b \in Seq(LinesFor(n)) : b = Tree2(n, r(13), 268)
  BY <1>2
<1>5. PICK c \in Seq(LinesFor(n)) : c = Tree3(n, r(14), 65804)
  BY <1>2
<1>6. PICK ab \in Seq(LinesFor(n)) : ab = a \o b
  BY ConcatProperties
<1>7. ToSet(ab) = ToSet(a) \cup ToSet(b)
  BY <1>6, RangeConcat
<1>8. ab \o c \in Seq(LinesFor(n)) /\ ToSet(ab \o c) = ToSet(ab) \cup ToSet(c)
  BY RangeConcat, ConcatProperties
<1>9. TreesOf(n) = ab \o c
  BY <1>3, <1>4, <1>5, <1>6 DEF TreesOf, r
<1>10. QED
  BY <1>3, <1>4, <1>5, <1>7, <1>8, <1>9 DEF r

LEMMA TreesRight ==
    ASSUME image \in Images, NoTreeAt0, NEW n \in Numbers
    PROVE  Right(ToSet(TreesOf(n)), PointersOf(n))
<1>1. PICK a, b, c : /\ a = ToSet(Tree1(n, At(n).i_block[12], 12))
                     /\ b = ToSet(Tree2(n, At(n).i_block[13], 268))
                     /\ c = ToSet(Tree3(n, At(n).i_block[14], 65804))
  OBVIOUS
<1>2. PICK x, y, z : /\ x = PointersUnder(At(n).i_block[12], 1, 12)
                     /\ y = PointersUnder(At(n).i_block[13], 2, 268)
                     /\ z = PointersUnder(At(n).i_block[14], 3, 65804)
  OBVIOUS
<1>3. Right(a, x) /\ Right(b, y) /\ Right(c, z)
  <2>1. 12 \in Nat /\ 268 \in Nat /\ 65804 \in Nat
    OBVIOUS
  <2>2. PICK r, s, t \in Nat : r = At(n).i_block[12] /\ s = At(n).i_block[13] /\ t = At(n).i_block[14]
    BY RootsAre
  <2>3. n \in Nat
    BY RootsAre
  <2>4. /\ Right(ToSet(Tree1(n, r, 12)), PointersUnder(r, 1, 12))
        /\ Right(ToSet(Tree2(n, s, 268)), PointersUnder(s, 2, 268))
        /\ Right(ToSet(Tree3(n, t, 65804)), PointersUnder(t, 3, 65804))
    BY <2>1, <2>3, TreeRight
  <2>5. QED
    BY <1>1, <1>2, <2>2, <2>4
<1>4. Right(a \cup b, x \cup y)
  BY <1>3, RightBoth
<1>5. Right((a \cup b) \cup c, (x \cup y) \cup z)
  BY <1>3, <1>4, RightBoth
<1>6. ToSet(TreesOf(n)) = (a \cup b) \cup c /\ PointersOf(n) = (x \cup y) \cup z
  BY <1>1, <1>2, TreesOfType DEF PointersOf
<1>7. QED
  BY <1>5, <1>6

-----------------------------------------------------------------------------
(* Both programs print these trees.                                        *)

LEMMA indirectIs ==
    ASSUME image \in Images, program = "lab3a", NEW level \in 1 .. 3, NEW b \in Nat, NEW o \in Nat
    PROVE  indirect[[level |-> level, cur |-> b, block_offset |-> o]] = BlockLines(inode_no, level, b, o)
<1> DEFINE call == [level |-> level, cur |-> b, block_offset |-> o]
           P == Pointers(b)
           counted(k) == {j \in 1 .. k - 1 : P[j] = 0 \/ level = 1}
           offset(k) == o + Span(level) * Cardinality(counted(k))
<1>1. call \in [level : 1 .. 3, cur : Nat, block_offset : Nat]
  OBVIOUS
<1>2. call.level = level /\ call.cur = b /\ call.block_offset = o
  OBVIOUS
<1> HIDE DEF call
<1>3. indirect[call] = FlattenSeq([k \in DOMAIN P |->
            IF P[k] = 0 THEN <<>> ELSE <<Indirect(inode_no, level, offset(k), b, P[k])>>])
  BY <1>1, <1>2 DEF indirect
<1>4. PointersAt(b) = P
  BY DEF PointersAt
<1>5. \A k : offset(k) = OffsetIn(P, level, o, k)
  BY DEF OffsetIn, CountedIn, Before1
<1>6. BlockLines(inode_no, level, b, o) = FlattenSeq([k \in DOMAIN P |->
            IF P[k] = 0 THEN <<>> ELSE <<Indirect(inode_no, level, OffsetIn(P, level, o, k), b, P[k])>>])
  BY <1>4 DEF BlockLines, LineAt
<1> HIDE DEF P, offset
<1>7. QED
  BY <1>3, <1>5, <1>6 DEF call

LEMMA scan_indirectsIs ==
    ASSUME image \in Images, program = "lab3a_std", NEW level \in 1 .. 3, NEW b \in Nat, NEW o \in Nat
    PROVE  scan_indirects[[level |-> level, block_no |-> b, curr_offset |-> o]]
              = BlockLines(inode_no, level, b, o)
<1> DEFINE call == [level |-> level, block_no |-> b, curr_offset |-> o]
           P == IF b = 0 THEN <<>> ELSE Pointers(b)
           counted(k) == {j \in 1 .. k - 1 : P[j] = 0}
           offset(k) == o + Span(level) * Cardinality(counted(k))
<1>1. call \in [level : 1 .. 3, block_no : Nat, curr_offset : Nat]
  OBVIOUS
<1>2. call.level = level /\ call.block_no = b /\ call.curr_offset = o
  OBVIOUS
<1> HIDE DEF call
<1>3. scan_indirects[call] = FlattenSeq([k \in DOMAIN P |->
            IF P[k] = 0 THEN <<>> ELSE <<Indirect(inode_no, level, offset(k), b, P[k])>>])
  BY <1>1, <1>2 DEF scan_indirects
<1>4. PointersAt(b) = P
  BY DEF PointersAt
<1>5. \A k : offset(k) = OffsetIn(P, level, o, k)
  BY DEF OffsetIn, CountedIn, Before1
<1> HIDE DEF P, offset
<1>6. BlockLines(inode_no, level, b, o) = FlattenSeq([k \in DOMAIN P |->
            IF P[k] = 0 THEN <<>> ELSE <<Indirect(inode_no, level, OffsetIn(P, level, o, k), b, P[k])>>])
  BY <1>4 DEF BlockLines, LineAt
<1>7. QED
  BY <1>3, <1>5, <1>6 DEF call

\* What a state prints of an inode's trees, whichever program it is.
LEMMA PrintsTrees ==
    ASSUME image \in Images, inode_no \in Numbers, program \in Programs
    PROVE  LET r(k) == At(inode_no).i_block[k]
           IN  /\ program = "lab3a" =>
                     /\ indirect1(inode.i_block[EXT2_IND_BLOCK], 12) = Tree1(inode_no, r(12), 12)
                     /\ indirect2(inode.i_block[EXT2_DIND_BLOCK], 268) = Tree2(inode_no, r(13), 268)
                     /\ indirect3(inode.i_block[EXT2_TIND_BLOCK], 65804) = Tree3(inode_no, r(14), 65804)
               /\ program = "lab3a_std" =>
                     /\ scan_indirects1(inode.i_block[EXT2_IND_BLOCK], 12) = Tree1(inode_no, r(12), 12)
                     /\ scan_indirects2(inode.i_block[EXT2_DIND_BLOCK], 268) = Tree2(inode_no, r(13), 268)
                     /\ scan_indirects3(inode.i_block[EXT2_TIND_BLOCK], 65804) = Tree3(inode_no, r(14), 65804)
<1> DEFINE n == inode_no
           one(b, o) == IF program = "lab3a" THEN indirect1(b, o) ELSE scan_indirects1(b, o)
           two(b, o) == IF program = "lab3a" THEN indirect2(b, o) ELSE scan_indirects2(b, o)
           three(b, o) == IF program = "lab3a" THEN indirect3(b, o) ELSE scan_indirects3(b, o)
           r(k) == At(n).i_block[k]
<1>1. /\ n \in Nat /\ r(12) \in Nat /\ r(13) \in Nat /\ r(14) \in Nat
      /\ 12 \in Nat /\ 268 \in Nat /\ 65804 \in Nat
  BY RootsAre
<1>2. ASSUME NEW b \in Nat, NEW o \in Nat PROVE one(b, o) = Tree1(n, b, o)
  <2>1. 1 \in 1 .. 3
    OBVIOUS
  <2>2. CASE program = "lab3a"
    <3>1. indirect[[level |-> 1, cur |-> b, block_offset |-> o]] = BlockLines(inode_no, 1, b, o)
      BY <2>1, <2>2, indirectIs
    <3>2. QED
      BY <2>2, <3>1 DEF indirect1, Tree1
  <2>3. CASE program = "lab3a_std"
    <3>1. scan_indirects[[level |-> 1, block_no |-> b, curr_offset |-> o]] = BlockLines(inode_no, 1, b, o)
      BY <2>1, <2>3, scan_indirectsIs
    <3>2. QED
      BY <2>3, <3>1 DEF scan_indirects1, Tree1
  <2>4. QED
    BY <2>2, <2>3 DEF Programs
<1>3. ASSUME NEW b \in Nat, NEW o \in Nat PROVE two(b, o) = Tree2(n, b, o)
  <2>1. 2 \in 1 .. 3
    OBVIOUS
  <2>2. PICK lines \in Seq(LinesFor(n)) : lines = BlockLines(n, 2, b, o)
    BY <1>1, <2>1, BlockLinesAre, SMTT(40)
  <2>3. two(b, o) = FlattenSeq([k \in DOMAIN lines |->
                        <<lines[k]>> \o one(lines[k].reference_number, lines[k].logical_offset)])
    <3>1. CASE program = "lab3a"
      <4>1. indirect[[level |-> 2, cur |-> b, block_offset |-> o]] = lines
        BY <2>1, <2>2, <3>1, indirectIs
      <4>2. QED
        BY <3>1, <4>1 DEF indirect2
    <3>2. CASE program = "lab3a_std"
      <4>1. scan_indirects[[level |-> 2, block_no |-> b, curr_offset |-> o]] = lines
        BY <2>1, <2>2, <3>2, scan_indirectsIs
      <4>2. QED
        BY <3>2, <4>1 DEF scan_indirects2
    <3>3. QED
      BY <3>1, <3>2 DEF Programs
  <2> HIDE DEF one, n
  <2>4. ASSUME NEW k \in DOMAIN lines
        PROVE  one(lines[k].reference_number, lines[k].logical_offset)
                  = Tree1(n, lines[k].reference_number, lines[k].logical_offset)
    <3>1. lines[k] \in LinesFor(n)
      BY <2>2
    <3>2. PICK c \in Nat, d \in Nat : c = lines[k].reference_number /\ d = lines[k].logical_offset
      BY <1>1, <3>1, LinesForAre
    <3>3. one(c, d) = Tree1(n, c, d)
      BY <1>2
    <3>4. QED
      BY <3>2, <3>3
  <2>5. [k \in DOMAIN lines |->
            <<lines[k]>> \o one(lines[k].reference_number, lines[k].logical_offset)]
           = [k \in DOMAIN lines |->
                <<lines[k]>> \o Tree1(n, lines[k].reference_number, lines[k].logical_offset)]
    BY <2>4
  <2>6. QED
    BY <2>2, <2>3, <2>5 DEF Tree2
<1>4. ASSUME NEW b \in Nat, NEW o \in Nat PROVE three(b, o) = Tree3(n, b, o)
  <2>1. 3 \in 1 .. 3
    OBVIOUS
  <2>2. PICK lines \in Seq(LinesFor(n)) : lines = BlockLines(n, 3, b, o)
    BY <1>1, <2>1, BlockLinesAre
  <2>3. three(b, o) = FlattenSeq([k \in DOMAIN lines |->
                        <<lines[k]>> \o two(lines[k].reference_number, lines[k].logical_offset)])
    <3>1. CASE program = "lab3a"
      <4>1. indirect[[level |-> 3, cur |-> b, block_offset |-> o]] = lines
        BY <2>1, <2>2, <3>1, indirectIs
      <4>2. QED
        BY <3>1, <4>1 DEF indirect3
    <3>2. CASE program = "lab3a_std"
      <4>1. scan_indirects[[level |-> 3, block_no |-> b, curr_offset |-> o]] = lines
        BY <2>1, <2>2, <3>2, scan_indirectsIs
      <4>2. QED
        BY <3>2, <4>1 DEF scan_indirects3
    <3>3. QED
      BY <3>1, <3>2 DEF Programs
  <2> HIDE DEF two, n
  <2>4. ASSUME NEW k \in DOMAIN lines
        PROVE  two(lines[k].reference_number, lines[k].logical_offset)
                  = Tree2(n, lines[k].reference_number, lines[k].logical_offset)
    <3>1. lines[k] \in LinesFor(n)
      BY <2>2
    <3>2. PICK c \in Nat, d \in Nat : c = lines[k].reference_number /\ d = lines[k].logical_offset
      BY <1>1, <3>1, LinesForAre
    <3>3. two(c, d) = Tree2(n, c, d)
      BY <1>3
    <3>4. QED
      BY <3>2, <3>3
  <2>5. [k \in DOMAIN lines |->
            <<lines[k]>> \o two(lines[k].reference_number, lines[k].logical_offset)]
           = [k \in DOMAIN lines |->
                <<lines[k]>> \o Tree2(n, lines[k].reference_number, lines[k].logical_offset)]
    BY <2>4
  <2>6. QED
    BY <2>2, <2>3, <2>5 DEF Tree3
<1>5. /\ one(r(12), 12) = Tree1(n, r(12), 12)
      /\ two(r(13), 268) = Tree2(n, r(13), 268)
      /\ three(r(14), 65804) = Tree3(n, r(14), 65804)
  <2> HIDE DEF n, r, one, two, three
  <2>1. QED
    BY <1>1, <1>2, <1>3, <1>4
<1>6. /\ inode.i_block[EXT2_IND_BLOCK] = r(12)
      /\ inode.i_block[EXT2_DIND_BLOCK] = r(13)
      /\ inode.i_block[EXT2_TIND_BLOCK] = r(14)
  BY DEF inode, At, EXT2_TIND_BLOCK, EXT2_DIND_BLOCK, EXT2_IND_BLOCK, EXT2_NDIR_BLOCKS
<1>7. QED
  BY <1>5, <1>6

AllThree(x, y, z) == x \o y \o z

LEMMA AfterIs == \A S : \A s, t, u \in Seq(S) :
                     After(s, t) \in Seq(S) /\ After(After(s, t), u) = After(s, After(t, u))
<1>1. SUFFICES ASSUME NEW S, NEW s \in Seq(S), NEW t \in Seq(S), NEW u \in Seq(S)
               PROVE  After(s, t) \in Seq(S) /\ After(After(s, t), u) = After(s, After(t, u))
  OBVIOUS
<1>2. (s \o t) \o u = s \o (t \o u)
  BY ConcatAssociative
<1>3. s \o t \in Seq(S)
  BY ConcatProperties
<1>4. QED
  BY <1>2, <1>3 DEF After

LEMMA JoinFour ==
    ASSUME NEW S, NEW s \in Seq(S), NEW x \in Seq(S), NEW y \in Seq(S), NEW z \in Seq(S)
    PROVE  /\ After(After(After(s, x), y), z) = After(s, AllThree(x, y, z))
           /\ AllThree(x, y, z) \in Seq(S)
<1>1. AllThree(x, y, z) = After(After(x, y), z)
  BY DEF AllThree, After
<1>2. After(x, y) \in Seq(S) /\ After(After(x, y), z) \in Seq(S)
  BY AfterIs
<1>3. After(After(s, x), y) = After(s, After(x, y))
  BY AfterIs
<1>4. After(After(s, After(x, y)), z) = After(s, After(After(x, y), z))
  BY <1>2, AfterIs
<1>5. QED
  BY <1>1, <1>2, <1>3, <1>4

LEMMA JoinsTrees ==
    ASSUME image \in Images, NEW n \in Numbers, NEW s \in Seq(ScanLines)
    PROVE  /\ After(After(After(s, Tree1(n, At(n).i_block[12], 12)),
                        Tree2(n, At(n).i_block[13], 268)),
                  Tree3(n, At(n).i_block[14], 65804)) = After(s, TreesOf(n))
           /\ TreesOf(n) \in Seq(ScanLines)
<1> DEFINE r(k) == At(n).i_block[k]
<1>1. /\ n \in Nat /\ r(12) \in Nat /\ r(13) \in Nat /\ r(14) \in Nat
      /\ 12 \in Nat /\ 268 \in Nat /\ 65804 \in Nat
  BY RootsAre
<1>2. /\ Tree1(n, r(12), 12) \in Seq(LinesFor(n))
      /\ Tree2(n, r(13), 268) \in Seq(LinesFor(n))
      /\ Tree3(n, r(14), 65804) \in Seq(LinesFor(n))
  <2> HIDE DEF r
  <2>1. Tree1(n, r(12), 12) \in Seq(LinesFor(n))
    BY <1>1, Tree1Are
  <2>2. Tree2(n, r(13), 268) \in Seq(LinesFor(n))
    BY <1>1, Tree2Are
  <2>3. Tree3(n, r(14), 65804) \in Seq(LinesFor(n))
    BY <1>1, Tree3Are
  <2>4. QED
    BY <2>1, <2>2, <2>3
<1> DEFINE x == Tree1(n, r(12), 12)
           y == Tree2(n, r(13), 268)
           z == Tree3(n, r(14), 65804)
<1>3. x \in Seq(ScanLines) /\ y \in Seq(ScanLines) /\ z \in Seq(ScanLines)
  <2>1. LinesFor(n) \subseteq ScanLines
    BY <1>1, LinesForAre DEF ScanLines
  <2> HIDE DEF r
  <2>2. \A q \in Seq(LinesFor(n)) : q \in Seq(ScanLines)
    BY <2>1, Retype
  <2>3. QED
    BY <1>2, <2>2
<1>4. TreesOf(n) = AllThree(x, y, z)
  BY DEF TreesOf, AllThree
<1> HIDE DEF x, y, z
<1>5. /\ After(After(After(s, x), y), z) = After(s, AllThree(x, y, z))
      /\ AllThree(x, y, z) \in Seq(ScanLines)
  BY <1>3, JoinFour
<1>6. /\ After(After(After(s, x), y), z) = After(s, TreesOf(n))
      /\ TreesOf(n) \in Seq(ScanLines)
  BY <1>4, <1>5
<1>7. QED
  BY <1>6 DEF x, y, z

-----------------------------------------------------------------------------
(* The inductive invariant of the scan: what has been printed so far.      *)

Calls == [level : 0 .. 3, left : Seq(Nat), size : Nat, block : Nat \cup {NoBlock}, at : Nat]

Opening == {"start", "groups", "bitmaps"}
Within == scan \in {"directory", "indirect"}
Among == Within \/ scan \in {"inodes", "done"}

ScanTypes ==
    /\ image \in Images /\ program \in Programs
    /\ scan \in Opening \cup {"inodes", "directory", "indirect", "done", "endless", "exit2", "crashed"}
    /\ csv \in Seq(ScanLines)
    /\ inode_no \in Nat /\ cur_entry \in Nat /\ stack \in Seq(Calls)
    /\ scan \in Opening => inode_no = 1
    /\ Within => inode_no \in Numbers
    /\ scan = "directory" /\ program = "lab3a_std" => stack # <<>>

\* The lines before those of the inodes.
SuperLine == SuperBlock(sb.s_blocks_count, sb.s_inodes_count, block_size,
                        sb.s_inode_size, sb.s_first_ino)
GroupLine == Group(sb.s_blocks_count, sb.s_inodes_count, image.group.bg_inode_table)
BFreeLines == LET blocks == Unset(image.block_bitmap) IN [k \in DOMAIN blocks |-> BFree(blocks[k])]
IFreeLines == LET inodes == Unset(image.inode_bitmap) IN [k \in DOMAIN inodes |-> IFree(inodes[k])]

Opened ==
    CASE scan = "start" -> <<>>
      [] scan = "groups" -> <<SuperLine>>
      [] scan = "bitmaps" -> <<SuperLine, GroupLine>>
      [] OTHER -> csv

\* The inodes that there are lines for, and the lines.
Scanned(n) ==
    /\ n \in Numbers
    /\ IF program = "lab3a" THEN InUse(At(n))
       ELSE /\ n >= 2 /\ n < sb.s_inodes_count
            /\ n - 1 \in image.inode_bitmap
            /\ n = 2 \/ n >= sb.s_first_ino \/ 1 \notin image.inode_bitmap

ShownAddresses(n) ==
    IF program = "lab3a" /\ FileFormat(At(n).i_mode) = "s" /\ At(n).i_size < 60
    THEN <<At(n).i_block[0]>> ELSE Addresses(At(n))

LineOf(n) ==
    Inode(n, FileFormat(At(n).i_mode), At(n).i_links_count, At(n).i_blocks, ShownAddresses(n))

InodePieces == [n \in Nat |-> IF Scanned(n) THEN <<LineOf(n)>> ELSE <<>>]
TreePieces ==
    [n \in Nat |-> IF Scanned(n) /\ (program = "lab3a" => Walked(n)) THEN TreesOf(n) ELSE <<>>]

\* lab3a_std goes on from the root at s_first_ino: when that is not behind it
\* the loop does not end, or the scan fails on inode 0.
Proceeds ==
    \/ program = "lab3a"
    \/ sb.s_first_ino > 2 \/ 1 \notin image.inode_bitmap \/ sb.s_inodes_count <= 2

Place ==
    /\ inode_no >= 1
    /\ Within => Scanned(inode_no) /\ (program = "lab3a" => Walked(inode_no))
    /\ program = "lab3a_std" =>
          /\ inode_no >= 2
          /\ inode_no = 2 \/ inode_no >= sb.s_first_ino \/ 1 \notin image.inode_bitmap
    /\ scan = "done" => inode_no > sb.s_inodes_count - (IF program = "lab3a" THEN 0 ELSE 1)

\* The lines of the inodes up to m have been printed, the trees of those up to k.
Upon(s, m, k) ==
    /\ OfKind(s, "SUPERBLOCK") = <<SuperLine>>
    /\ OfKind(s, "GROUP") = <<GroupLine>>
    /\ OfKind(s, "BFREE") = BFreeLines
    /\ OfKind(s, "IFREE") = IFreeLines
    /\ OfKind(s, "INODE") = Upto(InodePieces, m)
    /\ OfKind(s, "INDIRECT") = Upto(TreePieces, k)

SoFar == Upon(csv, IF Within THEN inode_no ELSE inode_no - 1, inode_no - 1)

ScanInv ==
    /\ ScanTypes
    /\ scan \in Opening => csv = Opened
    /\ Among => IF Proceeds THEN Place /\ SoFar ELSE scan # "done" /\ inode_no <= 2

\* The image and the program stay, and with them what there is to print.
Fixed == <<image, program>>

LEMMA TreesStay ==
    ASSUME UNCHANGED Fixed
    PROVE  \A n : TreesOf(n)' = TreesOf(n)
<1>1. image' = image /\ program' = program
  BY DEF Fixed
<1>2. \A b : PointersAt(b)' = PointersAt(b)
  BY <1>1 DEF PointersAt, Pointers
<1>3. \A P, level, o, k : OffsetIn(P, level, o, k)' = OffsetIn(P, level, o, k)
  <2>1. \A level : Before1(level)' <=> Before1(level)
    BY <1>1 DEF Before1
  <2>2. \A P, level, k : CountedIn(P, level, k)' = CountedIn(P, level, k)
    BY <2>1 DEF CountedIn
  <2>3. QED
    BY <2>2 DEF OffsetIn
<1>4. \A n, level, b, o, k : LineAt(n, level, b, o, k)' = LineAt(n, level, b, o, k)
  BY <1>2, <1>3 DEF LineAt, Indirect
<1>5. \A n, level, b, o : BlockLines(n, level, b, o)' = BlockLines(n, level, b, o)
  <2>1. ASSUME NEW n, NEW level, NEW b, NEW o
        PROVE  BlockLines(n, level, b, o)' = BlockLines(n, level, b, o)
    BY <1>2, <1>4 DEF BlockLines
  <2>2. QED
    BY <2>1
<1>6. \A n, b, o : Tree1(n, b, o)' = Tree1(n, b, o)
  BY <1>5 DEF Tree1
<1>7. \A n, b, o : Tree2(n, b, o)' = Tree2(n, b, o)
  <2>1. ASSUME NEW n, NEW b, NEW o
        PROVE  Tree2(n, b, o)' = Tree2(n, b, o)
    BY <1>5, <1>6 DEF Tree2
  <2>2. QED
    BY <2>1
<1>8. \A n, b, o : Tree3(n, b, o)' = Tree3(n, b, o)
  <2>1. ASSUME NEW n, NEW b, NEW o
        PROVE  Tree3(n, b, o)' = Tree3(n, b, o)
    BY <1>5, <1>7 DEF Tree3
  <2>2. QED
    BY <2>1
<1>9. ASSUME NEW n PROVE TreesOf(n)' = TreesOf(n)
  <2>1. At(n)' = At(n)
    BY <1>1 DEF At
  <2>2. PICK r, s, t : r = At(n).i_block[12] /\ s = At(n).i_block[13] /\ t = At(n).i_block[14]
    OBVIOUS
  <2>3. At(n)'.i_block[12] = r /\ At(n)'.i_block[13] = s /\ At(n)'.i_block[14] = t
    BY <2>1, <2>2
  <2>4. /\ Tree1(n, r, 12)' = Tree1(n, r, 12) /\ Tree2(n, s, 268)' = Tree2(n, s, 268)
        /\ Tree3(n, t, 65804)' = Tree3(n, t, 65804)
    BY <1>6, <1>7, <1>8
  <2>5. TreesOf(n)' = TreesOf(n)
    BY <2>2, <2>3, <2>4 DEF TreesOf
  <2>6. QED
    BY <2>5
<1>10. QED
  BY <1>9

LEMMA AllStay ==
    ASSUME UNCHANGED Fixed
    PROVE  /\ image' = image /\ program' = program /\ Numbers' = Numbers
           /\ SuperLine' = SuperLine /\ GroupLine' = GroupLine
           /\ BFreeLines' = BFreeLines /\ IFreeLines' = IFreeLines
           /\ sb' = sb /\ (Proceeds' <=> Proceeds)
           /\ \A n : (Scanned(n)' <=> Scanned(n)) /\ (Walked(n)' <=> Walked(n))
           /\ InodePieces' = InodePieces /\ TreePieces' = TreePieces
           /\ \A s, m, k : Upon(s, m, k)' <=> Upon(s, m, k)
<1>1. image' = image /\ program' = program
  BY DEF Fixed
<1>2. Numbers' = Numbers /\ sb' = sb /\ \A n : At(n)' = At(n)
  BY <1>1 DEF Numbers, sb, At
<1>3. SuperLine' = SuperLine /\ GroupLine' = GroupLine
  BY <1>1, <1>2 DEF SuperLine, GroupLine, SuperBlock, Group
<1>4. BFreeLines' = BFreeLines /\ IFreeLines' = IFreeLines
  BY <1>1 DEF BFreeLines, IFreeLines
<1>5. Proceeds' <=> Proceeds
  BY <1>1, <1>2 DEF Proceeds
<1>6. \A n : (Scanned(n)' <=> Scanned(n)) /\ (Walked(n)' <=> Walked(n))
  BY <1>1, <1>2 DEF Scanned, Walked
<1>7. \A n : LineOf(n)' = LineOf(n)
  <2>1. \A n : ShownAddresses(n)' = ShownAddresses(n)
    BY <1>1, <1>2 DEF ShownAddresses
  <2>2. QED
    BY <1>2, <2>1 DEF LineOf, Inode
<1>8. InodePieces' = InodePieces
  BY <1>6, <1>7 DEF InodePieces
<1>9. TreePieces' = TreePieces
  BY <1>1, <1>6, TreesStay DEF TreePieces
<1>10. \A s, m, k : Upon(s, m, k)' <=> Upon(s, m, k)
  BY <1>3, <1>4, <1>8, <1>9 DEF Upon, OfKind, Upto
<1>11. QED
  BY <1>1, <1>2, <1>3, <1>4, <1>5, <1>6, <1>8, <1>9, <1>10

-----------------------------------------------------------------------------
(* What the lines are.                                                     *)

LEMMA UnsetType == ASSUME NEW bitmap PROVE Unset(bitmap) \in Seq(Nat)
<1>1. BitmapBits \in Nat
  BY BitmapAssumption
<1>2. [n \in 1 .. BitmapBits |-> n] \in Seq(Nat)
  BY <1>1
<1>3. QED
  BY <1>2, WithoutType DEF Unset

LEMMA HeadsAre ==
    ASSUME image \in Images
    PROVE  /\ SuperLine \in SuperLines /\ SuperLine.line = "SUPERBLOCK"
           /\ SuperLine.num_blocks = sb.s_blocks_count /\ SuperLine.num_inodes = sb.s_inodes_count
           /\ SuperLine.first_inode = sb.s_first_ino /\ SuperLine.block_size = block_size
           /\ SuperLine.inode_size = sb.s_inode_size
           /\ GroupLine \in GroupLines /\ GroupLine.line = "GROUP"
           /\ GroupLine.bid_group = sb.s_blocks_count /\ GroupLine.iid_group = sb.s_inodes_count
           /\ GroupLine.first_block_inode = image.group.bg_inode_table
<1>1. sb \in ext2_super_block /\ image.group \in ext2_group_desc
  BY ImageFacts
<1>2. /\ sb.s_blocks_count \in Nat /\ sb.s_inodes_count \in Nat /\ sb.s_inode_size \in Nat
      /\ sb.s_first_ino \in Nat /\ image.group.bg_inode_table \in Nat /\ block_size \in Nat \ {0}
  BY <1>1 DEF ext2_super_block, ext2_group_desc, block_size
<1>3. QED
  BY <1>2 DEF SuperLine, GroupLine, SuperBlock, Group, SuperLines, GroupLines

LEMMA FreeLinesAre ==
    /\ BFreeLines \in Seq(NumberLines) /\ \A l \in ToSet(BFreeLines) : l.line = "BFREE"
    /\ IFreeLines \in Seq(NumberLines) /\ \A l \in ToSet(IFreeLines) : l.line = "IFREE"
<1>1. \A n \in Nat : /\ BFree(n) \in NumberLines /\ BFree(n).line = "BFREE"
                     /\ IFree(n) \in NumberLines /\ IFree(n).line = "IFREE"
  BY DEF BFree, IFree, NumberLines
<1>2. BFreeLines \in Seq(NumberLines) /\ \A l \in ToSet(BFreeLines) : l.line = "BFREE"
  <2>1. PICK u \in Seq(Nat) : u = Unset(image.block_bitmap)
    BY UnsetType
  <2>2. BFreeLines = [k \in DOMAIN u |-> BFree(u[k])]
    BY <2>1 DEF BFreeLines
  <2>3. \A k \in DOMAIN u : BFree(u[k]) \in NumberLines /\ BFree(u[k]).line = "BFREE"
    BY <1>1
  <2>4. QED
    BY <2>2, <2>3 DEF ToSet
<1>3. IFreeLines \in Seq(NumberLines) /\ \A l \in ToSet(IFreeLines) : l.line = "IFREE"
  <2>1. PICK u \in Seq(Nat) : u = Unset(image.inode_bitmap)
    BY UnsetType
  <2>2. IFreeLines = [k \in DOMAIN u |-> IFree(u[k])]
    BY <2>1 DEF IFreeLines
  <2>3. \A k \in DOMAIN u : IFree(u[k]) \in NumberLines /\ IFree(u[k]).line = "IFREE"
    BY <1>1
  <2>4. QED
    BY <2>2, <2>3 DEF ToSet
<1>4. QED
  BY <1>2, <1>3

LEMMA AddressesAre ==
    ASSUME image \in Images, NEW n \in Numbers
    PROVE  /\ Addresses(At(n)) \in Seq(Nat) /\ Len(Addresses(At(n))) = 15
           /\ \A k \in 1 .. 15 : Addresses(At(n))[k] = At(n).i_block[k - 1]
           /\ \A k \in 0 .. 14 : At(n).i_block[k] \in Nat
           /\ ShownAddresses(n) \in Seq(Nat)
<1>1. At(n).i_block \in [0 .. EXT2_N_BLOCKS - 1 -> Nat] /\ EXT2_N_BLOCKS = 15
  BY RootsAre DEF ext2_inode, EXT2_N_BLOCKS, EXT2_TIND_BLOCK, EXT2_DIND_BLOCK, EXT2_IND_BLOCK, EXT2_NDIR_BLOCKS
<1>2. PICK b \in [0 .. 14 -> Nat] : b = At(n).i_block
  BY <1>1
<1>3. Addresses(At(n)) = [k \in 1 .. 15 |-> b[k - 1]]
  BY <1>1, <1>2 DEF Addresses
<1>4. PICK a : a = [k \in 1 .. 15 |-> b[k - 1]]
  OBVIOUS
<1>5. a \in Seq(Nat) /\ Len(a) = 15 /\ \A k \in 1 .. 15 : a[k] = b[k - 1]
  BY <1>4
<1>6. <<b[0]>> \in Seq(Nat)
  OBVIOUS
<1>7. Addresses(At(n)) = a
  BY <1>3, <1>4
<1>8. ShownAddresses(n) = <<b[0]>> \/ ShownAddresses(n) = a
  BY <1>2, <1>7 DEF ShownAddresses
<1>9. ShownAddresses(n) \in Seq(Nat)
  BY <1>5, <1>6, <1>8
<1>10. \A k \in 0 .. 14 : At(n).i_block[k] \in Nat
  BY <1>2
<1>11. \A k \in 1 .. 15 : Addresses(At(n))[k] = At(n).i_block[k - 1]
  BY <1>2, <1>5, <1>7
<1>12. QED
  BY <1>5, <1>7, <1>9, <1>10, <1>11

LEMMA LineOfIs ==
    ASSUME image \in Images, NEW n \in Numbers
    PROVE  /\ LineOf(n) \in InodeLines /\ LineOf(n).line = "INODE" /\ LineOf(n).inode_number = n
           /\ LineOf(n).file_type = FileFormat(At(n).i_mode)
           /\ LineOf(n).linkage_counts = At(n).i_links_count
           /\ LineOf(n).disk_space = At(n).i_blocks
           /\ LineOf(n).block_address = ShownAddresses(n)
<1>1. /\ n \in Nat /\ At(n).i_links_count \in Nat /\ At(n).i_blocks \in Nat
  BY RootsAre DEF ext2_inode
<1>2. ShownAddresses(n) \in Seq(Int)
  <2>1. ShownAddresses(n) \in Seq(Nat) /\ Nat \subseteq Int
    BY AddressesAre
  <2>2. QED
    BY <2>1, Retype
<1>3. FileFormat(At(n).i_mode) \in {"0", "f", "d", "s", "?"}
  BY DEF FileFormat
<1>4. PICK f, a : f = FileFormat(At(n).i_mode) /\ a = ShownAddresses(n)
  OBVIOUS
<1>5. LineOf(n) = Inode(n, f, At(n).i_links_count, At(n).i_blocks, a)
  BY <1>4 DEF LineOf
<1>6. QED
  BY <1>1, <1>2, <1>3, <1>4, <1>5 DEF Inode, InodeLines

LEMMA PiecesType ==
    ASSUME image \in Images
    PROVE  /\ InodePieces \in [Nat -> Seq(ScanLines)] /\ TreePieces \in [Nat -> Seq(ScanLines)]
           /\ \A n \in Nat : /\ \A l \in ToSet(InodePieces[n]) : l.line = "INODE"
                             /\ \A l \in ToSet(TreePieces[n]) : l.line = "INDIRECT"
           /\ \A n \in Nat : ~Scanned(n) => InodePieces[n] = <<>> /\ TreePieces[n] = <<>>
<1>1. ASSUME NEW n \in Nat
      PROVE  /\ InodePieces[n] \in Seq(ScanLines)
             /\ \A l \in ToSet(InodePieces[n]) : l.line = "INODE"
  <2>1. InodePieces[n] = IF Scanned(n) THEN <<LineOf(n)>> ELSE <<>>
    BY DEF InodePieces
  <2>2. CASE Scanned(n)
    <3>1. LineOf(n) \in ScanLines /\ LineOf(n).line = "INODE"
      BY <2>2, LineOfIs DEF Scanned, ScanLines
    <3>2. InodePieces[n] = <<LineOf(n)>>
      BY <2>1, <2>2
    <3>3. QED
      BY <3>1, <3>2 DEF ToSet
  <2>3. CASE ~Scanned(n)
    BY <2>1, <2>3, EmptySeq, RangeNothing
  <2>4. QED
    BY <2>2, <2>3
<1>2. ASSUME NEW n \in Nat
      PROVE  /\ TreePieces[n] \in Seq(ScanLines)
             /\ \A l \in ToSet(TreePieces[n]) : l.line = "INDIRECT"
  <2>1. TreePieces[n] = IF Scanned(n) /\ (program = "lab3a" => Walked(n)) THEN TreesOf(n) ELSE <<>>
    BY DEF TreePieces
  <2>2. CASE Scanned(n) /\ (program = "lab3a" => Walked(n))
    <3>1. TreesOf(n) \in Seq(LinesFor(n))
      BY <2>2, TreesOfType DEF Scanned
    <3>2. /\ LinesFor(n) \subseteq ScanLines
          /\ \A l \in LinesFor(n) : l.line = "INDIRECT"
      BY LinesForAre DEF ScanLines
    <3>3. TreesOf(n) \in Seq(ScanLines)
      BY <3>1, <3>2, Retype
    <3>4. ToSet(TreesOf(n)) \subseteq LinesFor(n)
      BY <3>1, RangeType
    <3>5. TreePieces[n] = TreesOf(n)
      BY <2>1, <2>2
    <3>6. QED
      BY <3>2, <3>3, <3>4, <3>5
  <2>3. CASE ~(Scanned(n) /\ (program = "lab3a" => Walked(n)))
    BY <2>1, <2>3, EmptySeq, RangeNothing
  <2>4. QED
    BY <2>2, <2>3
<1>3. /\ InodePieces = [n \in Nat |-> InodePieces[n]]
      /\ TreePieces = [n \in Nat |-> TreePieces[n]]
  BY DEF InodePieces, TreePieces
<1>4. InodePieces \in [Nat -> Seq(ScanLines)] /\ TreePieces \in [Nat -> Seq(ScanLines)]
  BY <1>1, <1>2, <1>3
<1>5. \A n \in Nat : ~Scanned(n) => InodePieces[n] = <<>> /\ TreePieces[n] = <<>>
  BY DEF InodePieces, TreePieces
<1>6. QED
  BY <1>1, <1>2, <1>4, <1>5

\* There is one group.
LEMMA OneGroup ==
    \A count, per \in Nat : 1 <= count /\ count <= per =>
        InLastGroup(count, per) = count /\ InGroup(count, per) = count
<1>1. SUFFICES ASSUME NEW count \in Nat, NEW per \in Nat, 1 <= count, count <= per
               PROVE  InLastGroup(count, per) = count /\ InGroup(count, per) = count
  OBVIOUS
<1>2. CASE count = per
  <2>1. count % per = 0
    BY <1>1, <1>2
  <2>2. QED
    BY <1>2, <2>1 DEF InLastGroup, InGroup
<1>3. CASE count < per
  <2>1. count % per = count
    BY <1>1, <1>3
  <2>2. QED
    BY <1>1, <1>3, <2>1 DEF InLastGroup, InGroup
<1>4. QED
  BY <1>1, <1>2, <1>3

-----------------------------------------------------------------------------
(* What each kind of line does to what has been printed.                   *)

\* One line more.
LEMMA LinePrinted ==
    ASSUME NEW s \in Seq(ScanLines), NEW l \in ScanLines
    PROVE  /\ After(s, <<l>>) = Append(s, l) /\ Append(s, l) \in Seq(ScanLines)
           /\ MoreOf(s, <<l>>, l.line)
<1>1. <<l>> \in Seq(ScanLines) /\ AllOf(<<l>>, l.line)
  BY DEF ToSet, AllOf
<1>2. After(s, <<l>>) \in Seq(ScanLines) /\ MoreOf(s, <<l>>, l.line)
  BY <1>1, PrintedMore
<1>3. s \o <<l>> = Append(s, l)
  OBVIOUS
<1>4. QED
  BY <1>2, <1>3 DEF After

LEMMA NumberIs ==
    ASSUME image \in Images, NEW n \in Numbers
    PROVE  /\ n \in Nat /\ 1 <= n /\ n <= sb.s_inodes_count /\ sb.s_inodes_count \in Nat
           /\ n - 1 \in Nat /\ (n - 1) + 1 = n /\ \A i \in (n - 1) + 1 .. n : i = n
<1>1. sb.s_inodes_count \in Nat /\ Numbers = 1 .. sb.s_inodes_count
  BY ImageFacts DEF ext2_super_block
<1>2. QED
  BY <1>1

\* The pieces up to the next inode.
LEMMA UptoThis ==
    ASSUME image \in Images, NEW n \in Numbers
    PROVE  /\ Upto(InodePieces, n) = After(Upto(InodePieces, n - 1), InodePieces[n])
           /\ Upto(TreePieces, n) = After(Upto(TreePieces, n - 1), TreePieces[n])
<1>1. n - 1 \in Nat /\ (n - 1) + 1 = n
  BY NumberIs
<1>2. InodePieces \in [Nat -> Seq(ScanLines)] /\ TreePieces \in [Nat -> Seq(ScanLines)]
  BY PiecesType
<1>3. PICK m \in Nat : m = n - 1 /\ m + 1 = n
  BY <1>1
<1>4. Upto(InodePieces, m + 1) = Upto(InodePieces, m) \o InodePieces[m + 1]
  BY <1>2, UptoNext
<1>5. Upto(TreePieces, m + 1) = Upto(TreePieces, m) \o TreePieces[m + 1]
  BY <1>2, UptoNext
<1>6. QED
  BY <1>3, <1>4, <1>5 DEF After

LEMMA EntryPrinted ==
    ASSUME NEW s \in Seq(ScanLines), NEW m, NEW k, Upon(s, m, k), NEW l \in EntryLines
    PROVE  Append(s, l) \in Seq(ScanLines) /\ Upon(Append(s, l), m, k)
<1>1. l.line = "DIRENT" /\ l \in ScanLines
  BY DEF EntryLines, ScanLines
<1>2. After(s, <<l>>) = Append(s, l) /\ Append(s, l) \in Seq(ScanLines) /\ MoreOf(s, <<l>>, "DIRENT")
  BY <1>1, LinePrinted
<1>3. \A other : other # "DIRENT" => OfKind(Append(s, l), other) = OfKind(s, other)
  BY <1>2 DEF MoreOf
<1>4. QED
  BY <1>2, <1>3 DEF Upon

LEMMA InodePrinted ==
    ASSUME image \in Images, NEW s \in Seq(ScanLines), NEW n \in Numbers, Scanned(n),
           NEW k, Upon(s, n - 1, k)
    PROVE  Append(s, LineOf(n)) \in Seq(ScanLines) /\ Upon(Append(s, LineOf(n)), n, k)
<1>1. PICK l \in InodeLines : l = LineOf(n) /\ l.line = "INODE"
  BY LineOfIs
<1>2. l \in ScanLines
  BY DEF ScanLines
<1>3. After(s, <<l>>) = Append(s, l) /\ Append(s, l) \in Seq(ScanLines) /\ MoreOf(s, <<l>>, "INODE")
  BY <1>1, <1>2, LinePrinted
<1>4. n \in Nat
  BY NumberIs
<1>5. InodePieces[n] = <<l>>
  BY <1>1, <1>4 DEF InodePieces
<1>6. Upto(InodePieces, n) = After(Upto(InodePieces, n - 1), <<l>>)
  BY <1>5, UptoThis
<1>7. OfKind(Append(s, l), "INODE") = Upto(InodePieces, n)
  BY <1>3, <1>6 DEF Upon, MoreOf
<1>8. \A other : other # "INODE" => OfKind(Append(s, l), other) = OfKind(s, other)
  BY <1>3 DEF MoreOf
<1>9. QED
  BY <1>1, <1>3, <1>7, <1>8 DEF Upon

LEMMA TreesPrinted ==
    ASSUME image \in Images, NEW s \in Seq(ScanLines), NEW n \in Numbers, Scanned(n),
           program = "lab3a" => Walked(n), NEW m, Upon(s, m, n - 1)
    PROVE  After(s, TreesOf(n)) \in Seq(ScanLines) /\ Upon(After(s, TreesOf(n)), m, n)
<1>1. n \in Nat
  BY NumberIs
<1>2. TreePieces[n] = TreesOf(n)
  BY <1>1 DEF TreePieces
<1>3. PICK t \in Seq(ScanLines) : t = TreesOf(n) /\ AllOf(t, "INDIRECT")
  BY <1>1, <1>2, PiecesType DEF AllOf
<1>4. After(s, t) \in Seq(ScanLines) /\ MoreOf(s, t, "INDIRECT")
  BY <1>3, PrintedMore
<1>5. Upto(TreePieces, n) = After(Upto(TreePieces, n - 1), t)
  BY <1>2, <1>3, UptoThis
<1>6. OfKind(After(s, t), "INDIRECT") = Upto(TreePieces, n)
  BY <1>4, <1>5 DEF Upon, MoreOf
<1>7. \A other : other # "INDIRECT" => OfKind(After(s, t), other) = OfKind(s, other)
  BY <1>4 DEF MoreOf
<1>8. QED
  BY <1>3, <1>4, <1>6, <1>7 DEF Upon

\* Inodes without lines.
LEMMA NothingBetween ==
    ASSUME image \in Images, NEW m \in Nat, NEW n \in Nat, m <= n, \A i \in m + 1 .. n : ~Scanned(i)
    PROVE  Upto(InodePieces, n) = Upto(InodePieces, m) /\ Upto(TreePieces, n) = Upto(TreePieces, m)
<1>1. InodePieces \in [Nat -> Seq(ScanLines)] /\ TreePieces \in [Nat -> Seq(ScanLines)]
  BY PiecesType
<1>2. \A i \in m + 1 .. n : InodePieces[i] = <<>> /\ TreePieces[i] = <<>>
  <2>1. \A i \in Nat : ~Scanned(i) => InodePieces[i] = <<>> /\ TreePieces[i] = <<>>
    BY PiecesType
  <2>2. \A i \in m + 1 .. n : i \in Nat
    OBVIOUS
  <2>3. QED
    BY <2>1, <2>2
<1>3. Upto(InodePieces, n) = Upto(InodePieces, m)
  BY <1>1, <1>2, UptoStill
<1>4. Upto(TreePieces, n) = Upto(TreePieces, m)
  BY <1>1, <1>2, UptoStill
<1>5. QED
  BY <1>3, <1>4

LEMMA InodesSkipped ==
    ASSUME image \in Images, NEW m \in Nat, NEW n \in Nat, m <= n,
           \A i \in m + 1 .. n : ~Scanned(i), NEW s, Upon(s, m, m)
    PROVE  Upon(s, n, n)
BY NothingBetween DEF Upon

\* lab3a passes over the trees of what is no file and no directory.
LEMMA TreesSkipped ==
    ASSUME image \in Images, NEW n \in Numbers, program = "lab3a", ~Walked(n),
           NEW s, NEW m, Upon(s, m, n - 1)
    PROVE  Upon(s, m, n)
<1>1. n \in Nat /\ n - 1 \in Nat
  BY NumberIs
<1>2. TreePieces[n] = <<>>
  BY <1>1 DEF TreePieces
<1>3. TreePieces \in [Nat -> Seq(ScanLines)]
  BY PiecesType
<1>4. Upto(TreePieces, n - 1) \in Seq(ScanLines)
  BY <1>1, <1>3, UptoNext
<1>5. Upto(TreePieces, n) = Upto(TreePieces, n - 1)
  BY <1>2, <1>4, UptoThis, ConcatEmptySeq DEF After
<1>6. QED
  BY <1>5 DEF Upon

\* The lines for the bitmaps are printed, none for an inode.
Heads == After(After(After(<<SuperLine>>, <<GroupLine>>), BFreeLines), IFreeLines)

LEMMA HeadsPrinted ==
    ASSUME image \in Images
    PROVE  Heads \in Seq(ScanLines) /\ Upon(Heads, 0, 0)
<1>1. PICK h \in ScanLines : h = SuperLine /\ h.line = "SUPERBLOCK"
  BY HeadsAre DEF ScanLines
<1>2. PICK g \in ScanLines : g = GroupLine /\ g.line = "GROUP"
  BY HeadsAre DEF ScanLines
<1>3. NumberLines \subseteq ScanLines
  BY DEF ScanLines
<1>4. PICK b \in Seq(ScanLines) : b = BFreeLines /\ AllOf(b, "BFREE")
  BY <1>3, FreeLinesAre, Retype DEF AllOf
<1>5. PICK f \in Seq(ScanLines) : f = IFreeLines /\ AllOf(f, "IFREE")
  BY <1>3, FreeLinesAre, Retype DEF AllOf
<1>6. PICK x \in Seq(ScanLines) : x = <<h>> /\ AllOf(x, "SUPERBLOCK")
  <2>1. <<h>> \in Seq(ScanLines) /\ AllOf(<<h>>, "SUPERBLOCK")
    BY <1>1 DEF ToSet, AllOf
  <2>2. QED
    BY <2>1
<1>7. PICK y \in Seq(ScanLines) : y = <<g>> /\ AllOf(y, "GROUP")
  <2>1. <<g>> \in Seq(ScanLines) /\ AllOf(<<g>>, "GROUP")
    BY <1>2 DEF ToSet, AllOf
  <2>2. QED
    BY <2>1
<1>8. PICK e \in Seq(ScanLines) : e = <<>> /\ \A kind : OfKind(e, kind) = <<>>
  <2>1. \A kind : OfKind(<<>>, kind) = <<>>
    BY WithoutEmpty DEF OfKind
  <2>2. QED
    BY <2>1, EmptySeq
<1>9. PICK c0 \in Seq(ScanLines) : c0 = After(e, x) /\ MoreOf(e, x, "SUPERBLOCK")
  BY <1>6, PrintedMore
<1>10. PICK c1 \in Seq(ScanLines) : c1 = After(c0, y) /\ MoreOf(c0, y, "GROUP")
  BY <1>7, PrintedMore
<1>11. PICK c2 \in Seq(ScanLines) : c2 = After(c1, b) /\ MoreOf(c1, b, "BFREE")
  BY <1>4, PrintedMore
<1>12. PICK c3 \in Seq(ScanLines) : c3 = After(c2, f) /\ MoreOf(c2, f, "IFREE")
  BY <1>5, PrintedMore
<1>13. \A t \in Seq(ScanLines) : After(e, t) = t
  BY <1>8, ConcatEmptySeq DEF After
<1>14. /\ OfKind(c0, "SUPERBLOCK") = x /\ OfKind(c0, "GROUP") = e
       /\ OfKind(c0, "BFREE") = e /\ OfKind(c0, "IFREE") = e
       /\ OfKind(c0, "INODE") = e /\ OfKind(c0, "INDIRECT") = e
  BY <1>8, <1>9, <1>13 DEF MoreOf
<1>15. /\ OfKind(c1, "SUPERBLOCK") = x /\ OfKind(c1, "GROUP") = y
       /\ OfKind(c1, "BFREE") = e /\ OfKind(c1, "IFREE") = e
       /\ OfKind(c1, "INODE") = e /\ OfKind(c1, "INDIRECT") = e
  BY <1>14, <1>10, <1>13 DEF MoreOf
<1>16. /\ OfKind(c2, "SUPERBLOCK") = x /\ OfKind(c2, "GROUP") = y
       /\ OfKind(c2, "BFREE") = b /\ OfKind(c2, "IFREE") = e
       /\ OfKind(c2, "INODE") = e /\ OfKind(c2, "INDIRECT") = e
  BY <1>15, <1>11, <1>13 DEF MoreOf
<1>17. /\ OfKind(c3, "SUPERBLOCK") = x /\ OfKind(c3, "GROUP") = y
       /\ OfKind(c3, "BFREE") = b /\ OfKind(c3, "IFREE") = f
       /\ OfKind(c3, "INODE") = e /\ OfKind(c3, "INDIRECT") = e
  BY <1>16, <1>12, <1>13 DEF MoreOf
<1>18. Upto(InodePieces, 0) = <<>> /\ Upto(TreePieces, 0) = <<>>
  BY UptoNone
<1>19. Upon(c3, 0, 0)
  BY <1>1, <1>2, <1>4, <1>5, <1>6, <1>7, <1>8, <1>17, <1>18 DEF Upon
<1>20. Heads = c3
  BY <1>1, <1>2, <1>4, <1>5, <1>6, <1>7, <1>9, <1>10, <1>11, <1>12, <1>13 DEF Heads
<1>21. QED
  BY <1>19, <1>20

-----------------------------------------------------------------------------
(* Every step of the scan keeps the invariant.                             *)

LEMMA Two ==
    ASSUME NEW a, NEW b
    PROVE  Append(<<a>>, b) = <<a, b>> /\ <<a>> \o <<b>> = <<a, b>>
<1>1. PICK S : a \in S /\ b \in S
  <2>1. a \in {a, b} /\ b \in {a, b}
    OBVIOUS
  <2>2. QED
    BY <2>1, Zenon
<1>2. PICK x \in Seq(S) : x = <<a>> /\ Len(x) = 1 /\ x[1] = a
  <2>1. <<a>> \in Seq(S)
    BY <1>1
  <2>2. QED
    BY <2>1
<1>3. PICK y \in Seq(S) : y = <<b>> /\ Len(y) = 1 /\ y[1] = b
  <2>1. <<b>> \in Seq(S)
    BY <1>1
  <2>2. QED
    BY <2>1
<1>4. PICK z \in Seq(S) : z = <<a, b>> /\ Len(z) = 2 /\ z[1] = a /\ z[2] = b
  <2>1. <<a, b>> \in Seq(S)
    BY <1>1
  <2>2. QED
    BY <2>1
<1>5. /\ Append(x, b) \in Seq(S) /\ Len(Append(x, b)) = 2
      /\ Append(x, b)[1] = a /\ Append(x, b)[2] = b
  <2>1. b \in S
    BY <1>1
  <2>2. QED
    BY <1>2, <2>1, AppendProperties
<1>6. x \o y \in Seq(S) /\ Len(x \o y) = 2 /\ (x \o y)[1] = a /\ (x \o y)[2] = b
  BY <1>2, <1>3, ConcatProperties
<1>7. \A q \in Seq(S) : Len(q) = 2 /\ q[1] = a /\ q[2] = b => q = z
  <2>1. SUFFICES ASSUME NEW q \in Seq(S), Len(q) = 2, q[1] = a, q[2] = b PROVE q = z
    OBVIOUS
  <2>2. Len(q) = Len(z) /\ \A i \in 1 .. Len(q) : q[i] = z[i]
    BY <1>4, <2>1
  <2>3. QED
    BY <2>2, SeqEqual
<1>8. Append(x, b) = z /\ x \o y = z
  BY <1>5, <1>6, <1>7
<1>9. QED
  BY <1>2, <1>3, <1>4, <1>8

LEMMA SoFarNow ==
    ASSUME UNCHANGED Fixed, NEW s, NEW m, NEW k, Upon(s, m, k),
           csv' = s, (IF Within THEN inode_no ELSE inode_no - 1)' = m, (inode_no - 1)' = k
    PROVE  SoFar'
<1>1. /\ SuperLine' = SuperLine /\ GroupLine' = GroupLine
      /\ BFreeLines' = BFreeLines /\ IFreeLines' = IFreeLines
      /\ InodePieces' = InodePieces /\ TreePieces' = TreePieces
  BY AllStay
<1>2. QED
  BY <1>1 DEF SoFar, Upon

\* What is left to show of a step among the inodes.
LEMMA AmongNow ==
    ASSUME UNCHANGED Fixed, ScanTypes', scan' \notin Opening,
           Among' => IF Proceeds THEN Place' /\ SoFar' ELSE scan' # "done" /\ inode_no' <= 2
    PROVE  ScanInv'
<1>1. Proceeds' <=> Proceeds
  BY AllStay
<1>2. QED
  BY <1>1 DEF ScanInv

LEMMA SummaryKeeps ==
    ASSUME ScanInv, UNCHANGED Fixed, UNCHANGED stack, Summary
    PROVE  ScanInv'
<1>1. /\ image \in Images /\ csv' \in Seq(ScanLines) /\ csv' = <<SuperLine, GroupLine>>
  <2>1. image \in Images
    BY DEF ScanInv, ScanTypes
  <2>2. SuperLine \in ScanLines /\ GroupLine \in ScanLines
    BY <2>1, HeadsAre DEF ScanLines
  <2>3. csv' = <<SuperLine, GroupLine>>
    <3>1. /\ sb.s_blocks_count \in Nat /\ sb.s_blocks_per_group \in Nat
          /\ 1 <= sb.s_blocks_count /\ sb.s_blocks_count <= sb.s_blocks_per_group
          /\ sb.s_inodes_count \in Nat /\ sb.s_inodes_per_group \in Nat
          /\ 1 <= sb.s_inodes_count /\ sb.s_inodes_count <= sb.s_inodes_per_group
      BY <2>1, ImageFacts DEF ext2_super_block
    <3>2. /\ InLastGroup(sb.s_blocks_count, sb.s_blocks_per_group) = sb.s_blocks_count
          /\ InLastGroup(sb.s_inodes_count, sb.s_inodes_per_group) = sb.s_inodes_count
      BY <3>1, OneGroup
    <3>3. QED
      BY <3>2 DEF Summary, SuperLine, GroupLine
  <2>4. QED
    BY <2>1, <2>2, <2>3
<1>2. SuperLine' = SuperLine /\ GroupLine' = GroupLine /\ image' = image /\ program' = program
  BY AllStay
<1>3. ScanTypes'
  BY <1>1, <1>2 DEF ScanInv, ScanTypes, Summary, Opening, Within
<1>4. scan' = "bitmaps"
  BY DEF Summary
<1>5. csv' = Opened'
  BY <1>1, <1>2, <1>4 DEF Opened
<1>6. ~Among'
  BY <1>4 DEF Among, Within
<1>7. QED
  BY <1>3, <1>5, <1>6 DEF ScanInv

LEMMA scan_sbKeeps ==
    ASSUME ScanInv, UNCHANGED Fixed, UNCHANGED <<cur_block, cur_entry>>, scan_sb
    PROVE  ScanInv'
<1>1. image \in Images /\ csv \in Seq(ScanLines)
  BY DEF ScanInv, ScanTypes
<1>2. SuperLine \in ScanLines /\ super = sb
  BY <1>1, HeadsAre, ImageFacts DEF ScanLines
<1>3. SuperLine' = SuperLine /\ image' = image /\ program' = program
  BY AllStay
<1>4. \/ scan' = "groups" /\ csv' = <<SuperLine>>
      \/ scan' = "exit2" /\ csv' = csv
  BY <1>2 DEF scan_sb, SuperLine
<1>5. ScanTypes'
  <2>1. csv' \in Seq(ScanLines)
    <3>1. PICK h \in ScanLines : h = SuperLine
      BY <1>2
    <3>2. <<h>> \in Seq(ScanLines)
      OBVIOUS
    <3>3. QED
      BY <1>1, <1>4, <3>1, <3>2
  <2>2. inode_no' = inode_no /\ stack' = stack /\ scan = "start"
    BY DEF scan_sb
  <2>3. QED
    BY <1>3, <1>4, <2>1, <2>2 DEF ScanInv, ScanTypes, Opening, Within
<1>6. scan' \in Opening => csv' = Opened'
  BY <1>3, <1>4 DEF Opened, Opening
<1>7. ~Among'
  BY <1>4 DEF Among, Within
<1>8. QED
  BY <1>5, <1>6, <1>7 DEF ScanInv

LEMMA scan_groupsKeeps ==
    ASSUME ScanInv, UNCHANGED Fixed, UNCHANGED <<cur_block, cur_entry>>, scan_groups
    PROVE  ScanInv'
<1>1. image \in Images /\ csv \in Seq(ScanLines)
  BY DEF ScanInv, ScanTypes
<1>2. SuperLine \in ScanLines /\ GroupLine \in ScanLines /\ super = sb
  BY <1>1, HeadsAre, ImageFacts DEF ScanLines
<1>3. SuperLine' = SuperLine /\ GroupLine' = GroupLine /\ image' = image /\ program' = program
  BY AllStay
<1>4. scan = "groups" /\ scan' = "bitmaps"
  BY DEF scan_groups
<1>5. csv = <<SuperLine>>
  BY <1>4 DEF ScanInv, Opened, Opening
<1>6. csv' = <<SuperLine, GroupLine>>
  <2>1. /\ sb.s_blocks_count \in Nat /\ sb.s_blocks_per_group \in Nat
        /\ 1 <= sb.s_blocks_count /\ sb.s_blocks_count <= sb.s_blocks_per_group
        /\ sb.s_inodes_count \in Nat /\ sb.s_inodes_per_group \in Nat
        /\ 1 <= sb.s_inodes_count /\ sb.s_inodes_count <= sb.s_inodes_per_group
    BY <1>1, ImageFacts DEF ext2_super_block
  <2>2. /\ InGroup(sb.s_blocks_count, sb.s_blocks_per_group) = sb.s_blocks_count
        /\ InGroup(sb.s_inodes_count, sb.s_inodes_per_group) = sb.s_inodes_count
    BY <2>1, OneGroup
  <2>3. csv' = Append(csv, GroupLine)
    BY <1>2, <2>2 DEF scan_groups, GroupLine
  <2>4. QED
    BY <1>5, <2>3, Two
<1>7. csv' \in Seq(ScanLines)
  BY <1>2, <1>6
<1>8. ScanTypes'
  BY <1>3, <1>4, <1>7 DEF ScanInv, ScanTypes, scan_groups, Opening, Within
<1>9. csv' = Opened'
  BY <1>3, <1>4, <1>6 DEF Opened
<1>10. ~Among'
  BY <1>4 DEF Among, Within
<1>11. QED
  BY <1>8, <1>9, <1>10 DEF ScanInv

\* After the bitmaps lab3a begins with inode 1, lab3a_std with inode 2.
LEMMA BitmapsKeep ==
    ASSUME ScanInv, UNCHANGED Fixed, scan = "bitmaps", scan' = "inodes",
           UNCHANGED <<cur_entry, stack>>,
           csv' = csv \o BFreeLines \o IFreeLines,
           \/ program = "lab3a" /\ inode_no' = inode_no
           \/ program = "lab3a_std" /\ inode_no' = 2
    PROVE  ScanInv'
<1>1. image \in Images /\ csv \in Seq(ScanLines) /\ inode_no = 1
  BY DEF ScanInv, ScanTypes, Opening
<1>2. csv = <<SuperLine, GroupLine>>
  BY DEF ScanInv, Opened, Opening
<1>3. csv' = Heads
  <2>1. <<SuperLine>> \o <<GroupLine>> = <<SuperLine, GroupLine>>
    BY Two
  <2>2. QED
    BY <1>2, <2>1 DEF Heads, After
<1>4. Heads \in Seq(ScanLines) /\ Upon(Heads, 0, 0)
  BY <1>1, HeadsPrinted
<1>5. image' = image /\ program' = program
  BY AllStay
<1>6. inode_no' \in Nat /\ inode_no' \in {1, 2}
  BY <1>1
<1>7. ScanTypes'
  BY <1>3, <1>4, <1>5, <1>6 DEF ScanInv, ScanTypes, Opening, Within
<1>8. ~Within' /\ scan' \notin Opening
  BY DEF Within, Opening
<1>9. SoFar'
  <2>1. CASE program = "lab3a"
    <3>1. (inode_no - 1)' = 0
      BY <1>1, <2>1
    <3>2. (IF Within THEN inode_no ELSE inode_no - 1)' = 0
      BY <1>8, <3>1
    <3>3. QED
      BY <1>3, <1>4, <3>1, <3>2, SoFarNow
  <2>2. CASE program = "lab3a_std"
    <3>1. (inode_no - 1)' = 1
      BY <2>2
    <3>2. (IF Within THEN inode_no ELSE inode_no - 1)' = 1
      BY <1>8, <3>1
    <3>3. \A i \in 0 + 1 .. 1 : ~Scanned(i)
      BY <2>2 DEF Scanned
    <3>4. Upon(Heads, 1, 1)
      BY <1>1, <1>4, <3>3, InodesSkipped
    <3>5. QED
      BY <1>3, <3>1, <3>2, <3>4, SoFarNow
  <2>3. QED
    BY <2>1, <2>2
<1>10. Place'
  BY <1>1, <1>5, <1>8 DEF Place
<1>11. Among' => IF Proceeds THEN Place' /\ SoFar' ELSE scan' # "done" /\ inode_no' <= 2
  BY <1>6, <1>9, <1>10
<1>12. QED
  BY <1>7, <1>8, <1>11, AmongNow

LEMMA FreeEntriesKeeps ==
    ASSUME ScanInv, UNCHANGED Fixed, UNCHANGED stack, program = "lab3a", FreeEntries
    PROVE  ScanInv'
<1>1. /\ scan = "bitmaps" /\ scan' = "inodes" /\ UNCHANGED <<cur_entry, stack>>
      /\ csv' = csv \o BFreeLines \o IFreeLines /\ inode_no' = inode_no
  BY DEF FreeEntries, BFreeLines, IFreeLines
<1>2. QED
  BY <1>1, BitmapsKeep

LEMMA scan_bitmapsKeeps ==
    ASSUME ScanInv, UNCHANGED Fixed, UNCHANGED <<cur_block, cur_entry>>, program = "lab3a_std",
           scan_bitmaps
    PROVE  ScanInv'
<1>1. /\ scan = "bitmaps" /\ scan' = "inodes" /\ UNCHANGED <<cur_entry, stack>>
      /\ csv' = csv \o BFreeLines \o IFreeLines /\ inode_no' = 2
  BY DEF scan_bitmaps, BFreeLines, IFreeLines
<1>2. QED
  BY <1>1, BitmapsKeep

\* The inode that the scan is at, and whether there are lines for it.
LEMMA AtInode ==
    ASSUME ScanInv, Among
    PROVE  /\ image \in Images /\ csv \in Seq(ScanLines) /\ inode = At(inode_no)
           /\ inode_no \in Nat /\ cur_entry \in Nat /\ stack \in Seq(Calls) /\ super = sb
           /\ Within => inode_no \in Numbers
           /\ scan \notin Opening
           /\ Proceeds => Place /\ SoFar
           /\ ~Proceeds => scan # "done" /\ inode_no <= 2
           /\ sb.s_inodes_count \in Nat /\ sb.s_first_ino \in Nat
           /\ Numbers = 1 .. sb.s_inodes_count
           /\ image.inode_bitmap \subseteq Nat
<1>1. image \in Images
  BY DEF ScanInv, ScanTypes
<1>2. /\ sb.s_inodes_count \in Nat /\ sb.s_first_ino \in Nat /\ super = sb
      /\ Numbers = 1 .. sb.s_inodes_count /\ image.inode_bitmap \subseteq 0 .. BitmapBits - 1
  BY <1>1, ImageFacts DEF ext2_super_block
<1>3. image.inode_bitmap \subseteq Nat
  BY <1>2, BitmapAssumption
<1>4. scan \notin Opening
  BY DEF Among, Within, Opening
<1>5. QED
  BY <1>1, <1>2, <1>3, <1>4 DEF ScanInv, ScanTypes, inode, At

\* Nothing is printed, and the scan stays with the inode.
LEMMA WithinKeeps ==
    ASSUME ScanInv, UNCHANGED Fixed, Within, Within', UNCHANGED <<csv, inode_no>>,
           cur_entry' \in Nat, stack' \in Seq(Calls),
           scan' = "directory" /\ program = "lab3a_std" => stack' # <<>>
    PROVE  ScanInv'
<1>1. image' = image /\ program' = program /\ Numbers' = Numbers /\ sb' = sb
      /\ \A n : (Scanned(n)' <=> Scanned(n)) /\ (Walked(n)' <=> Walked(n))
  BY AllStay
<1>2. Among /\ scan \notin Opening /\ scan' \notin Opening /\ scan' # "done"
  BY DEF Among, Within, Opening
<1>3. ScanTypes'
  BY <1>1, <1>2 DEF ScanInv, ScanTypes, Within
<1>4. ASSUME Proceeds PROVE Place' /\ SoFar'
  <2>1. Place /\ SoFar
    BY <1>2, <1>4, AtInode
  <2>2. Place'
    BY <1>1, <1>2, <2>1 DEF Place
  <2>3. PICK n : n = inode_no
    OBVIOUS
  <2>4. Upon(csv, n, n - 1)
    BY <2>1, <2>3 DEF SoFar
  <2>5. (IF Within THEN inode_no ELSE inode_no - 1)' = n /\ (inode_no - 1)' = n - 1
    BY <2>3
  <2>6. SoFar'
    <3>1. PICK s : s = csv
      OBVIOUS
    <3>2. Upon(s, n, n - 1) /\ csv' = s
      BY <2>4, <3>1
    <3>3. QED
      BY <2>5, <3>2, SoFarNow
  <2>7. QED
    BY <2>2, <2>6
<1>5. ASSUME ~Proceeds PROVE scan' # "done" /\ inode_no' <= 2
  BY <1>2, <1>5, AtInode
<1>6. QED
  BY <1>2, <1>3, <1>4, <1>5, AmongNow

\* An entry is printed.
LEMMA EntryKeepsScan ==
    ASSUME ScanInv, UNCHANGED Fixed, scan = "directory", scan' \in {"directory", "endless"},
           NEW l \in EntryLines, csv' = csv \/ csv' = Append(csv, l), UNCHANGED inode_no,
           cur_entry' \in Nat, stack' \in Seq(Calls), program = "lab3a_std" => stack' # <<>>
    PROVE  ScanInv'
<1>1. image' = image /\ program' = program /\ Numbers' = Numbers /\ sb' = sb
      /\ \A n : (Scanned(n)' <=> Scanned(n)) /\ (Walked(n)' <=> Walked(n))
  BY AllStay
<1>2. Among /\ Within /\ scan \notin Opening /\ scan' \notin Opening /\ scan' # "done"
  BY DEF Among, Within, Opening
<1>3. Among' => Within'
  BY <1>2 DEF Among, Within
<1>4. PICK s \in Seq(ScanLines) : s = csv
  BY <1>2, AtInode
<1>5. Append(s, l) \in Seq(ScanLines)
  <2>1. l \in ScanLines
    BY DEF ScanLines
  <2>2. QED
    BY <2>1
<1>6. PICK t \in Seq(ScanLines) : t = csv' /\ (t = s \/ t = Append(s, l))
  BY <1>4, <1>5
<1>7. ScanTypes'
  BY <1>1, <1>2, <1>6 DEF ScanInv, ScanTypes, Within
<1>8. ASSUME Proceeds, Within' PROVE Place' /\ SoFar'
  <2>1. Place /\ SoFar
    BY <1>2, <1>8, AtInode
  <2>2. Place'
    BY <1>1, <1>2, <2>1 DEF Place
  <2>3. PICK n : n = inode_no
    OBVIOUS
  <2>4. Upon(s, n, n - 1)
    BY <1>2, <1>4, <2>1, <2>3 DEF SoFar
  <2>5. (IF Within THEN inode_no ELSE inode_no - 1)' = n /\ (inode_no - 1)' = n - 1
    BY <1>8, <2>3
  <2>6. Upon(Append(s, l), n, n - 1)
    BY <2>4, EntryPrinted
  <2>7. Upon(t, n, n - 1) /\ csv' = t
    BY <1>6, <2>4, <2>6
  <2>8. SoFar'
    BY <2>5, <2>7, SoFarNow
  <2>9. QED
    BY <2>2, <2>8
<1>9. ASSUME ~Proceeds PROVE scan' # "done" /\ inode_no' <= 2
  BY <1>2, <1>9, AtInode
<1>10. QED
  BY <1>2, <1>3, <1>7, <1>8, <1>9, AmongNow

LEMMA ReadEntryKeeps ==
    ASSUME ScanInv, UNCHANGED Fixed, UNCHANGED stack, program = "lab3a", ReadEntry
    PROVE  ScanInv'
<1>1. scan = "directory" /\ scan' \in {"directory", "endless"} /\ inode_no' = inode_no
  BY DEF ReadEntry
<1>2. Among /\ Within
  BY <1>1 DEF Among, Within
<1>3. image \in Images /\ inode_no \in Nat /\ cur_entry \in Nat /\ stack \in Seq(Calls) /\ csv \in Seq(ScanLines)
  BY <1>2, AtInode
<1>4. PICK e \in ext2_dir_entry : e = EntryAt(inode.i_block[cur_block], cur_entry)
  BY <1>3, EntriesType
<1>5. PICK l \in EntryLines : l = DirectoryEntry(inode_no, cur_entry, e.inode, e.name)
  BY <1>3, EntryType
<1>6. csv' = csv \o EntryLine(cur_entry, e) /\ cur_entry' = cur_entry + e.rec_len
  BY <1>4 DEF ReadEntry
<1>7. cur_entry' \in Nat
  BY <1>3, <1>6 DEF ext2_dir_entry
<1>8. csv' = csv \/ csv' = Append(csv, l)
  <2>1. EntryLine(cur_entry, e) = <<>> \/ EntryLine(cur_entry, e) = <<l>>
    BY <1>5 DEF EntryLine
  <2>2. csv \o <<>> = csv
    BY <1>3, ConcatEmptySeq
  <2>3. csv \o <<l>> = Append(csv, l)
    <3>1. l \in ScanLines
      BY DEF ScanLines
    <3>2. QED
      BY <1>3, <3>1
  <2>4. QED
    BY <1>6, <2>1, <2>2, <2>3
<1>9. stack' \in Seq(Calls) /\ (program = "lab3a_std" => stack' # <<>>)
  BY <1>3
<1>10. QED
  BY <1>1, <1>7, <1>8, <1>9, EntryKeepsScan

LEMMA NextBlockKeeps ==
    ASSUME ScanInv, UNCHANGED Fixed, UNCHANGED stack, program = "lab3a",
           NextBlock \/ EndDirectory
    PROVE  ScanInv'
<1>1. /\ scan = "directory" /\ scan' \in {"directory", "indirect"}
      /\ cur_entry' \in {0, cur_entry} /\ UNCHANGED <<csv, inode_no>>
  BY DEF NextBlock, EndDirectory
<1>2. Among /\ Within /\ Within'
  BY <1>1 DEF Among, Within
<1>3. cur_entry \in Nat /\ stack \in Seq(Calls)
  BY <1>2, AtInode
<1>4. QED
  BY <1>1, <1>2, <1>3, WithinKeeps

\* An inode without a line is passed over, by either program.
LEMMA SkipKeeps ==
    ASSUME ScanInv, UNCHANGED Fixed, scan = "inodes", scan' = "inodes", inode_no' = inode_no + 1,
           UNCHANGED <<csv, cur_entry, stack>>,
           Proceeds => ~Scanned(inode_no) /\ (program = "lab3a_std" => 1 \notin image.inode_bitmap
                                                                       \/ inode_no # 2),
           ~Proceeds => inode_no < 2
    PROVE  ScanInv'
<1>1. image' = image /\ program' = program /\ Numbers' = Numbers /\ sb' = sb
  BY AllStay
<1>2. Among /\ ~Within /\ ~Within' /\ scan' \notin Opening /\ scan' # "done"
  BY DEF Among, Within, Opening
<1>3. PICK n \in Nat : n = inode_no
  BY <1>2, AtInode
<1>4. ScanTypes'
  BY <1>1, <1>2, <1>3 DEF ScanInv, ScanTypes, Within, Opening
<1>5. ASSUME Proceeds PROVE Place' /\ SoFar'
  <2>1. Place /\ SoFar
    BY <1>2, <1>5, AtInode
  <2>2. Place'
    BY <1>1, <1>2, <1>3, <1>5, <2>1, AtInode DEF Place
  <2>3. PICK s \in Seq(ScanLines) : s = csv
    BY <1>2, AtInode
  <2>4. n - 1 \in Nat /\ n - 1 <= n /\ \A i \in (n - 1) + 1 .. n : i = n
    BY <1>3, <2>1 DEF Place
  <2>5. Upon(s, n - 1, n - 1)
    BY <1>2, <1>3, <2>1, <2>3 DEF SoFar
  <2>6. \A i \in (n - 1) + 1 .. n : ~Scanned(i)
    BY <1>3, <1>5, <2>4
  <2>7. image \in Images
    BY <1>2, AtInode
  <2>8. Upon(s, n, n)
    BY <2>4, <2>5, <2>6, <2>7, InodesSkipped
  <2>9. (IF Within THEN inode_no ELSE inode_no - 1)' = n /\ (inode_no - 1)' = n /\ csv' = s
    BY <1>2, <1>3, <2>3
  <2>10. SoFar'
    BY <2>8, <2>9, SoFarNow
  <2>11. QED
    BY <2>2, <2>10
<1>6. ASSUME ~Proceeds PROVE scan' # "done" /\ inode_no' <= 2
  BY <1>2, <1>3, <1>6
<1>7. QED
  BY <1>2, <1>4, <1>5, <1>6, AmongNow

LEMMA SkipInodeKeeps ==
    ASSUME ScanInv, UNCHANGED Fixed, UNCHANGED stack, program = "lab3a", SkipInode
    PROVE  ScanInv'
<1>1. /\ scan = "inodes" /\ scan' = "inodes" /\ inode_no' = inode_no + 1
      /\ UNCHANGED <<csv, cur_entry, stack>> /\ ~InUse(inode)
  BY DEF SkipInode
<1>2. Among
  BY <1>1 DEF Among
<1>3. ~Scanned(inode_no)
  BY <1>1, <1>2, AtInode DEF Scanned
<1>4. Proceeds
  BY DEF Proceeds
<1>5. program # "lab3a_std"
  OBVIOUS
<1>6. QED
  BY <1>1, <1>3, <1>4, <1>5, SkipKeeps

\* The root comes again.
LEMMA RoundKeeps ==
    ASSUME ScanInv, UNCHANGED Fixed, Among, scan' = "endless", csv' \in Seq(ScanLines),
           inode_no' \in Nat, UNCHANGED <<cur_entry, stack>>
    PROVE  ScanInv'
<1>1. image' = image /\ program' = program
  BY AllStay
<1>2. scan' \notin Opening /\ ~Within' /\ ~Among'
  BY DEF Among, Within, Opening
<1>3. ScanTypes'
  BY <1>1, <1>2 DEF ScanInv, ScanTypes, Within, Opening
<1>4. QED
  BY <1>2, <1>3, AmongNow

LEMMA SkipFreeKeeps ==
    ASSUME ScanInv, UNCHANGED Fixed, UNCHANGED <<cur_block, cur_entry>>, program = "lab3a_std", SkipFree
    PROVE  ScanInv'
<1>1. /\ scan = "inodes" /\ scan' \in {"inodes", "endless"} /\ inode_no' = inode_no + 1
      /\ UNCHANGED <<csv, cur_entry, stack>> /\ inode_no - 1 \notin image.inode_bitmap
  BY DEF SkipFree, GoOn
<1>2. Among
  BY <1>1 DEF Among
<1>3. CASE scan' = "endless"
  <2>1. csv' \in Seq(ScanLines) /\ inode_no' \in Nat
    BY <1>1, <1>2, AtInode
  <2>2. QED
    BY <1>1, <1>2, <1>3, <2>1, RoundKeeps
<1>4. SUFFICES ASSUME scan' = "inodes" PROVE ScanInv'
  BY <1>1, <1>3
<1>5. /\ scan = "inodes" /\ scan' = "inodes" /\ inode_no' = inode_no + 1
      /\ UNCHANGED <<csv, cur_entry, stack>> /\ inode_no - 1 \notin image.inode_bitmap
  BY <1>1, <1>4
<1>6. ~Scanned(inode_no)
  BY <1>5 DEF Scanned
<1>7. inode_no = 2 => 1 \notin image.inode_bitmap
  BY <1>5
<1>8. ASSUME ~Proceeds PROVE inode_no < 2
  <2>1. inode_no \in Nat /\ inode_no <= 2
    BY <1>2, <1>8, AtInode
  <2>2. inode_no # 2
    BY <1>7, <1>8 DEF Proceeds
  <2>3. QED
    BY <2>1, <2>2
<1>9. QED
  BY <1>5, <1>6, <1>7, <1>8, SkipKeeps

\* The line of an inode is printed, and what is in it is to be scanned.
LEMMA LinePrintedKeeps ==
    ASSUME ScanInv, UNCHANGED Fixed, scan = "inodes", scan' \in {"directory", "indirect", "crashed"},
           inode_no \in Numbers, Proceeds => Scanned(inode_no),
           program = "lab3a" => Walked(inode_no),
           csv' = Append(csv, LineOf(inode_no)), UNCHANGED inode_no,
           cur_entry' \in Nat, stack' \in Seq(Calls),
           scan' = "directory" /\ program = "lab3a_std" => stack' # <<>>
    PROVE  ScanInv'
<1>1. image' = image /\ program' = program /\ Numbers' = Numbers /\ sb' = sb
      /\ \A n : (Scanned(n)' <=> Scanned(n)) /\ (Walked(n)' <=> Walked(n))
  BY AllStay
<1>2. Among /\ ~Within /\ scan' \notin Opening /\ scan' # "done" /\ (Among' => Within')
  BY DEF Among, Within, Opening
<1>3. PICK n \in Numbers : n = inode_no /\ n \in Nat /\ image \in Images
  BY <1>2, AtInode
<1>4. PICK s \in Seq(ScanLines) : s = csv
  BY <1>2, AtInode
<1>5. PICK l \in ScanLines : l = LineOf(n)
  BY <1>3, LineOfIs DEF ScanLines
<1>6. PICK t \in Seq(ScanLines) : t = csv' /\ t = Append(s, l)
  <2>1. Append(s, l) \in Seq(ScanLines)
    OBVIOUS
  <2>2. QED
    BY <1>3, <1>4, <1>5, <2>1
<1>7. ScanTypes'
  BY <1>1, <1>2, <1>3, <1>6 DEF ScanInv, ScanTypes, Within
<1>8. ASSUME Proceeds, Within' PROVE Place' /\ SoFar'
  <2>1. Place /\ SoFar /\ Scanned(n)
    BY <1>2, <1>3, <1>8, AtInode
  <2>2. Place'
    BY <1>1, <1>2, <1>3, <2>1 DEF Place
  <2>3. Upon(s, n - 1, n - 1)
    BY <1>2, <1>3, <1>4, <2>1 DEF SoFar
  <2>4. Upon(Append(s, LineOf(n)), n, n - 1)
    BY <1>3, <2>1, <2>3, InodePrinted
  <2>5. Upon(t, n, n - 1)
    BY <1>5, <1>6, <2>4
  <2>6. (IF Within THEN inode_no ELSE inode_no - 1)' = n /\ (inode_no - 1)' = n - 1 /\ csv' = t
    BY <1>3, <1>6, <1>8
  <2>7. SoFar'
    BY <2>5, <2>6, SoFarNow
  <2>8. QED
    BY <2>2, <2>7
<1>9. ASSUME ~Proceeds PROVE scan' # "done" /\ inode_no' <= 2
  BY <1>2, <1>9, AtInode
<1>10. QED
  BY <1>2, <1>7, <1>8, <1>9, AmongNow

\* In lab3a there is nothing to be scanned in what is no file and no directory.
LEMMA OtherPrintedKeeps ==
    ASSUME ScanInv, UNCHANGED Fixed, scan = "inodes", scan' = "inodes", program = "lab3a",
           inode_no \in Numbers, Scanned(inode_no), ~Walked(inode_no),
           csv' = Append(csv, LineOf(inode_no)), inode_no' = inode_no + 1,
           cur_entry' \in Nat, UNCHANGED stack
    PROVE  ScanInv'
<1>1. image' = image /\ program' = program /\ Numbers' = Numbers /\ sb' = sb
  BY AllStay
<1>2. Among /\ ~Within /\ ~Within' /\ scan' \notin Opening /\ scan' # "done" /\ Proceeds
  BY DEF Among, Within, Opening, Proceeds
<1>3. PICK n \in Numbers : n = inode_no /\ n \in Nat /\ image \in Images
  BY <1>2, AtInode
<1>4. PICK s \in Seq(ScanLines) : s = csv
  BY <1>2, AtInode
<1>5. PICK l \in ScanLines : l = LineOf(n)
  BY <1>3, LineOfIs DEF ScanLines
<1>6. PICK t \in Seq(ScanLines) : t = csv' /\ t = Append(s, l)
  <2>1. Append(s, l) \in Seq(ScanLines)
    OBVIOUS
  <2>2. QED
    BY <1>3, <1>4, <1>5, <2>1
<1>7. ScanTypes'
  BY <1>1, <1>2, <1>3, <1>6 DEF ScanInv, ScanTypes, Within, Opening
<1>8. Place /\ SoFar
  BY <1>2, AtInode
<1>9. Place'
  BY <1>1, <1>2, <1>3, <1>8 DEF Place
<1>10. Upon(s, n - 1, n - 1)
  BY <1>2, <1>3, <1>4, <1>8 DEF SoFar
<1>11. Upon(Append(s, LineOf(n)), n, n - 1)
  BY <1>3, <1>10, InodePrinted
<1>12. Upon(t, n, n)
  BY <1>3, <1>5, <1>6, <1>11, TreesSkipped
<1>13. (IF Within THEN inode_no ELSE inode_no - 1)' = n /\ (inode_no - 1)' = n /\ csv' = t
  BY <1>2, <1>3, <1>6
<1>14. SoFar'
  BY <1>12, <1>13, SoFarNow
<1>15. QED
  BY <1>2, <1>7, <1>9, <1>14, AmongNow

LEMMA InodeSummaryKeeps ==
    ASSUME ScanInv, UNCHANGED Fixed, UNCHANGED stack, program = "lab3a", InodeSummary
    PROVE  ScanInv'
<1>1. scan = "inodes" /\ inode_no <= sb.s_inodes_count /\ InUse(inode) /\ cur_entry' = 0
  BY DEF InodeSummary
<1>2. Among /\ Proceeds
  BY <1>1 DEF Among, Proceeds
<1>3. Place /\ inode = At(inode_no) /\ stack \in Seq(Calls) /\ Numbers = 1 .. sb.s_inodes_count
      /\ inode_no \in Nat
  BY <1>2, AtInode
<1>4. inode_no \in Numbers
  BY <1>1, <1>3 DEF Place
<1>5. Scanned(inode_no)
  BY <1>1, <1>3, <1>4 DEF Scanned
<1>6. csv' = Append(csv, LineOf(inode_no))
  BY <1>3 DEF InodeSummary, LineOf, ShownAddresses
<1>7. CASE Walked(inode_no)
  <2>1. FileFormat(inode.i_mode) \in {"d", "f"}
    BY <1>3, <1>7 DEF Walked, FileFormat
  <2>2. scan' \in {"directory", "indirect"} /\ inode_no' = inode_no
    BY <2>1 DEF InodeSummary
  <2>3. stack' \in Seq(Calls) /\ cur_entry' \in Nat /\ program # "lab3a_std"
    BY <1>1, <1>3
  <2>4. QED
    BY <1>1, <1>4, <1>5, <1>6, <1>7, <2>2, <2>3, LinePrintedKeeps
<1>8. CASE ~Walked(inode_no)
  <2>1. FileFormat(inode.i_mode) \notin {"d", "f"}
    BY <1>3, <1>8 DEF Walked, FileFormat
  <2>2. scan' = "inodes" /\ inode_no' = inode_no + 1
    BY <2>1 DEF InodeSummary
  <2>3. cur_entry' \in Nat
    BY <1>1
  <2>4. QED
    BY <1>1, <1>4, <1>5, <1>6, <1>8, <2>2, <2>3, OtherPrintedKeeps
<1>9. QED
  BY <1>7, <1>8

\* The trees are printed, and the next inode is looked at.
LEMMA TreesKeep ==
    ASSUME ScanInv, UNCHANGED Fixed, scan = "indirect", scan' = "inodes",
           csv' = After(csv, TreesOf(inode_no)), UNCHANGED <<cur_entry, stack>>,
           IF program = "lab3a" THEN inode_no' = inode_no + 1 ELSE inode_no' = NextInode(inode_no)
    PROVE  ScanInv'
<1>1. image' = image /\ program' = program /\ Numbers' = Numbers /\ sb' = sb
  BY AllStay
<1>2. Among /\ Within /\ ~Within' /\ scan' \notin Opening /\ scan' # "done"
  BY DEF Among, Within, Opening
<1>3. PICK n \in Numbers : n = inode_no /\ n \in Nat /\ image \in Images
  BY <1>2, AtInode
<1>4. PICK s \in Seq(ScanLines) : s = csv
  BY <1>2, AtInode
<1>5. PICK t \in Seq(ScanLines) : t = After(s, TreesOf(n))
  <2>1. TreesOf(n) \in Seq(ScanLines)
    BY <1>3, <1>4, JoinsTrees
  <2>2. After(s, TreesOf(n)) \in Seq(ScanLines)
    BY <2>1, AfterIs
  <2>3. QED
    BY <2>2
<1>6. /\ 1 <= n /\ n <= sb.s_inodes_count /\ sb.s_inodes_count \in Nat /\ sb.s_first_ino \in Nat
      /\ super = sb
  BY <1>2, <1>3, AtInode, NumberIs
<1>7. IF program = "lab3a_std" /\ n = 2 THEN inode_no' = sb.s_first_ino ELSE inode_no' = n + 1
  BY <1>3, <1>6 DEF NextInode, ScanInv, ScanTypes, Programs
<1>8. csv' = t /\ inode_no' \in Nat
  BY <1>3, <1>4, <1>5, <1>6, <1>7
<1>9. ScanTypes'
  BY <1>1, <1>2, <1>8 DEF ScanInv, ScanTypes, Within, Opening
<1>10. ASSUME Proceeds PROVE Place' /\ SoFar'
  <2>1. Place /\ SoFar /\ Scanned(n) /\ (program = "lab3a" => Walked(n))
    BY <1>2, <1>3, <1>10, AtInode DEF Place
  <2>2. program = "lab3a_std" /\ n = 2 => sb.s_first_ino > 2 /\ 1 \in image.inode_bitmap
    BY <1>6, <1>10, <2>1 DEF Proceeds, Scanned
  <2>3. Place'
    <3>1. inode_no >= 1 /\ (program = "lab3a_std" =>
             inode_no >= 2 /\ (inode_no = 2 \/ inode_no >= sb.s_first_ino \/ 1 \notin image.inode_bitmap))
      BY <2>1 DEF Place
    <3>2. inode_no' >= 1 /\ (program = "lab3a_std" =>
             inode_no' >= 2 /\ (inode_no' >= sb.s_first_ino \/ 1 \notin image.inode_bitmap))
      BY <1>3, <1>6, <1>7, <2>2, <3>1
    <3>3. QED
      BY <1>1, <1>2, <3>2 DEF Place
  <2>4. Upon(s, n, n - 1)
    BY <1>2, <1>3, <1>4, <2>1 DEF SoFar
  <2>5. Upon(t, n, n)
    BY <1>3, <1>5, <2>1, <2>4, TreesPrinted
  <2>6. PICK m \in Nat : m = inode_no' - 1 /\ n <= m /\ \A i \in n + 1 .. m : ~Scanned(i)
    <3>1. CASE program = "lab3a_std" /\ n = 2
      <4>1. inode_no' = sb.s_first_ino /\ sb.s_first_ino > 2 /\ 1 \in image.inode_bitmap
        BY <1>7, <2>2, <3>1
      <4>2. inode_no' - 1 \in Nat /\ n <= inode_no' - 1
        BY <1>6, <3>1, <4>1
      <4>3. \A i \in n + 1 .. inode_no' - 1 : ~Scanned(i)
        BY <1>6, <3>1, <4>1 DEF Scanned
      <4>4. QED
        BY <4>2, <4>3
    <3>2. CASE ~(program = "lab3a_std" /\ n = 2)
      <4>1. inode_no' - 1 = n /\ n \in Nat /\ n <= n /\ \A i \in n + 1 .. n : FALSE
        BY <1>3, <1>7, <3>2
      <4>2. QED
        BY <4>1
    <3>3. QED
      BY <3>1, <3>2
  <2>7. Upon(t, m, m)
    BY <1>3, <2>5, <2>6, InodesSkipped
  <2>8. (IF Within THEN inode_no ELSE inode_no - 1)' = m /\ (inode_no - 1)' = m /\ csv' = t
    BY <1>2, <1>8, <2>6
  <2>9. SoFar'
    BY <2>7, <2>8, SoFarNow
  <2>10. QED
    BY <2>3, <2>9
<1>11. ASSUME ~Proceeds PROVE scan' # "done" /\ inode_no' <= 2
  <2>1. n <= 2
    BY <1>2, <1>3, <1>11, AtInode
  <2>2. program # "lab3a" /\ sb.s_first_ino <= 2
    BY <1>6, <1>11 DEF Proceeds
  <2>3. program = "lab3a_std"
    BY <2>2 DEF ScanInv, ScanTypes, Programs
  <2>4. CASE n = 2
    BY <1>2, <1>7, <2>2, <2>3, <2>4
  <2>5. CASE n # 2
    BY <1>2, <1>3, <1>7, <2>1, <2>5
  <2>6. QED
    BY <2>4, <2>5
<1>12. QED
  BY <1>2, <1>9, <1>10, <1>11, AmongNow

LEMMA IndirectBlocksPrint ==
    ASSUME ScanInv, program = "lab3a", IndirectBlocks
    PROVE  /\ scan = "indirect" /\ scan' = "inodes" /\ inode_no' = inode_no + 1 /\ cur_entry' = cur_entry
           /\ csv' = After(csv, TreesOf(inode_no))
<1>1. scan = "indirect" /\ scan' = "inodes" /\ inode_no' = inode_no + 1 /\ cur_entry' = cur_entry
  BY DEF IndirectBlocks
<1>2. Among /\ Within
  BY <1>1 DEF Among, Within
<1>3. image \in Images /\ inode_no \in Numbers /\ csv \in Seq(ScanLines)
  BY <1>2, AtInode
<1>4. /\ indirect1(inode.i_block[EXT2_IND_BLOCK], 12) = Tree1(inode_no, At(inode_no).i_block[12], 12)
      /\ indirect2(inode.i_block[EXT2_DIND_BLOCK], 268) = Tree2(inode_no, At(inode_no).i_block[13], 268)
      /\ indirect3(inode.i_block[EXT2_TIND_BLOCK], 65804) = Tree3(inode_no, At(inode_no).i_block[14], 65804)
  BY <1>3, PrintsTrees DEF Programs
<1>5. csv' = After(After(After(csv, Tree1(inode_no, At(inode_no).i_block[12], 12)),
                         Tree2(inode_no, At(inode_no).i_block[13], 268)),
                   Tree3(inode_no, At(inode_no).i_block[14], 65804))
  BY <1>4, SMTT(30) DEF IndirectBlocks, After
<1>6. csv' = After(csv, TreesOf(inode_no))
  BY <1>3, <1>5, JoinsTrees
<1>7. QED
  BY <1>1, <1>6

LEMMA IndirectBlocksKeeps ==
    ASSUME ScanInv, UNCHANGED Fixed, UNCHANGED stack, program = "lab3a", IndirectBlocks
    PROVE  ScanInv'
BY IndirectBlocksPrint, TreesKeep

LEMMA ScanIndirectsPrint ==
    ASSUME ScanInv, program = "lab3a_std", ScanIndirects
    PROVE  /\ scan = "indirect" /\ GoOn(NextInode(inode_no)) /\ stack' = stack
           /\ csv' = After(csv, TreesOf(inode_no))
<1>1. scan = "indirect" /\ GoOn(NextInode(inode_no)) /\ stack' = stack
  BY DEF ScanIndirects
<1>2. Among /\ Within
  BY <1>1 DEF Among, Within
<1>3. image \in Images /\ inode_no \in Numbers /\ csv \in Seq(ScanLines)
  BY <1>2, AtInode
<1>4. /\ scan_indirects1(inode.i_block[EXT2_IND_BLOCK], 12) = Tree1(inode_no, At(inode_no).i_block[12], 12)
      /\ scan_indirects2(inode.i_block[EXT2_DIND_BLOCK], 268) = Tree2(inode_no, At(inode_no).i_block[13], 268)
      /\ scan_indirects3(inode.i_block[EXT2_TIND_BLOCK], 65804) = Tree3(inode_no, At(inode_no).i_block[14], 65804)
  BY <1>3, PrintsTrees DEF Programs
<1>5. csv' = After(After(After(csv, Tree1(inode_no, At(inode_no).i_block[12], 12)),
                         Tree2(inode_no, At(inode_no).i_block[13], 268)),
                   Tree3(inode_no, At(inode_no).i_block[14], 65804))
  BY <1>4, SMTT(40) DEF ScanIndirects, After
<1>6. csv' = After(csv, TreesOf(inode_no))
  BY <1>3, <1>5, JoinsTrees
<1>7. QED
  BY <1>1, <1>6

LEMMA ScanIndirectsKeeps ==
    ASSUME ScanInv, UNCHANGED Fixed, UNCHANGED <<cur_block, cur_entry>>, program = "lab3a_std",
           ScanIndirects
    PROVE  ScanInv'
<1>1. /\ program # "lab3a" /\ scan = "indirect" /\ scan' \in {"inodes", "endless"}
      /\ inode_no' = NextInode(inode_no) /\ stack' = stack /\ csv' = After(csv, TreesOf(inode_no))
  BY ScanIndirectsPrint DEF GoOn
<1>2. CASE scan' = "inodes"
  BY <1>1, <1>2, TreesKeep
<1>3. CASE scan' = "endless"
  <2>1. Among
    BY <1>1 DEF Among, Within
  <2>2. PICK n \in Numbers : n = inode_no /\ n \in Nat /\ image \in Images
    BY <1>1, <2>1, AtInode DEF Within
  <2>3. PICK s \in Seq(ScanLines) : s = csv
    BY <2>1, AtInode
  <2>4. TreesOf(n) \in Seq(ScanLines)
    BY <2>2, <2>3, JoinsTrees
  <2>5. After(s, TreesOf(n)) \in Seq(ScanLines)
    BY <2>4, AfterIs
  <2>6. csv' \in Seq(ScanLines)
    BY <1>1, <2>2, <2>3, <2>5
  <2>7. inode_no' \in Nat
    BY <1>1, <2>1, AtInode DEF NextInode
  <2>8. QED
    BY <1>3, <1>1, <2>1, <2>6, <2>7, RoundKeeps
<1>4. QED
  BY <1>1, <1>2, <1>3

\* The last inode is behind the scan, or it fails.
LEMMA EndKeeps ==
    ASSUME ScanInv, UNCHANGED Fixed, Among, UNCHANGED <<csv, inode_no, cur_entry, stack>>,
           \/ scan' \in {"exit2", "crashed"}
           \/ /\ scan = "inodes" /\ scan' = "done"
              /\ inode_no > sb.s_inodes_count - (IF program = "lab3a" THEN 0 ELSE 1)
    PROVE  ScanInv'
<1>1. image' = image /\ program' = program /\ Numbers' = Numbers /\ sb' = sb
  BY AllStay
<1>2. scan' \notin Opening /\ ~Within'
  BY DEF Within, Opening
<1>3. ScanTypes'
  BY <1>1, <1>2 DEF ScanInv, ScanTypes, Within, Opening
<1>4. CASE scan' \in {"exit2", "crashed"}
  <2>1. ~Among'
    BY <1>2, <1>4 DEF Among
  <2>2. QED
    BY <1>2, <1>3, <2>1, AmongNow
<1>5. CASE /\ scan = "inodes" /\ scan' = "done"
           /\ inode_no > sb.s_inodes_count - (IF program = "lab3a" THEN 0 ELSE 1)
  <2>1. Proceeds
    <3>1. SUFFICES ASSUME ~Proceeds PROVE FALSE
      OBVIOUS
    <3>2. inode_no <= 2 /\ inode_no \in Nat /\ sb.s_inodes_count \in Nat
      BY <3>1, AtInode
    <3>3. program # "lab3a" /\ sb.s_inodes_count > 2
      BY <3>1, <3>2 DEF Proceeds
    <3>4. QED
      BY <1>5, <3>2, <3>3
  <2>2. Place /\ SoFar
    BY <2>1, AtInode
  <2>3. Place'
    BY <1>1, <1>2, <1>5, <2>2 DEF Place
  <2>4. PICK n, s : n = inode_no /\ s = csv
    OBVIOUS
  <2>5. ~Within
    BY <1>5 DEF Within
  <2>6. Upon(s, n - 1, n - 1)
    BY <2>2, <2>4, <2>5 DEF SoFar
  <2>7. (IF Within THEN inode_no ELSE inode_no - 1)' = n - 1 /\ (inode_no - 1)' = n - 1 /\ csv' = s
    BY <1>2, <2>4
  <2>8. SoFar'
    BY <2>6, <2>7, SoFarNow
  <2>9. QED
    BY <1>2, <1>3, <2>1, <2>3, <2>8, AmongNow
<1>6. QED
  BY <1>4, <1>5

LEMMA AllInodesKeeps ==
    ASSUME ScanInv, UNCHANGED Fixed, UNCHANGED stack, program = "lab3a", AllInodes
    PROVE  ScanInv'
<1>1. /\ scan = "inodes" /\ scan' = "done" /\ inode_no > sb.s_inodes_count
      /\ UNCHANGED <<csv, inode_no, cur_entry, stack>>
  BY DEF AllInodes
<1>2. Among
  BY <1>1 DEF Among
<1>3. sb.s_inodes_count \in Nat
  BY <1>2, AtInode
<1>4. inode_no > sb.s_inodes_count - (IF program = "lab3a" THEN 0 ELSE 1)
  BY <1>1, <1>3
<1>5. QED
  BY <1>1, <1>2, <1>4, EndKeeps

LEMMA free_allKeeps ==
    ASSUME ScanInv, UNCHANGED Fixed, UNCHANGED <<cur_block, cur_entry>>, program = "lab3a_std",
           free_all \/ CorruptedBitmap \/ ReadBeyond
    PROVE  ScanInv'
<1>1. Among /\ UNCHANGED <<csv, inode_no, cur_entry, stack>>
  BY DEF free_all, CorruptedBitmap, ReadBeyond, Among, Within
<1>2. CASE scan' \in {"exit2", "crashed"}
  BY <1>1, <1>2, EndKeeps
<1>3. CASE scan' \notin {"exit2", "crashed"}
  <2>1. scan = "inodes" /\ scan' = "done" /\ inode_no >= super.s_inodes_count
    BY <1>3 DEF free_all, CorruptedBitmap, ReadBeyond
  <2>2. super = sb /\ sb.s_inodes_count \in Nat /\ inode_no \in Nat
    BY <1>1, AtInode
  <2>3. inode_no > sb.s_inodes_count - (IF program = "lab3a" THEN 0 ELSE 1)
    BY <2>1, <2>2
  <2>4. QED
    BY <1>1, <2>1, <2>3, EndKeeps
<1>4. QED
  BY <1>2, <1>3

LEMMA CallType ==
    ASSUME NEW level \in 0 .. 3, NEW left \in Seq(Nat), NEW size \in Nat
    PROVE  Call(level, left, size) \in Calls
BY DEF Call, Calls

LEMMA PrintInodeKeeps ==
    ASSUME ScanInv, UNCHANGED Fixed, UNCHANGED <<cur_block, cur_entry>>, program = "lab3a_std",
           PrintInode
    PROVE  ScanInv'
<1>1. /\ scan = "inodes" /\ inode_no' = inode_no /\ inode_no < super.s_inodes_count
      /\ inode_no - 1 \in image.inode_bitmap
      /\ scan' \in {"directory", "indirect", "crashed"}
      /\ scan' = "directory" => inode.i_mode = "dir"
  BY DEF PrintInode
<1>2. Among
  BY <1>1 DEF Among
<1>3. /\ image \in Images /\ inode = At(inode_no) /\ inode_no \in Nat /\ super = sb
      /\ cur_entry \in Nat /\ sb.s_inodes_count \in Nat /\ Numbers = 1 .. sb.s_inodes_count
      /\ image.inode_bitmap \subseteq Nat
  BY <1>2, AtInode
<1>4. inode_no \in Numbers
  <2>1. inode_no - 1 \in Nat
    BY <1>1, <1>3
  <2>2. QED
    BY <1>1, <1>3, <2>1
<1>5. Proceeds => Scanned(inode_no)
  <2>1. Proceeds => Place
    BY <1>2, AtInode
  <2>2. QED
    BY <1>1, <1>3, <1>4, <2>1 DEF Place, Scanned
<1>6. csv' = Append(csv, LineOf(inode_no))
  BY <1>3 DEF PrintInode, LineOf, ShownAddresses
<1>7. PICK a \in Seq(Nat) : a = Addresses(inode) /\ Len(a) = 15
  BY <1>3, <1>4, AddressesAre
<1>8. stack' \in Seq(Calls) /\ (scan' = "directory" => stack' # <<>>)
  <2>1. PICK c \in Calls : c = Call(0, SubSeq(a, 1, EXT2_NDIR_BLOCKS), 0)
    <3>1. SubSeq(a, 1, EXT2_NDIR_BLOCKS) \in Seq(Nat)
      <4>1. ASSUME NEW i \in 1 .. 12 PROVE a[i] \in Nat
        <5>1. Len(a) = 15
          BY <1>7
        <5>2. i \in 1 .. Len(a)
          BY <5>1
        <5>3. QED
          BY <5>2, ElementOfSeq
      <4>2. 1 \in Int /\ 12 \in Int
        OBVIOUS
      <4>3. SubSeq(a, 1, 12) \in Seq(Nat)
        BY <4>1, <4>2, SubSeqProperties
      <4>4. QED
        BY <4>3 DEF EXT2_NDIR_BLOCKS
    <3>2. 0 \in 0 .. 3 /\ 0 \in Nat
      OBVIOUS
    <3>3. QED
      BY <3>1, <3>2, CallType
  <2>2. IF inode.i_mode = "dir" THEN stack' = <<c>> ELSE stack' = <<>>
    BY <1>7, <2>1 DEF PrintInode
  <2>3. <<c>> \in Seq(Calls) /\ <<c>> # <<>>
    OBVIOUS
  <2>4. PICK d \in Seq(Calls) : d = <<c>> /\ d # <<>>
    BY <2>3
  <2>5. PICK z \in Seq(Calls) : z = <<>>
    BY EmptySeq
  <2>6. IF inode.i_mode = "dir" THEN stack' = d ELSE stack' = z
    BY <2>2, <2>4, <2>5
  <2>7. stack' \in Seq(Calls)
    BY <2>6
  <2>8. scan' = "directory" => stack' = d
    BY <1>1, <2>6
  <2>9. QED
    BY <2>4, <2>7, <2>8
<1>9. cur_entry' \in Nat /\ program # "lab3a"
  BY <1>3
<1>10. QED
  BY <1>1, <1>4, <1>5, <1>6, <1>8, <1>9, LinePrintedKeeps

\* The call on top.
LEMMA TopIs ==
    ASSUME ScanInv, scan = "directory", program = "lab3a_std"
    PROVE  /\ stack \in Seq(Calls) /\ stack # <<>> /\ top \in Calls /\ Front(stack) \in Seq(Calls)
           /\ \A c \in Calls : /\ Append(Front(stack), c) \in Seq(Calls)
                               /\ Append(Front(stack), c) # <<>>
<1>1. PICK s \in Seq(Calls) : s = stack /\ s # <<>>
  BY DEF ScanInv, ScanTypes
<1>2. Front(s) \in Seq(Calls) /\ Last(s) \in Calls
  BY <1>1 DEF Front, Last
<1>3. PICK f \in Seq(Calls) : f = Front(s)
  BY <1>2
<1>4. \A c \in Calls : Append(f, c) \in Seq(Calls) /\ Append(f, c) # <<>>
  OBVIOUS
<1>5. QED
  BY <1>1, <1>2, <1>3, <1>4 DEF top

LEMMA ReadDirEntryKeeps ==
    ASSUME ScanInv, UNCHANGED Fixed, UNCHANGED <<cur_block, cur_entry>>, program = "lab3a_std",
           ReadDirEntry
    PROVE  ScanInv'
<1>1. scan = "directory" /\ inode_no' = inode_no
  BY DEF ReadDirEntry
<1>2. Among /\ Within
  BY <1>1 DEF Among, Within
<1>3. /\ image \in Images /\ inode_no \in Nat /\ cur_entry \in Nat
  BY <1>2, AtInode
<1>4. /\ top \in Calls /\ \A c \in Calls : /\ Append(Front(stack), c) \in Seq(Calls)
                                            /\ Append(Front(stack), c) # <<>>
  BY <1>1, TopIs
<1>5. PICK e \in EntriesAtTop :
                  IF top.size < inode.i_size /\ e.file_type # 0
                  THEN /\ csv' = IF e.inode = 0 THEN csv
                                 ELSE Append(csv, DirectoryEntry(inode_no, top.size, e.inode, e.name))
                       /\ stack' = Append(Front(stack), [top EXCEPT !.size = @ + e.rec_len,
                                                                    !.at = @ + e.rec_len])
                       /\ scan' = IF e.rec_len = 0 THEN "endless" ELSE scan
                  ELSE /\ stack' = Append(Front(stack), [top EXCEPT !.block = NoBlock])
                       /\ UNCHANGED <<csv, scan>>
  BY Zenon DEF ReadDirEntry, SetTop
<1>6. e \in ext2_dir_entry
  <2>1. NoEntry \in ext2_dir_entry
    BY DEF NoEntry, ext2_dir_entry
  <2>2. EntryAt(top.block, top.at) \in ext2_dir_entry
    BY <1>3, EntriesType
  <2>3. QED
    BY <1>5, <2>1, <2>2, BeyondAssumption DEF EntriesAtTop
<1>7. PICK l \in EntryLines : l = DirectoryEntry(inode_no, top.size, e.inode, e.name)
  <2>1. top.size \in Nat
    BY <1>4 DEF Calls
  <2>2. QED
    BY <1>3, <1>6, <2>1, EntryType
<1>8. csv' = csv \/ csv' = Append(csv, l)
  BY <1>5, <1>7
<1>9. scan' \in {"directory", "endless"}
  BY <1>1, <1>5
<1>10. stack' \in Seq(Calls) /\ stack' # <<>>
  <2>1. [top EXCEPT !.size = @ + e.rec_len, !.at = @ + e.rec_len] \in Calls
    <3>1. PICK x \in Nat, y \in Nat : x = top.size + e.rec_len /\ y = top.at + e.rec_len
      <4>1. top.size \in Nat /\ top.at \in Nat /\ e.rec_len \in Nat
        BY <1>4, <1>6 DEF Calls, ext2_dir_entry
      <4>2. top.size + e.rec_len \in Nat /\ top.at + e.rec_len \in Nat
        BY <4>1
      <4>3. QED
        BY <4>2
    <3>2. PICK c \in Calls : c = top
      BY <1>4
    <3>3. [c EXCEPT !.size = x, !.at = y] \in Calls
      BY DEF Calls
    <3>4. QED
      BY <3>1, <3>2, <3>3
  <2>2. [top EXCEPT !.block = NoBlock] \in Calls
    BY <1>4 DEF Calls
  <2>3. QED
    BY <1>4, <1>5, <2>1, <2>2
<1>11. QED
  BY <1>1, <1>3, <1>8, <1>9, <1>10, EntryKeepsScan

LEMMA NextPointerKeeps ==
    ASSUME ScanInv, UNCHANGED Fixed, UNCHANGED <<cur_block, cur_entry>>, program = "lab3a_std",
           NextPointer
    PROVE  ScanInv'
<1>1. scan = "directory" /\ scan' = "directory" /\ UNCHANGED <<csv, inode_no>> /\ top.left # <<>>
  BY DEF NextPointer
<1>2. Among /\ Within /\ Within'
  BY <1>1 DEF Among, Within
<1>3. image \in Images /\ cur_entry \in Nat
  BY <1>2, AtInode
<1>4. /\ top \in Calls /\ Front(stack) \in Seq(Calls)
      /\ \A c \in Calls : /\ Append(Front(stack), c) \in Seq(Calls)
                          /\ Append(Front(stack), c) # <<>>
  BY <1>1, TopIs
<1>5. /\ top.left \in Seq(Nat) /\ top.level \in 0 .. 3 /\ top.size \in Nat
  BY <1>4 DEF Calls
<1>6. PICK p \in Nat : p = Head(top.left)
  BY <1>1, <1>5
<1>7. PICK rest \in Calls : rest = [top EXCEPT !.left = Tail(@)]
  <2>1. Tail(top.left) \in Seq(Nat)
    BY <1>1, <1>5
  <2>2. [top EXCEPT !.left = Tail(@)] \in Calls
    BY <1>4, <2>1 DEF Calls
  <2>3. QED
    BY <2>2
<1>8. PICK reading \in Calls : reading = [rest EXCEPT !.block = p, !.at = 0]
  <2>1. [rest EXCEPT !.block = p, !.at = 0] \in Calls
    BY <1>7 DEF Calls
  <2>2. QED
    BY <2>1
<1>9. stack' \in Seq(Calls) /\ stack' # <<>>
  <2>1. CASE p = 0 /\ top.level > 0
    <3>1. stack' = Append(Front(stack), rest)
      BY <1>6, <1>7, <1>8, <2>1 DEF NextPointer, SetTop
    <3>2. QED
      BY <1>4, <3>1
  <2>2. CASE ~(p = 0 /\ top.level > 0) /\ top.level \in {2, 3}
    <3>1. PICK c \in Calls : c = Call(top.level - 1, Pointers(p), top.size)
      <4>1. Pointers(p) \in Seq(Nat) /\ top.level - 1 \in 0 .. 3
        BY <1>3, <2>2, PointersType
      <4>2. QED
        BY <1>5, <4>1, CallType
    <3>2. stack' = Front(stack) \o <<reading, c>>
      BY <1>6, <1>7, <1>8, <2>2, <3>1 DEF NextPointer
    <3>3. <<reading, c>> \in Seq(Calls) /\ Len(<<reading, c>>) = 2
      OBVIOUS
    <3>4. PICK f \in Seq(Calls), r \in Seq(Calls) : f = Front(stack) /\ r = <<reading, c>> /\ Len(r) = 2
      BY <1>4, <3>3
    <3>5. f \o r \in Seq(Calls) /\ Len(f \o r) = Len(f) + 2
      BY <3>4, ConcatProperties
    <3>6. QED
      BY <3>2, <3>4, <3>5
  <2>3. CASE ~(p = 0 /\ top.level > 0) /\ top.level \notin {2, 3}
    <3>1. stack' = Append(Front(stack), reading)
      BY <1>6, <1>7, <1>8, <2>3 DEF NextPointer, SetTop
    <3>2. QED
      BY <1>4, <3>1
  <2>4. QED
    BY <2>1, <2>2, <2>3
<1>10. cur_entry' \in Nat
  BY <1>3
<1>11. QED
  BY <1>1, <1>2, <1>9, <1>10, WithinKeeps

LEMMA ReturnFromCallKeeps ==
    ASSUME ScanInv, UNCHANGED Fixed, UNCHANGED <<cur_block, cur_entry>>, program = "lab3a_std",
           ReturnFromCall
    PROVE  ScanInv'
<1>1. scan = "directory" /\ UNCHANGED <<csv, inode_no>>
  BY DEF ReturnFromCall
<1>2. Among /\ Within
  BY <1>1 DEF Among, Within
<1>3. image \in Images /\ cur_entry \in Nat
  BY <1>2, AtInode
<1>4. top \in Calls /\ Front(stack) \in Seq(Calls) /\ top.size \in Nat
  BY <1>1, TopIs DEF Calls
<1> DEFINE roots == [k \in 1 .. 3 |-> inode.i_block[EXT2_N_BLOCKS - k]]
           trees == [k \in 1 .. 3 |-> Call(4 - k, Pointers(roots[k]), top.size)]
           pieces == [k \in 1 .. 3 |-> IF roots[k] = 0 THEN <<>> ELSE <<trees[k]>>]
<1>5. pieces \in Seq(Seq(Calls))
  <2>1. ASSUME NEW k \in 1 .. 3 PROVE trees[k] \in Calls
    <3>1. PICK P \in Seq(Nat) : P = Pointers(roots[k])
      BY <1>3, PointersType
    <3>2. 4 - k \in 0 .. 3
      OBVIOUS
    <3>3. Call(4 - k, P, top.size) \in Calls
      BY <1>4, <3>2, CallType
    <3>4. QED
      BY <3>1, <3>3
  <2> HIDE DEF roots, trees
  <2>2. \A k \in 1 .. 3 : pieces[k] \in Seq(Calls)
    BY <2>1
  <2>3. pieces = [k \in 1 .. 3 |-> pieces[k]]
    OBVIOUS
  <2> HIDE DEF pieces
  <2>4. QED
    BY <2>2, <2>3
<1>6. stack' = Front(stack) \o (IF top.level > 0 THEN <<>> ELSE FlattenSeq(pieces))
  BY DEF ReturnFromCall
<1>7. scan' = IF stack' = <<>> THEN "indirect" ELSE scan
  BY DEF ReturnFromCall
<1> HIDE DEF pieces
<1>8. stack' \in Seq(Calls)
  <2>1. FlattenSeq(pieces) \in Seq(Calls)
    <3>1. <<>> \in Seq(Calls)
      BY EmptySeq
    <3>2. QED
      BY <1>5, <3>1, FlattenAppend
  <2>2. QED
    BY <1>4, <1>6, <2>1, ConcatProperties, EmptySeq
<1>9. Within' /\ (scan' = "directory" => stack' # <<>>) /\ cur_entry' \in Nat
  BY <1>1, <1>3, <1>7 DEF Within
<1>10. QED
  BY <1>1, <1>2, <1>8, <1>9, WithinKeeps

LEMMA ScanStutters == ASSUME ScanInv, UNCHANGED scanVars PROVE ScanInv'
<1>1. /\ UNCHANGED Fixed
      /\ UNCHANGED <<csv, image, program, scan, inode_no, cur_block, cur_entry, stack>>
  BY DEF scanVars, Fixed
<1>2. /\ image' = image /\ program' = program /\ Numbers' = Numbers /\ sb' = sb
      /\ SuperLine' = SuperLine /\ GroupLine' = GroupLine
      /\ BFreeLines' = BFreeLines /\ IFreeLines' = IFreeLines
      /\ InodePieces' = InodePieces /\ TreePieces' = TreePieces
      /\ (Proceeds' <=> Proceeds)
      /\ \A n : (Scanned(n)' <=> Scanned(n)) /\ (Walked(n)' <=> Walked(n))
  BY <1>1, AllStay
<1>3. (Within' <=> Within) /\ (Among' <=> Among)
  BY <1>1 DEF Within, Among
<1>4. ScanTypes'
  BY <1>1, <1>2, <1>3 DEF ScanInv, ScanTypes
<1>5. Opened' = Opened
  BY <1>1, <1>2 DEF Opened
<1>6. (Place' <=> Place) /\ (SoFar' <=> SoFar)
  BY <1>1, <1>2, <1>3 DEF Place, SoFar, Upon
<1>7. QED
  BY <1>1, <1>2, <1>3, <1>4, <1>5, <1>6 DEF ScanInv

LEMMA Lab3aKeeps == ASSUME ScanInv, Lab3a PROVE ScanInv'
<1>1. program = "lab3a" /\ UNCHANGED Fixed /\ UNCHANGED stack
  BY DEF Lab3a, Fixed
<1>2. CASE Summary
  BY <1>1, <1>2, SummaryKeeps
<1>3. CASE FreeEntries
  BY <1>1, <1>3, FreeEntriesKeeps
<1>4. CASE SkipInode
  BY <1>1, <1>4, SkipInodeKeeps
<1>5. CASE InodeSummary
  BY <1>1, <1>5, InodeSummaryKeeps
<1>6. CASE ReadEntry
  BY <1>1, <1>6, ReadEntryKeeps
<1>7. CASE NextBlock \/ EndDirectory
  BY <1>1, <1>7, NextBlockKeeps
<1>8. CASE IndirectBlocks
  BY <1>1, <1>8, IndirectBlocksKeeps
<1>9. CASE AllInodes
  BY <1>1, <1>9, AllInodesKeeps
<1>10. QED
  BY <1>2, <1>3, <1>4, <1>5, <1>6, <1>7, <1>8, <1>9 DEF Lab3a

LEMMA Lab3aStdKeeps == ASSUME ScanInv, Lab3aStd PROVE ScanInv'
<1>1. program = "lab3a_std" /\ UNCHANGED Fixed /\ UNCHANGED <<cur_block, cur_entry>>
  BY DEF Lab3aStd, Fixed
<1>2. CASE scan_sb
  BY <1>1, <1>2, scan_sbKeeps
<1>3. CASE scan_groups
  BY <1>1, <1>3, scan_groupsKeeps
<1>4. CASE scan_bitmaps
  BY <1>1, <1>4, scan_bitmapsKeeps
<1>5. CASE SkipFree
  BY <1>1, <1>5, SkipFreeKeeps
<1>6. CASE PrintInode
  BY <1>1, <1>6, PrintInodeKeeps
<1>7. CASE ReadDirEntry
  BY <1>1, <1>7, ReadDirEntryKeeps
<1>8. CASE NextPointer
  BY <1>1, <1>8, NextPointerKeeps
<1>9. CASE ReturnFromCall
  BY <1>1, <1>9, ReturnFromCallKeeps
<1>10. CASE ScanIndirects
  BY <1>1, <1>10, ScanIndirectsKeeps
<1>11. CASE free_all \/ CorruptedBitmap \/ ReadBeyond
  BY <1>1, <1>11, free_allKeeps
<1>12. QED
  BY <1>2, <1>3, <1>4, <1>5, <1>6, <1>7, <1>8, <1>9, <1>10, <1>11 DEF Lab3aStd

LEMMA ScanBegins == Init => ScanInv
<1>1. SUFFICES ASSUME Init PROVE ScanInv
  OBVIOUS
<1>2. /\ csv = <<>> /\ image \in Images /\ program \in Programs /\ scan = "start" /\ inode_no = 1
      /\ cur_entry = 0 /\ stack = <<>>
  BY <1>1 DEF Init, ScanInit, Programs
<1>3. <<>> \in Seq(ScanLines) /\ <<>> \in Seq(Calls)
  BY EmptySeq
<1>4. ScanTypes
  BY <1>2, <1>3 DEF ScanTypes, Opening, Within
<1>5. csv = Opened /\ ~Among
  BY <1>2 DEF Opened, Among, Within
<1>6. QED
  BY <1>4, <1>5 DEF ScanInv

LEMMA ScanKeeps == ASSUME ScanInv, [Next]_vars PROVE ScanInv'
<1>1. CASE Lab3a
  BY <1>1, Lab3aKeeps
<1>2. CASE Lab3aStd
  BY <1>2, Lab3aStdKeeps
<1>3. CASE Audit /\ UNCHANGED <<image, program, scan, inode_no, cur_block, cur_entry, stack>>
  <2>1. UNCHANGED scanVars
    BY <1>3 DEF Audit, scanVars
  <2>2. QED
    BY <2>1, ScanStutters
<1>4. CASE UNCHANGED vars
  BY <1>4, ScanStutters DEF vars
<1>5. QED
  BY <1>1, <1>2, <1>3, <1>4 DEF Next

\* What has been printed is at any time what lab3a, or lab3a_std, is to print of
\* the image up to where it is: the lines of both bitmaps, of the inodes so far
\* and of their trees, whatever the directories hold.  Where lab3a_std goes from
\* the root to an s_first_ino of 2 or less (not Proceeds), what it prints from then
\* on is left open, and it never is done.
THEOREM ScanPrints == Spec => []ScanInv
<1>1. Init => ScanInv
  BY ScanBegins
<1>2. ScanInv /\ [Next]_vars => ScanInv'
  BY ScanKeeps
<1>3. QED
  BY <1>1, <1>2, PTL DEF Spec

-----------------------------------------------------------------------------
(* What is printed in the end.                                             *)

LEMMA Printed ==
    ASSUME ScanInv, scan = "done"
    PROVE  /\ image \in Images /\ csv \in Seq(ScanLines) /\ Upon(csv, sb.s_inodes_count, sb.s_inodes_count)
           /\ sb.s_inodes_count \in Nat /\ Numbers = 1 .. sb.s_inodes_count
<1>1. Among /\ ~Within
  BY DEF Among, Within
<1>2. /\ image \in Images /\ csv \in Seq(ScanLines) /\ inode_no \in Nat
      /\ sb.s_inodes_count \in Nat /\ Numbers = 1 .. sb.s_inodes_count /\ Place /\ SoFar
  BY <1>1, AtInode
<1>3. PICK c \in Nat, n \in Nat : c = sb.s_inodes_count /\ n = inode_no - 1
  BY <1>2 DEF Place
<1>4. Upon(csv, n, n)
  BY <1>1, <1>2, <1>3 DEF SoFar
<1>5. IF program = "lab3a" THEN n >= c ELSE n >= c - 1 /\ ~Scanned(c)
  BY <1>2, <1>3 DEF Place, Scanned
<1>6. \A i \in Nat : i > c => ~Scanned(i)
  BY <1>2, <1>3 DEF Scanned
<1>7. CASE n >= c
  <2>1. \A i \in c + 1 .. n : i \in Nat /\ i > c
    BY <1>3
  <2>2. \A i \in c + 1 .. n : ~Scanned(i)
    BY <1>6, <2>1
  <2>3. /\ Upto(InodePieces, n) = Upto(InodePieces, c)
        /\ Upto(TreePieces, n) = Upto(TreePieces, c)
    BY <1>2, <1>7, <2>2, NothingBetween
  <2>4. QED
    BY <1>2, <1>3, <1>4, <2>3 DEF Upon
<1>8. CASE n < c
  <2>1. n = c - 1 /\ ~Scanned(c)
    BY <1>5, <1>8
  <2>2. n <= c /\ \A i \in n + 1 .. c : i = c
    BY <2>1
  <2>3. /\ Upto(InodePieces, c) = Upto(InodePieces, n)
        /\ Upto(TreePieces, c) = Upto(TreePieces, n)
    BY <1>2, <2>1, <2>2, NothingBetween
  <2>4. QED
    BY <1>2, <1>3, <1>4, <2>3 DEF Upon
<1>9. QED
  BY <1>7, <1>8

LEMMA PrintedLines ==
    ASSUME ScanInv, scan = "done", NEW kind
    PROVE  Described(kind) = ToSet(OfKind(csv, kind))
<1>1. PICK s \in Seq(ScanLines) : s = csv
  BY Printed
<1>2. ToSet(Without(s, {l \in ToSet(s) : l.line # kind})) = ToSet(s) \ {l \in ToSet(s) : l.line # kind}
  BY RangeWithout
<1>3. ToSet(OfKind(s, kind)) = ToSet(s) \ {l \in ToSet(s) : l.line # kind}
  BY <1>2 DEF OfKind
<1>4. QED
  BY <1>1, <1>3 DEF Described

\* The inodes described are those that there are lines for.
LEMMA PrintedInodes ==
    ASSUME ScanInv, scan = "done", NEW l \in Described("INODE")
    PROVE  /\ l.inode_number \in Numbers /\ Scanned(l.inode_number)
           /\ l = LineOf(l.inode_number)
<1>1. PICK c \in Nat : c = sb.s_inodes_count /\ Upon(csv, c, c) /\ image \in Images /\ Numbers = 1 .. c
  BY Printed
<1>2. OfKind(csv, "INODE") = Upto(InodePieces, c)
  BY <1>1 DEF Upon
<1>3. l \in ToSet(Upto(InodePieces, c))
  BY <1>2, PrintedLines
<1>4. InodePieces \in [Nat -> Seq(ScanLines)]
  BY <1>1, PiecesType
<1>5. ToSet(Upto(InodePieces, c)) = UNION {ToSet(InodePieces[n]) : n \in 1 .. c}
  BY <1>4, UptoRange
<1>6. PICK n \in 1 .. c : l \in ToSet(InodePieces[n])
  BY <1>3, <1>5
<1>7. InodePieces[n] = IF Scanned(n) THEN <<LineOf(n)>> ELSE <<>>
  BY DEF InodePieces
<1>8. Scanned(n)
  <2>1. ~Scanned(n) => ToSet(InodePieces[n]) = {}
    BY <1>7, RangeNothing
  <2>2. QED
    BY <1>6, <2>1
<1>9. l = LineOf(n)
  BY <1>6, <1>7, <1>8 DEF ToSet
<1>10. n \in Numbers /\ LineOf(n).inode_number = n
  BY <1>1, LineOfIs
<1>11. QED
  BY <1>8, <1>9, <1>10

LEMMA PrintedTrees ==
    ASSUME ScanInv, scan = "done", NEW n \in Numbers, Scanned(n), Walked(n)
    PROVE  {l \in Described("INDIRECT") : l.parent_inode_number = n} = ToSet(TreesOf(n))
<1>1. PICK c \in Nat : c = sb.s_inodes_count /\ Upon(csv, c, c) /\ image \in Images /\ Numbers = 1 .. c
  BY Printed
<1>2. OfKind(csv, "INDIRECT") = Upto(TreePieces, c)
  BY <1>1 DEF Upon
<1>3. TreePieces \in [Nat -> Seq(ScanLines)]
  BY <1>1, PiecesType
<1>4. ToSet(Upto(TreePieces, c)) = UNION {ToSet(TreePieces[m]) : m \in 1 .. c}
  BY <1>3, UptoRange
<1>5. Described("INDIRECT") = UNION {ToSet(TreePieces[m]) : m \in 1 .. c}
  BY <1>2, <1>4, PrintedLines
<1>6. ASSUME NEW m \in 1 .. c, NEW l \in ToSet(TreePieces[m])
      PROVE  l.parent_inode_number = m /\ l \in ToSet(TreesOf(m))
  <2>1. TreePieces[m] = IF Scanned(m) /\ (program = "lab3a" => Walked(m)) THEN TreesOf(m) ELSE <<>>
    BY DEF TreePieces
  <2>2. TreePieces[m] # <<>>
    BY <1>6, RangeNothing
  <2>3. TreePieces[m] = TreesOf(m)
    BY <2>1, <2>2
  <2>4. TreesOf(m) \in Seq(LinesFor(m))
    BY <1>1, TreesOfType
  <2>5. ToSet(TreesOf(m)) \subseteq LinesFor(m)
    BY <2>4, RangeType
  <2>6. l \in LinesFor(m)
    BY <1>6, <2>3, <2>5
  <2>7. QED
    BY <1>6, <2>3, <2>6 DEF LinesFor
<1>7. n \in 1 .. c /\ TreePieces[n] = TreesOf(n)
  BY <1>1 DEF TreePieces
<1>8. ASSUME NEW l \in ToSet(TreesOf(n))
      PROVE  l \in Described("INDIRECT") /\ l.parent_inode_number = n
  <2>1. l \in ToSet(TreePieces[n])
    BY <1>7
  <2>2. l.parent_inode_number = n
    BY <1>6, <1>7, <2>1
  <2>3. QED
    BY <1>5, <1>7, <2>1, <2>2
<1>9. ASSUME NEW l \in Described("INDIRECT"), l.parent_inode_number = n
      PROVE  l \in ToSet(TreesOf(n))
  <2>1. PICK m \in 1 .. c : l \in ToSet(TreePieces[m])
    BY <1>5
  <2>2. l.parent_inode_number = m /\ l \in ToSet(TreesOf(m))
    BY <1>6, <2>1
  <2>3. QED
    BY <1>9, <2>2
<1>10. QED
  BY <1>8, <1>9

\* For any image, and however deep its trees are: the INDIRECT lines of an inode
\* are exactly the pointers in its trees, at an offset that is never too large
\* and right where nothing comes before.
THEOREM IndirectLinesRight == Spec => []IndirectRight
<1>1. ScanInv => IndirectRight
  <2>1. SUFFICES ASSUME ScanInv, scan = "done", program = "lab3a" => BootBlockEmpty PROVE IndirectRight
    BY DEF IndirectRight
  <2>2. image \in Images /\ NoTreeAt0
    BY <2>1 DEF NoTreeAt0, ScanInv, ScanTypes
  <2>3. ASSUME NEW n \in {l.inode_number : l \in Described("INODE")}, Walked(n)
        PROVE  Right({l \in Described("INDIRECT") : l.parent_inode_number = n}, PointersOf(n))
    <3>1. n \in Numbers /\ Scanned(n)
      BY <2>1, PrintedInodes
    <3>2. {l \in Described("INDIRECT") : l.parent_inode_number = n} = ToSet(TreesOf(n))
      BY <2>1, <2>3, <3>1, PrintedTrees
    <3>3. Right(ToSet(TreesOf(n)), PointersOf(n))
      BY <2>2, <3>1, TreesRight
    <3>4. QED
      BY <3>2, <3>3
  <2>4. QED
    BY <2>3 DEF IndirectRight, Right, Matches
<1>2. QED
  BY <1>1, ScanPrints, PTL


-----------------------------------------------------------------------------
(* What is printed in the end is a summary as the audit wants it.          *)

Distinct(s) == \A j, k \in DOMAIN s : s[j].inode_number = s[k].inode_number => j = k

LEMMA DistinctAppend ==
    ASSUME NEW S, NEW s \in Seq(S), Distinct(s), NEW e \in S,
           \A l \in ToSet(s) : l.inode_number # e.inode_number
    PROVE  Distinct(Append(s, e))
<1> DEFINE t == Append(s, e)
<1>1. /\ Len(s) \in Nat /\ t \in Seq(S) /\ Len(t) = Len(s) + 1
      /\ \A i \in 1 .. Len(s) : t[i] = s[i]
      /\ t[Len(s) + 1] = e
  BY AppendProperties
<1>2. DOMAIN t = 1 .. Len(s) + 1 /\ DOMAIN s = 1 .. Len(s)
  BY <1>1
<1> HIDE DEF t
<1>3. \A j \in 1 .. Len(s) : t[j].inode_number # e.inode_number
  <2>1. \A j \in 1 .. Len(s) : s[j] \in ToSet(s)
    BY <1>2 DEF ToSet
  <2>2. QED
    BY <1>1, <2>1
<1>4. ASSUME NEW j \in DOMAIN t, NEW k \in DOMAIN t, t[j].inode_number = t[k].inode_number
      PROVE  j = k
  <2>1. \A i \in DOMAIN t : i \in 1 .. Len(s) \/ (i = Len(s) + 1 /\ t[i] = e)
    BY <1>1, <1>2
  <2>2. CASE j \in 1 .. Len(s) /\ k \in 1 .. Len(s)
    BY <1>1, <1>2, <1>4, <2>2 DEF Distinct
  <2>3. CASE ~(j \in 1 .. Len(s) /\ k \in 1 .. Len(s))
    BY <1>3, <1>4, <2>1, <2>3
  <2>4. QED
    BY <2>2, <2>3
<1>5. QED
  BY <1>4 DEF Distinct, t

\* The lines of the inodes up to m are about as many inodes, none above m.
LEMMA InodesDistinct ==
    ASSUME image \in Images, NEW m \in Nat
    PROVE  /\ Distinct(Upto(InodePieces, m))
           /\ \A l \in ToSet(Upto(InodePieces, m)) : l.inode_number \in 1 .. m
<1>1. InodePieces \in [Nat -> Seq(ScanLines)]
  BY PiecesType
<1> DEFINE T == {n \in Nat : /\ Distinct(Upto(InodePieces, n))
                             /\ \A l \in ToSet(Upto(InodePieces, n)) : l.inode_number \in 1 .. n}
<1>2. 0 \in T
  <2>1. Upto(InodePieces, 0) = <<>>
    BY UptoNone
  <2>2. ToSet(<<>>) = {} /\ DOMAIN <<>> = {}
    BY RangeNothing, EmptySeq
  <2>3. QED
    BY <2>1, <2>2 DEF Distinct
<1>3. ASSUME NEW n \in Nat, n \in T PROVE n + 1 \in T
  <2>1. PICK s \in Seq(ScanLines) : s = Upto(InodePieces, n)
    BY <1>1, UptoNext
  <2>2. Distinct(s) /\ \A l \in ToSet(s) : l.inode_number \in 1 .. n
    BY <1>3, <2>1
  <2>3. PICK x \in Seq(ScanLines) : x = InodePieces[n + 1]
    BY <1>1
  <2>4. Upto(InodePieces, n + 1) = s \o x
    BY <1>1, <2>1, <2>3, UptoNext
  <2>5. CASE Scanned(n + 1)
    <3>1. PICK e \in ScanLines : e = LineOf(n + 1) /\ e.inode_number = n + 1
      BY <2>5, LineOfIs DEF Scanned, ScanLines
    <3>2. x = <<e>>
      BY <2>3, <2>5, <3>1 DEF InodePieces
    <3>3. s \o x = Append(s, e)
      BY <3>2
    <3>4. \A l \in ToSet(s) : l.inode_number # e.inode_number
      <4>1. \A i \in 1 .. n : i # n + 1
        BY <1>3
      <4>2. QED
        BY <2>2, <3>1, <4>1
    <3>5. Distinct(Append(s, e))
      BY <2>2, <3>4, DistinctAppend
    <3>6. ToSet(Append(s, e)) = ToSet(s) \cup {e}
      BY RangeAppend
    <3>7. \A l \in ToSet(Append(s, e)) : l.inode_number \in 1 .. n + 1
      <4>1. 1 .. n \subseteq 1 .. n + 1 /\ n + 1 \in 1 .. n + 1
        BY <1>3
      <4>2. QED
        BY <2>2, <3>1, <3>6, <4>1
    <3>8. Upto(InodePieces, n + 1) = Append(s, e) /\ n + 1 \in Nat
      BY <2>4, <3>3
    <3>9. QED
      BY <3>5, <3>7, <3>8
  <2>6. CASE ~Scanned(n + 1)
    <3>1. x = <<>>
      BY <2>3, <2>6 DEF InodePieces
    <3>2. s \o x = s
      BY <3>1, ConcatEmptySeq
    <3>3. 1 .. n \subseteq 1 .. n + 1
      BY <1>3
    <3>4. QED
      BY <2>2, <2>4, <3>2, <3>3
  <2>7. QED
    BY <2>5, <2>6
<1>4. Nat \subseteq T
  BY <1>2, <1>3, NatSetInduction
<1>5. QED
  BY <1>4

LEMMA InjectiveWithout ==
    ASSUME NEW S, NEW s \in Seq(S), IsInjective(s), NEW dropped
    PROVE  IsInjective(Without(s, dropped))
<1> DEFINE T == {r \in Seq(S) : IsInjective(r) => IsInjective(Without(r, dropped))}
<1>1. <<>> \in T
  <2>1. <<>> \in Seq(S) /\ Without(<<>>, dropped) = <<>>
    BY EmptySeq, WithoutEmpty
  <2>2. QED
    BY <2>1
<1>2. ASSUME NEW r \in Seq(S), r \in T, NEW e \in S PROVE Append(r, e) \in T
  <2>1. SUFFICES ASSUME IsInjective(Append(r, e)) PROVE IsInjective(Without(Append(r, e), dropped))
    BY AppendProperties
  <2> DEFINE t == Append(r, e)
  <2>2. /\ Len(r) \in Nat /\ DOMAIN t = 1 .. Len(r) + 1 /\ DOMAIN r = 1 .. Len(r)
        /\ \A i \in 1 .. Len(r) : t[i] = r[i]
        /\ t[Len(r) + 1] = e
    BY AppendProperties
  <2>3. IsInjective(t)
    BY <2>1
  <2> HIDE DEF t
  <2>4. IsInjective(r)
    BY <2>2, <2>3 DEF IsInjective
  <2>5. e \notin ToSet(r)
    BY <2>2, <2>3 DEF IsInjective, ToSet
  <2>6. PICK w \in Seq(S) : w = Without(r, dropped) /\ IsInjective(w) /\ ToSet(w) = ToSet(r) \ dropped
    BY <1>2, <2>4, WithoutType, RangeWithout
  <2>7. e \notin ToSet(w)
    BY <2>5, <2>6
  <2>8. IsInjective(Append(w, e))
    BY <2>6, <2>7, InjectiveAppend
  <2>9. Without(Append(r, e), dropped) = IF e \in dropped THEN w ELSE Append(w, e)
    BY <2>6, WithoutAppend
  <2>10. QED
    BY <2>6, <2>8, <2>9
<1>3. Seq(S) \subseteq T
  BY <1>1, <1>2, SeqSetInduction
<1>4. QED
  BY <1>3

LEMMA UnsetInjective == ASSUME NEW bitmap PROVE IsInjective(Unset(bitmap))
<1>1. PICK s \in Seq(Nat) : s = [n \in 1 .. BitmapBits |-> n]
  <2>1. BitmapBits \in Nat
    BY BitmapAssumption
  <2>2. [n \in 1 .. BitmapBits |-> n] \in Seq(Nat)
    BY <2>1
  <2>3. QED
    BY <2>2
<1>2. IsInjective(s)
  BY <1>1 DEF IsInjective
<1>3. QED
  BY <1>1, <1>2, InjectiveWithout DEF Unset

LEMMA ScanRead ==
    ASSUME ScanInv, scan = "done"
    PROVE  Summarised /\ Readable
<1>1. PICK c \in Nat : c = sb.s_inodes_count /\ Upon(csv, c, c) /\ image \in Images
  BY Printed
<1>2. csv \in Seq(ScanLines)
  BY Printed
<1>3. ScanLines \subseteq CsvLines
  BY DEF ScanLines, CsvLines
<1>4. csv \in Seq(CsvLines)
  BY <1>2, <1>3, Retype
<1>5. /\ Lines("SUPERBLOCK") = <<SuperLine>> /\ Lines("GROUP") = <<GroupLine>>
      /\ Lines("IFREE") = IFreeLines /\ Lines("INODE") = Upto(InodePieces, c)
  BY <1>1, LinesOfCsv DEF Upon
<1>6. Readable
  <2>1. \A l \in ScanLines : l.line \in Kinds
    BY DEF ScanLines, Kinds, SuperLines, GroupLines, NumberLines, InodeLines, EntryLines,
           IndirectLines
  <2>2. ToSet(csv) \subseteq ScanLines
    BY <1>2, RangeType
  <2>3. SuperLine \in ToSet(<<SuperLine>>) /\ GroupLine \in ToSet(<<GroupLine>>)
    BY DEF ToSet
  <2>4. SuperLine \in ToSet(csv) /\ GroupLine \in ToSet(csv)
    <3>1. /\ ToSet(Lines("SUPERBLOCK")) = {l \in ToSet(csv) : l.line = "SUPERBLOCK"}
          /\ ToSet(Lines("GROUP")) = {l \in ToSet(csv) : l.line = "GROUP"}
      BY <1>4, LinesAre
    <3>2. QED
      BY <1>5, <2>3, <3>1
  <2>5. SuperLine.line = "SUPERBLOCK" /\ GroupLine.line = "GROUP"
    BY <1>1, HeadsAre
  <2>6. QED
    BY <2>1, <2>2, <2>4, <2>5 DEF Readable
<1>7. /\ Distinct(Lines("INODE"))
      /\ \A l \in ToSet(Lines("INODE")) : l.inode_number \in 1 .. c
  BY <1>1, <1>5, InodesDistinct
<1>8. Last(Lines("SUPERBLOCK")).num_inodes = c
  <2>1. SuperLine.num_inodes = c
    BY <1>1, HeadsAre
  <2>2. Last(<<SuperLine>>) = SuperLine
    BY DEF Last
  <2>3. QED
    BY <1>5, <2>1, <2>2
<1>9. IsInjective(NumberFields("IFREE"))
  <2>1. PICK u \in Seq(Nat) : u = Unset(image.inode_bitmap) /\ IsInjective(u)
    BY UnsetType, UnsetInjective
  <2>2. Lines("IFREE") = [k \in DOMAIN u |-> IFree(u[k])]
    BY <1>5, <2>1 DEF IFreeLines
  <2>3. \A k \in DOMAIN u : IFree(u[k]).number = u[k]
    BY DEF IFree
  <2>4. /\ DOMAIN NumberFields("IFREE") = DOMAIN u
        /\ \A k \in DOMAIN u : NumberFields("IFREE")[k] = u[k]
    BY <2>2, <2>3 DEF NumberFields
  <2>5. QED
    BY <2>1, <2>4 DEF IsInjective
<1>10. QED
  BY <1>4, <1>6, <1>7, <1>8, <1>9 DEF Summarised, Distinct

\* Whatever image is scanned, by either program: when the scan has succeeded its
\* lines are a summary that the audit can read, as the audit's theorems assume.
THEOREM ScanSummarised == Spec => [](scan = "done" => Summarised /\ Readable)
<1>1. ScanInv => (scan = "done" => Summarised /\ Readable)
  BY ScanRead
<1>2. QED
  BY <1>1, ScanPrints, PTL

-----------------------------------------------------------------------------
(* Both projects together.                                                 *)

\* The audit begins when the scan has succeeded.
FileInv == ScanInv /\ IF scan = "done" THEN AuditInv ELSE AuditInit

LEMMA StillScanning == Lab3a \/ Lab3aStd => scan # "done"
<1>1. Summary \/ FreeEntries \/ SkipInode \/ InodeSummary => scan # "done"
  BY DEF Summary, FreeEntries, SkipInode, InodeSummary
<1>2. ReadEntry \/ NextBlock \/ EndDirectory \/ IndirectBlocks \/ AllInodes => scan # "done"
  BY DEF ReadEntry, NextBlock, EndDirectory, IndirectBlocks, AllInodes
<1>3. scan_sb \/ scan_groups \/ scan_bitmaps \/ SkipFree \/ PrintInode => scan # "done"
  BY DEF scan_sb, scan_groups, scan_bitmaps, SkipFree, PrintInode
<1>4. /\ ReadDirEntry => scan # "done"
      /\ ReadBeyond => scan # "done"
      /\ NextPointer => scan # "done"
      /\ ReturnFromCall => scan # "done"
  <2>1. ReadDirEntry => scan # "done"
    BY DEF ReadDirEntry
  <2>2. ReadBeyond => scan # "done"
    BY DEF ReadBeyond
  <2>3. NextPointer => scan # "done"
    BY DEF NextPointer
  <2>4. ReturnFromCall => scan = "directory"
    BY Zenon DEF ReturnFromCall
  <2>5. QED
    BY <2>1, <2>2, <2>3, <2>4
<1>5. ScanIndirects \/ CorruptedBitmap \/ free_all => scan # "done"
  BY DEF ScanIndirects, CorruptedBitmap, free_all
<1>6. QED
  BY <1>1, <1>2, <1>3, <1>4, <1>5 DEF Lab3a, Lab3aStd

LEMMA AuditWaits == AuditInit /\ UNCHANGED auditVars => AuditInit'
BY DEF AuditInit, auditVars, summary

LEMMA AuditStarts == ScanInv /\ scan = "done" /\ AuditInit => AuditInv
BY ScanRead, AuditBegins

LEMMA FileBegins == Init => FileInv
<1>1. Init => scan # "done" /\ AuditInit
  BY DEF Init, ScanInit
<1>2. QED
  BY <1>1, ScanBegins DEF FileInv

LEMMA FileKeeps == FileInv /\ [Next]_vars => FileInv'
<1>1. SUFFICES ASSUME FileInv, [Next]_vars PROVE FileInv'
  OBVIOUS
<1>2. ScanInv /\ ScanInv'
  BY <1>1, ScanKeeps DEF FileInv
<1>3. CASE (Lab3a \/ Lab3aStd) /\ UNCHANGED auditVars
  <2>1. AuditInit'
    BY <1>1, <1>3, StillScanning, AuditWaits DEF FileInv
  <2>2. (ScanInv /\ scan = "done" /\ AuditInit => AuditInv)'
    BY AuditStarts, PTL
  <2>3. QED
    BY <1>2, <2>1, <2>2 DEF FileInv
<1>4. CASE scan = "done" /\ Audit /\ UNCHANGED <<image, program, scan, inode_no, cur_block, cur_entry, stack>>
  <2>1. AuditInv'
    BY <1>1, <1>4, AuditKeeps DEF FileInv
  <2>2. QED
    BY <1>2, <1>4, <2>1 DEF FileInv
<1>5. CASE UNCHANGED vars
  <2>1. UNCHANGED <<csv, auditVars>> /\ UNCHANGED auditVars /\ scan' = scan
    BY <1>5 DEF vars, scanVars
  <2>2. CASE scan = "done"
    BY <1>1, <1>2, <2>1, <2>2, StutterKeeps DEF FileInv
  <2>3. CASE scan # "done"
    BY <1>1, <1>2, <2>1, <2>3, AuditWaits DEF FileInv
  <2>4. QED
    BY <2>2, <2>3
<1>6. QED
  BY <1>1, <1>3, <1>4, <1>5 DEF Next

THEOREM FileInvariant == Spec => []FileInv
<1>1. QED
  BY FileBegins, FileKeeps, PTL DEF Spec

LEMMA NotYetAudited == AuditInit => ~AuditEnded
BY DEF AuditInit, AuditEnded

\* What the audit's theorems say of a summary they say of what the scan of any
\* image prints: lab3b is never given, and never makes, anything that they do not
\* cover.
THEOREM ImagesAudited == Spec => [](UnallocatedOnce /\ ExitTells /\ SilentIffConsistent)
<1>1. FileInv => UnallocatedOnce /\ ExitTells /\ SilentIffConsistent
  <2>1. CASE AuditInit
    BY <2>1, NotYetAudited DEF UnallocatedOnce, ExitTells, SilentIffConsistent
  <2>2. CASE AuditInv
    BY <2>2, OnceSays, EndSays, SilenceSays
  <2>3. QED
    BY <2>1, <2>2 DEF FileInv
<1>2. QED
  BY <1>1, FileInvariant, PTL

-----------------------------------------------------------------------------
(* What the audit has read.                                                *)

ReadInv ==
    audit # "parse" /\ Readable =>
        /\ my_sp = Last(Lines("SUPERBLOCK")) /\ my_group = Last(Lines("GROUP"))
        /\ my_bfree = ToSet(NumberFields("BFREE"))
        /\ my_inode = Lines("INODE") /\ my_indir = Lines("INDIRECT") /\ my_dir = Lines("DIRENT")

LEMMA ReadStill ==
    ASSUME ReadInv, UNCHANGED <<csv, summary>>, audit' # "parse" => audit # "parse"
    PROVE  ReadInv'
<1>1. csv' = csv
  OBVIOUS
<1>2. (Readable' <=> Readable) /\ \A kind : Lines(kind)' = Lines(kind)
  BY <1>1 DEF Readable, Lines
<1>3. NumberFields("BFREE")' = NumberFields("BFREE")
  BY <1>2 DEF NumberFields
<1>4. QED
  BY <1>2, <1>3 DEF ReadInv, summary

LEMMA ReadParse ==
    ASSUME Parse, csv' = csv PROVE ReadInv'
<1>1. (Readable' <=> Readable) /\ \A kind : Lines(kind)' = Lines(kind)
  BY DEF Readable, Lines
<1>2. NumberFields("BFREE")' = NumberFields("BFREE")
  BY <1>1 DEF NumberFields
<1>3. QED
  BY <1>1, <1>2 DEF ReadInv, Parse

LEMMA ReadKeeps == ASSUME ReadInv, Audit PROVE ReadInv'
<1>1. CASE Parse
  BY <1>1, ReadParse DEF Audit
<1>2. CASE ~Parse
  <2>1. UNCHANGED <<csv, summary>>
    BY <1>2 DEF Audit
  <2>2. audit # "parse"
    <3>1. /\ AuditInodeBlocks \/ AuditIndirect \/ AuditUnreferenced => audit # "parse"
          /\ AuditInode \/ AuditMissing \/ AuditLinks => audit # "parse"
      BY DEF AuditInodeBlocks, AuditIndirect, AuditUnreferenced, AuditInode, AuditMissing, AuditLinks, Turn
    <3>2. AuditDuplicates \/ FindParents \/ AuditEntry => audit # "parse"
      <4>1. AuditDuplicates \/ FindParents => audit # "parse"
        BY DEF AuditDuplicates, FindParents, EndLoop
      <4>2. AuditEntry => audit = "entries"
        BY Zenon DEF AuditEntry
      <4>3. QED
        BY <4>1, <4>2
    <3>3. NextLoop => audit # "parse"
      BY DEF NextLoop, EndLoop
    <3>4. QED
      BY <1>2, <3>1, <3>2, <3>3 DEF Audit
  <2>3. QED
    BY <2>1, <2>2, ReadStill
<1>3. QED
  BY <1>1, <1>2

LEMMA FileReads == FileInv /\ ReadInv /\ [Next]_vars => ReadInv'
<1>1. SUFFICES ASSUME FileInv, ReadInv, [Next]_vars PROVE ReadInv'
  OBVIOUS
<1>2. CASE (Lab3a \/ Lab3aStd) /\ UNCHANGED auditVars
  <2>1. AuditInit'
    BY <1>1, <1>2, StillScanning, AuditWaits DEF FileInv
  <2>2. QED
    BY <2>1 DEF AuditInit, ReadInv
<1>3. CASE scan = "done" /\ Audit
  BY <1>1, <1>3, ReadKeeps
<1>4. CASE UNCHANGED vars
  BY <1>1, <1>4, ReadStill DEF vars, scanVars, auditVars
<1>5. QED
  BY <1>1, <1>2, <1>3, <1>4 DEF Next


-----------------------------------------------------------------------------
(* Where the pointers in a block are printed, those of all its slots are.  *)

LEMMA BlockKept ==
    ASSUME image \in Images, NEW n \in Nat, NEW level \in 1 .. 3, NEW cur \in Nat, NEW o \in Nat
    PROVE  \E D \in Nat : \E f \in [1 .. D -> IndirectLines] :
              /\ Slots(cur) \in SUBSET (1 .. D)
              /\ \A k \in 1 .. D : f[k] = LineAt(n, level, cur, o, k)
              /\ BlockLines(n, level, cur, o) = FlattenSeq(Kept(D, Slots(cur), f))
<1> DEFINE D == Len(PointersAt(cur))
           keep == Slots(cur)
           f == [k \in 1 .. D |-> LineAt(n, level, cur, o, k)]
<1>1. D \in Nat /\ DOMAIN PointersAt(cur) = 1 .. D /\ keep \in SUBSET (1 .. D)
  BY PointersAtType DEF Slots
<1>2. BlockLines(n, level, cur, o) = FlattenSeq(Kept(D, keep, f))
  <2>1. ASSUME NEW k \in 1 .. D
        PROVE  (IF PointersAt(cur)[k] = 0 THEN <<>> ELSE <<LineAt(n, level, cur, o, k)>>)
                  = IF k \in keep THEN <<f[k]>> ELSE <<>>
    BY <1>1 DEF Slots
  <2>2. [k \in 1 .. D |-> IF PointersAt(cur)[k] = 0 THEN <<>> ELSE <<LineAt(n, level, cur, o, k)>>]
           = Kept(D, keep, f)
    BY <2>1 DEF Kept
  <2>3. QED
    BY <1>1, <2>2 DEF BlockLines
<1>3. \A k \in 1 .. D : f[k] \in IndirectLines /\ f[k] = LineAt(n, level, cur, o, k)
  <2>1. ASSUME NEW k \in 1 .. D PROVE LineAt(n, level, cur, o, k) \in IndirectLines
    BY <1>1, LineAtIs
  <2>2. QED
    BY <2>1
<1>4. f = [k \in 1 .. D |-> f[k]]
  OBVIOUS
<1> HIDE DEF f, keep, D
<1>5. f \in [1 .. D -> IndirectLines]
  BY <1>3, <1>4
<1>6. QED
  BY <1>1, <1>2, <1>3, <1>5 DEF keep

LEMMA BlockTwice ==
    ASSUME image \in Images, NEW n \in Nat, NEW level \in 1 .. 3, NEW cur \in Nat, NEW o \in Nat, NEW X,
           NEW i \in Slots(cur), NEW j \in Slots(cur), i # j,
           LineAt(n, level, cur, o, i) \in X, LineAt(n, level, cur, o, j) \in X
    PROVE  Twice(BlockLines(n, level, cur, o), X)
<1>1. PICK D \in Nat : \E f \in [1 .. D -> IndirectLines] :
         /\ Slots(cur) \in SUBSET (1 .. D)
         /\ \A k \in 1 .. D : f[k] = LineAt(n, level, cur, o, k)
         /\ BlockLines(n, level, cur, o) = FlattenSeq(Kept(D, Slots(cur), f))
  BY BlockKept, ZenonT(40)
<1>2. PICK f \in [1 .. D -> IndirectLines] :
         /\ Slots(cur) \in SUBSET (1 .. D)
         /\ \A k \in 1 .. D : f[k] = LineAt(n, level, cur, o, k)
         /\ BlockLines(n, level, cur, o) = FlattenSeq(Kept(D, Slots(cur), f))
  BY <1>1
<1>3. f[i] \in X /\ f[j] \in X
  BY <1>2
<1>4. PICK keep \in SUBSET (1 .. D) : keep = Slots(cur)
  BY <1>2
<1>5. Twice(FlattenSeq(Kept(D, keep, f)), X)
  BY <1>3, <1>4, KeptTwice
<1>6. QED
  BY <1>2, <1>4, <1>5


LEMMA Tree2Twice ==
    ASSUME image \in Images, NEW n \in Nat, NEW cur \in Nat, NEW o \in Nat, NEW X,
           \/ Twice(BlockLines(n, 2, cur, o), X)
           \/ \E l \in ToSet(BlockLines(n, 2, cur, o)) :
                 Twice(Tree1(n, l.reference_number, l.logical_offset), X)
    PROVE  Twice(Tree2(n, cur, o), X)
<1> DEFINE g == Under1(n)
           lines == BlockLines(n, 2, cur, o)
<1>1. /\ lines \in Seq(LinesFor(n)) /\ g \in [LinesFor(n) -> Seq(LinesFor(n))]
      /\ \A l \in LinesFor(n) : g[l] = Tree1(n, l.reference_number, l.logical_offset)
      /\ Tree2(n, cur, o) = Followed(lines, g)
  BY Tree2Followed
<1> HIDE DEF g
<1>2. ToSet(lines) \subseteq LinesFor(n)
  BY <1>1, RangeType
<1>3. Twice(lines, X) \/ \E l \in ToSet(lines) : Twice(g[l], X)
  BY <1>1, <1>2
<1> HIDE DEF lines
<1>4. Twice(Followed(lines, g), X)
  BY <1>1, <1>3, FollowedTwice
<1>5. QED
  BY <1>1, <1>4

LEMMA Tree3Twice ==
    ASSUME image \in Images, NEW n \in Nat, NEW cur \in Nat, NEW o \in Nat, NEW X,
           \/ Twice(BlockLines(n, 3, cur, o), X)
           \/ \E l \in ToSet(BlockLines(n, 3, cur, o)) :
                 Twice(Tree2(n, l.reference_number, l.logical_offset), X)
    PROVE  Twice(Tree3(n, cur, o), X)
<1> DEFINE g == Under2(n)
           lines == BlockLines(n, 3, cur, o)
<1>1. /\ lines \in Seq(LinesFor(n)) /\ g \in [LinesFor(n) -> Seq(LinesFor(n))]
      /\ \A l \in LinesFor(n) : g[l] = Tree2(n, l.reference_number, l.logical_offset)
      /\ Tree3(n, cur, o) = Followed(lines, g)
  BY Tree3Followed
<1> HIDE DEF g
<1>2. ToSet(lines) \subseteq LinesFor(n)
  BY <1>1, RangeType
<1>3. Twice(lines, X) \/ \E l \in ToSet(lines) : Twice(g[l], X)
  BY <1>1, <1>2
<1> HIDE DEF lines
<1>4. Twice(Followed(lines, g), X)
  BY <1>1, <1>3, FollowedTwice
<1>5. QED
  BY <1>1, <1>4

\* The pointer is in a slot of its block, and what is printed of that block is
\* part of t.
Shown(n, t, p, X) ==
    /\ p.block \in Nat /\ p.slot \in Slots(p.block) /\ p.reference = Pointers(p.block)[p.slot]
    /\ \E level \in 1 .. 3, o \in Nat : Twice(BlockLines(n, level, p.block, o), X) => Twice(t, X)

LEMMA ShownMore ==
    ASSUME NEW n, NEW t, NEW p, NEW X, Shown(n, t, p, X), NEW u, Twice(t, X) => Twice(u, X)
    PROVE  Shown(n, u, p, X)
BY DEF Shown

LEMMA BlockShown ==
    ASSUME image \in Images, NEW n, NEW level \in 1 .. 3, NEW cur \in Nat, cur # 0, NEW o \in Nat,
           NEW offset, NEW first \in BOOLEAN, NEW p \in Below(cur, level, offset, first), NEW X
    PROVE  Shown(n, BlockLines(n, level, cur, o), p, X)
<1>1. PICK k \in Slots(cur) : p = PointerAt(cur, level, offset, first, k)
  <2>1. Below(cur, level, offset, first) = {PointerAt(cur, level, offset, first, k) : k \in Slots(cur)}
    BY BelowIs
  <2>2. QED
    BY <2>1
<1>2. p.block = cur /\ p.slot = k /\ p.reference = Pointers(cur)[k]
  BY <1>1 DEF PointerAt
<1>3. QED
  BY <1>2 DEF Shown

LEMMA Tree2Shown ==
    ASSUME image \in Images, NEW n \in Nat, NEW cur \in Nat, cur # 0,
           NEW o, NEW offset, NEW first \in BOOLEAN, Counts(o, offset, first), NEW X,
           NEW p \in Below(cur, 2, offset, first) \cup Deeper(Below(cur, 2, offset, first))
    PROVE  Shown(n, Tree2(n, cur, o), p, X)
<1> DEFINE one == Below(cur, 2, offset, first)
           lines == ToSet(BlockLines(n, 2, cur, o))
<1>1. o \in Nat /\ 2 \in 1 .. 3 /\ 1 \in 1 .. 3 /\ 2 \in {2, 3} /\ 2 - 1 = 1
  BY DEF Counts
<1>2. one \subseteq Found(2) /\ Right(lines, one)
  BY <1>1, BlockRight
<1>3. CASE p \in one
  <2>1. Shown(n, BlockLines(n, 2, cur, o), p, X)
    BY <1>1, <1>3, BlockShown
  <2>2. Twice(BlockLines(n, 2, cur, o), X) => Twice(Tree2(n, cur, o), X)
    BY <1>1, Tree2Twice
  <2>3. QED
    BY <2>1, <2>2, ShownMore
<1>4. CASE p \in Deeper(one)
  <2>1. PICK q \in one : p \in Below(q.reference, 1, q.offset, q.first)
    <3>1. one \in SUBSET Found(2)
      BY <1>2
    <3> HIDE DEF one
    <3>2. Deeper(one) = Union([r \in one |-> Below(r.reference, 2 - 1, r.offset, r.first)], one)
      BY <1>1, <3>1, DeeperIs
    <3>3. QED
      BY <1>1, <1>4, <3>2 DEF Union
  <2>2. PICK l \in lines : Matches(l, q)
    BY <1>2 DEF Right
  <2>3. PICK b \in Nat, c \in Nat : b = l.reference_number /\ c = l.logical_offset /\ b # 0
    BY <1>1, BlockLinesHave
  <2>4. PICK f \in BOOLEAN : q.reference = b /\ f = q.first
    BY <1>2, <2>2, <2>3 DEF Matches, Found
  <2>5. p \in Below(b, 1, q.offset, f)
    BY <2>1, <2>4
  <2>6. Shown(n, BlockLines(n, 1, b, c), p, X)
    BY <1>1, <2>3, <2>5, BlockShown
  <2>7. Twice(BlockLines(n, 1, b, c), X) => Twice(Tree2(n, cur, o), X)
    <3>1. Tree1(n, l.reference_number, l.logical_offset) = BlockLines(n, 1, b, c)
      BY <2>3 DEF Tree1
    <3>2. QED
      BY <1>1, <3>1, Tree2Twice
  <2>8. QED
    BY <2>6, <2>7, ShownMore
<1>5. QED
  BY <1>3, <1>4


LEMMA Tree3Shown ==
    ASSUME image \in Images, NEW n \in Nat, NEW cur \in Nat, cur # 0,
           NEW o, NEW offset, NEW first \in BOOLEAN, Counts(o, offset, first), NEW X, NEW one,
           one = Below(cur, 3, offset, first),
           NEW p \in one \cup Deeper(one) \cup Deeper(Deeper(one))
    PROVE  Shown(n, Tree3(n, cur, o), p, X)
<1> DEFINE lines == ToSet(BlockLines(n, 3, cur, o))
           below == [q \in one |-> Below(q.reference, 2, q.offset, q.first)]
<1>1. o \in Nat /\ 3 \in 1 .. 3 /\ 3 \in {2, 3} /\ 3 - 1 = 2
  BY DEF Counts
<1>2. one \subseteq Found(3) /\ Right(lines, one)
  BY <1>1, BlockRight
<1>3. CASE p \in one
  <2>1. Shown(n, BlockLines(n, 3, cur, o), p, X)
    BY <1>1, <1>3, BlockShown
  <2>2. Twice(BlockLines(n, 3, cur, o), X) => Twice(Tree3(n, cur, o), X)
    BY <1>1, Tree3Twice
  <2>3. QED
    BY <2>1, <2>2, ShownMore
<1>4. CASE p \in Deeper(one) \cup Deeper(Deeper(one))
  <2>1. PICK q \in one : p \in below[q] \cup Deeper(below[q])
    <3>1. one \in SUBSET Found(3)
      BY <1>2
    <3>2. Deeper(one) = Union([r \in one |-> Below(r.reference, 3 - 1, r.offset, r.first)], one)
      BY <1>1, <3>1, DeeperIs
    <3>3. Deeper(one) = Union(below, one)
      BY <1>1, <3>2
    <3> HIDE DEF below
    <3>4. Deeper(Union(below, one)) = Union([r \in one |-> Deeper(below[r])], one)
      BY DeeperUnion
    <3>5. CASE p \in Union(below, one)
      BY <3>5 DEF Union
    <3>6. CASE p \in Union([r \in one |-> Deeper(below[r])], one)
      BY <3>6 DEF Union
    <3>7. QED
      BY <1>4, <3>3, <3>4, <3>5, <3>6
  <2>2. PICK l \in lines : Matches(l, q)
    BY <1>2 DEF Right
  <2>3. PICK b \in Nat, c \in Nat : b = l.reference_number /\ c = l.logical_offset /\ b # 0
    BY <1>1, BlockLinesHave
  <2>4. q \in Found(3)
    BY <1>2
  <2>5. Counts(c, q.offset, q.first) /\ q.first \in BOOLEAN /\ q.reference = b
    BY <2>2, <2>3, <2>4, MatchCounts
  <2>6. PICK f \in BOOLEAN : f = q.first
    BY <2>5
  <2>7. below[q] = Below(b, 2, q.offset, f)
    BY <2>5, <2>6
  <2> HIDE DEF below
  <2>8. p \in Below(b, 2, q.offset, f) \cup Deeper(Below(b, 2, q.offset, f))
    BY <2>1, <2>7
  <2>9. Counts(c, q.offset, f)
    BY <2>5, <2>6
  <2>10. Shown(n, Tree2(n, b, c), p, X)
    BY <2>3, <2>8, <2>9, Tree2Shown
  <2>11. Twice(Tree2(n, b, c), X) => Twice(Tree3(n, cur, o), X)
    <3>1. Tree2(n, l.reference_number, l.logical_offset) = Tree2(n, b, c)
      BY <2>3
    <3>2. QED
      BY <1>1, <3>1, Tree3Twice
  <2>12. QED
    BY <2>10, <2>11, ShownMore
<1>5. QED
  BY <1>3, <1>4

AllShown(n, t, found, X) == \A p \in found : Shown(n, t, p, X)

LEMMA TreeShown ==
    ASSUME image \in Images, NEW n \in Nat, NEW cur \in Nat, NEW o \in Nat, NEW X
    PROVE  /\ AllShown(n, Tree1(n, cur, o), PointersUnder(cur, 1, o), X)
           /\ AllShown(n, Tree2(n, cur, o), PointersUnder(cur, 2, o), X)
           /\ AllShown(n, Tree3(n, cur, o), PointersUnder(cur, 3, o), X)
<1>1. CASE cur = 0
  <2>1. \A level : PointersUnder(0, level, o) = {}
    BY DEF PointersUnder, Deeper
  <2>2. QED
    BY <1>1, <2>1 DEF AllShown
<1>2. CASE cur # 0
  <2>1. Counts(o, o, TRUE) /\ TRUE \in BOOLEAN /\ 1 \in 1 .. 3
    BY DEF Counts
  <2>2. ASSUME NEW p \in PointersUnder(cur, 1, o) PROVE Shown(n, Tree1(n, cur, o), p, X)
    <3>1. PICK one : one = Below(cur, 1, o, TRUE)
      OBVIOUS
    <3>2. one \subseteq Found(1)
      BY <1>2, <2>1, <3>1, BlockRight
    <3>3. PointersUnder(cur, 1, o) = one \cup Deeper(one) \cup Deeper(Deeper(one))
      BY <1>2, <3>1 DEF PointersUnder
    <3>4. Deeper(one) = {} /\ Deeper({}) = {}
      <4>1. one \in SUBSET Found(1) /\ {} \in SUBSET Found(1)
        BY <3>2
      <4>2. QED
        BY <4>1, DeepestIs
    <3>5. p \in Below(cur, 1, o, TRUE)
      BY <3>1, <3>3, <3>4
    <3>6. QED
      BY <1>2, <2>1, <3>5, BlockShown DEF Tree1
  <2>3. ASSUME NEW p \in PointersUnder(cur, 2, o) PROVE Shown(n, Tree2(n, cur, o), p, X)
    <3>1. PICK one : one = Below(cur, 2, o, TRUE)
      OBVIOUS
    <3>2. Deeper(one) \subseteq Found(1)
      BY <1>2, <2>1, <3>1, Tree2Right
    <3>3. PointersUnder(cur, 2, o) = one \cup Deeper(one) \cup Deeper(Deeper(one))
      BY <1>2, <3>1 DEF PointersUnder
    <3>4. Deeper(Deeper(one)) = {}
      <4>1. Deeper(one) \in SUBSET Found(1)
        BY <3>2
      <4>2. QED
        BY <4>1, DeepestIs
    <3>5. p \in Below(cur, 2, o, TRUE) \cup Deeper(Below(cur, 2, o, TRUE))
      BY <3>1, <3>3, <3>4
    <3>6. QED
      BY <1>2, <2>1, <3>5, Tree2Shown
  <2>4. ASSUME NEW p \in PointersUnder(cur, 3, o) PROVE Shown(n, Tree3(n, cur, o), p, X)
    <3>1. PICK one : one = Below(cur, 3, o, TRUE)
      OBVIOUS
    <3>2. p \in one \cup Deeper(one) \cup Deeper(Deeper(one))
      BY <1>2, <3>1 DEF PointersUnder
    <3>3. QED
      BY <1>2, <2>1, <3>1, <3>2, Tree3Shown
  <2>5. QED
    BY <2>2, <2>3, <2>4 DEF AllShown
<1>3. QED
  BY <1>1, <1>2

LEMMA TreesShown ==
    ASSUME image \in Images, NEW n \in Numbers, NEW p \in PointersOf(n), NEW X
    PROVE  Shown(n, TreesOf(n), p, X)
<1>1. n \in Nat /\ 12 \in Nat /\ 268 \in Nat /\ 65804 \in Nat
  BY RootsAre
<1>2. PICK r, s, t \in Nat : r = At(n).i_block[12] /\ s = At(n).i_block[13] /\ t = At(n).i_block[14]
  BY RootsAre
<1>3. /\ Tree1(n, r, 12) \in Seq(LinesFor(n))
      /\ Tree2(n, s, 268) \in Seq(LinesFor(n))
      /\ Tree3(n, t, 65804) \in Seq(LinesFor(n))
  <2>1. Tree1(n, r, 12) \in Seq(LinesFor(n))
    BY <1>1, Tree1Are
  <2>2. Tree2(n, s, 268) \in Seq(LinesFor(n))
    BY <1>1, Tree2Are
  <2>3. Tree3(n, t, 65804) \in Seq(LinesFor(n))
    BY <1>1, Tree3Are
  <2>4. QED
    BY <2>1, <2>2, <2>3
<1>4. PICK a \in Seq(LinesFor(n)) : a = Tree1(n, r, 12)
  BY <1>3
<1>5. PICK b \in Seq(LinesFor(n)) : b = Tree2(n, s, 268)
  BY <1>3
<1>6. PICK c \in Seq(LinesFor(n)) : c = Tree3(n, t, 65804)
  BY <1>3
<1>7. PICK ab \in Seq(LinesFor(n)) : ab = a \o b
  BY ConcatProperties
<1>8. TreesOf(n) = ab \o c
  BY <1>2, <1>4, <1>5, <1>6, <1>7 DEF TreesOf
<1>9. /\ Twice(a, X) \/ Twice(b, X) => Twice(ab, X)
      /\ Twice(ab, X) \/ Twice(c, X) => Twice(ab \o c, X)
  BY <1>7, TwiceConcat
<1>10. p \in PointersUnder(r, 1, 12) \/ p \in PointersUnder(s, 2, 268) \/ p \in PointersUnder(t, 3, 65804)
  BY <1>2 DEF PointersOf
<1>11. Shown(n, a, p, X) \/ Shown(n, b, p, X) \/ Shown(n, c, p, X)
  <2>1. AllShown(n, Tree1(n, r, 12), PointersUnder(r, 1, 12), X)
    BY <1>1, TreeShown
  <2>2. AllShown(n, Tree2(n, s, 268), PointersUnder(s, 2, 268), X)
    BY <1>1, TreeShown
  <2>3. AllShown(n, Tree3(n, t, 65804), PointersUnder(t, 3, 65804), X)
    BY <1>1, TreeShown
  <2>4. QED
    BY <1>4, <1>5, <1>6, <1>10, <2>1, <2>2, <2>3 DEF AllShown
<1>12. Shown(n, ab \o c, p, X)
  BY <1>9, <1>11, ShownMore
<1>13. QED
  BY <1>8, <1>12


-----------------------------------------------------------------------------
(* What the audit knows of the image, and what it takes for references.    *)

\* Each inode in use has been described, and each pointer of a file or directory.
NothingLeftOut ==
    \A n \in Numbers :
        /\ Scanned(n) <=> InUse(At(n))
        /\ TreePieces[n] = IF InUse(At(n)) /\ Walked(n) THEN TreesOf(n) ELSE <<>>

\* An audit that has begun.
Audited ==
    /\ FileInv /\ ReadInv /\ scan = "done" /\ audit # "parse"
    /\ NothingLeftOut /\ BootBlockEmpty /\ LinksIntact

LEMMA NothingLeftOutByLab3a == image \in Images /\ program = "lab3a" => NothingLeftOut
<1>1. SUFFICES ASSUME image \in Images, program = "lab3a", NEW n \in Numbers
               PROVE  /\ Scanned(n) <=> InUse(At(n))
                      /\ TreePieces[n] = IF InUse(At(n)) /\ Walked(n) THEN TreesOf(n) ELSE <<>>
  BY DEF NothingLeftOut
<1>2. Scanned(n) <=> InUse(At(n))
  BY <1>1 DEF Scanned
<1>3. n \in Nat
  BY <1>1, NumberIs
<1>4. QED
  BY <1>1, <1>2, <1>3 DEF TreePieces

LEMMA AuditedIs ==
    ASSUME Audited
    PROVE  /\ ScanInv /\ AuditInv /\ Readable /\ Facts /\ image \in Images /\ NoTreeAt0
           /\ sb.s_inodes_count \in Nat /\ Numbers = 1 .. sb.s_inodes_count
           /\ Upon(csv, sb.s_inodes_count, sb.s_inodes_count)
<1>1. ScanInv /\ AuditInv /\ scan = "done"
  BY DEF Audited, FileInv
<1>2. Readable
  BY <1>1, ScanRead
<1>3. Facts
  BY <1>1, <1>2 DEF AuditInv, RunInv, Audited
<1>4. /\ image \in Images /\ sb.s_inodes_count \in Nat /\ Numbers = 1 .. sb.s_inodes_count
      /\ Upon(csv, sb.s_inodes_count, sb.s_inodes_count)
  BY <1>1, Printed
<1>5. NoTreeAt0
  BY <1>1 DEF Audited, NoTreeAt0, ScanInv, ScanTypes
<1>6. QED
  BY <1>1, <1>2, <1>3, <1>4, <1>5

LEMMA LinesRead ==
    ASSUME Audited
    PROVE  /\ my_sp = SuperLine /\ my_group = GroupLine
           /\ my_inode = Upto(InodePieces, sb.s_inodes_count)
           /\ my_indir = Upto(TreePieces, sb.s_inodes_count)
<1>1. Upon(csv, sb.s_inodes_count, sb.s_inodes_count) /\ Readable
  BY AuditedIs
<1>2. /\ my_sp = Last(Lines("SUPERBLOCK")) /\ my_group = Last(Lines("GROUP"))
      /\ my_inode = Lines("INODE") /\ my_indir = Lines("INDIRECT")
  BY <1>1 DEF Audited, ReadInv
<1>3. /\ Lines("SUPERBLOCK") = <<SuperLine>> /\ Lines("GROUP") = <<GroupLine>>
      /\ Lines("INODE") = Upto(InodePieces, sb.s_inodes_count)
      /\ Lines("INDIRECT") = Upto(TreePieces, sb.s_inodes_count)
  BY <1>1, LinesOfCsv DEF Upon
<1>4. Last(<<SuperLine>>) = SuperLine /\ Last(<<GroupLine>>) = GroupLine
  BY DEF Last
<1>5. QED
  BY <1>2, <1>3, <1>4

LEMMA UnsetAre ==
    ASSUME NEW bitmap PROVE ToSet(Unset(bitmap)) = (1 .. BitmapBits) \ {bit + 1 : bit \in bitmap}
<1>1. PICK s \in Seq(Nat) : s = [n \in 1 .. BitmapBits |-> n]
  <2>1. BitmapBits \in Nat
    BY BitmapAssumption
  <2>2. [n \in 1 .. BitmapBits |-> n] \in Seq(Nat)
    BY <2>1
  <2>3. QED
    BY <2>2
<1>2. ToSet(s) = 1 .. BitmapBits
  BY <1>1 DEF ToSet
<1>3. Unset(bitmap) = Without(s, {bit + 1 : bit \in bitmap})
  BY <1>1 DEF Unset
<1>4. QED
  BY <1>2, <1>3, RangeWithout

LEMMA FreeRead ==
    ASSUME Audited
    PROVE  my_bfree = {b \in 1 .. BitmapBits : b - 1 \notin image.block_bitmap}
<1>1. Upon(csv, sb.s_inodes_count, sb.s_inodes_count) /\ Readable /\ image \in Images
  BY AuditedIs
<1>2. my_bfree = ToSet(NumberFields("BFREE"))
  BY <1>1 DEF Audited, ReadInv
<1>3. Lines("BFREE") = BFreeLines
  BY <1>1, LinesOfCsv DEF Upon
<1>4. PICK u \in Seq(Nat) : u = Unset(image.block_bitmap)
  BY UnsetType
<1>5. Lines("BFREE") = [k \in DOMAIN u |-> BFree(u[k])]
  BY <1>3, <1>4 DEF BFreeLines
<1>6. \A k \in DOMAIN u : BFree(u[k]).number = u[k]
  BY DEF BFree
<1>7. /\ DOMAIN NumberFields("BFREE") = DOMAIN u
      /\ \A k \in DOMAIN u : NumberFields("BFREE")[k] = u[k]
  BY <1>5, <1>6 DEF NumberFields
<1>8. my_bfree = ToSet(u)
  BY <1>2, <1>7 DEF ToSet
<1>9. PICK bitmap \in SUBSET Nat : bitmap = image.block_bitmap
  <2>1. image.block_bitmap \subseteq 0 .. BitmapBits - 1 /\ BitmapBits \in Nat
    BY <1>1, ImageFacts, BitmapAssumption
  <2>2. \A n \in 0 .. BitmapBits - 1 : n \in Nat
    BY <2>1
  <2>3. QED
    BY <2>1, <2>2
<1>10. my_bfree = (1 .. BitmapBits) \ {bit + 1 : bit \in bitmap}
  BY <1>4, <1>8, <1>9, UnsetAre
<1>11. ASSUME NEW b \in 1 .. BitmapBits PROVE b \in {bit + 1 : bit \in bitmap} <=> b - 1 \in bitmap
  <2>1. b \in Int /\ (b - 1) + 1 = b
    BY BitmapAssumption
  <2>2. \A bit \in bitmap : bit \in Int /\ (bit + 1 = b => bit = b - 1)
    BY <2>1
  <2>3. QED
    BY <2>1, <2>2
<1>12. QED
  BY <1>9, <1>10, <1>11

\* The blocks that the audit looks at are the data blocks.
LEMMA BlocksRead ==
    ASSUME Audited
    PROVE  DataBlocks = start_block .. my_group.bid_group - 1 /\ my_sp.num_blocks = sb.s_blocks_count
<1>1. my_sp = SuperLine /\ my_group = GroupLine /\ image \in Images
  BY LinesRead, AuditedIs
<1>2. /\ my_sp.num_blocks = sb.s_blocks_count /\ my_sp.block_size = block_size
      /\ my_sp.inode_size = sb.s_inode_size /\ my_group.iid_group = sb.s_inodes_count
      /\ my_group.bid_group = sb.s_blocks_count
      /\ my_group.first_block_inode = image.group.bg_inode_table
  BY <1>1, HeadsAre
<1>3. QED
  BY <1>2 DEF DataBlocks, start_block


\* The references, and the lines, that are to block b.
To(b) == {r \in Mentioned : r.block = b}
LinesTo(b) == {l \in IndirectLines : l.reference_number = b}

ByInode == FlattenSeq([k \in DOMAIN my_inode |-> InodeReferences(my_inode[k])])
ByPointer == [k \in DOMAIN my_indir |-> IndirectReference(my_indir[k])]

LEMMA ReferencesRead ==
    ASSUME Audited
    PROVE  /\ my_inode \in Seq(InodeLines) /\ my_indir \in Seq(IndirectLines)
           /\ [k \in DOMAIN my_inode |-> InodeReferences(my_inode[k])] \in Seq(Seq(Mentioned))
           /\ ByInode \in Seq(Mentioned) /\ ByPointer \in Seq(Mentioned)
           /\ References \in Seq(Mentioned) /\ References = ByInode \o ByPointer
           /\ ToSet(References) = ToSet(ByInode) \cup ToSet(ByPointer)
<1>1. Facts
  BY AuditedIs
<1>2. my_inode \in Seq(InodeLines) /\ my_indir \in Seq(IndirectLines)
  BY <1>1 DEF Facts
<1>3. /\ Len(my_inode) \in 0 .. Len(my_inode) /\ DOMAIN my_inode = 1 .. Len(my_inode)
      /\ Len(my_indir) \in 0 .. Len(my_indir) /\ DOMAIN my_indir = 1 .. Len(my_indir)
  BY <1>2
<1>4. /\ [k \in DOMAIN my_inode |-> InodeReferences(my_inode[k])] \in Seq(Seq(Mentioned))
      /\ ByInode \in Seq(Mentioned)
  BY <1>1, <1>3, PiecesAre DEF ByInode
<1>5. ByPointer \in Seq(Mentioned)
  BY <1>1, <1>3, TreesAre DEF ByPointer
<1>6. References = ByInode \o ByPointer
  BY DEF References, ByInode, ByPointer
<1>7. PICK x \in Seq(Mentioned), y \in Seq(Mentioned) : x = ByInode /\ y = ByPointer
  BY <1>4, <1>5
<1>8. x \o y \in Seq(Mentioned) /\ ToSet(x \o y) = ToSet(x) \cup ToSet(y)
  BY RangeConcat, ConcatProperties
<1>9. QED
  BY <1>2, <1>4, <1>5, <1>6, <1>7, <1>8

\* The lines that there are for inodes.
LEMMA InodeRead ==
    ASSUME Audited
    PROVE  /\ \A n \in Numbers : InUse(At(n)) => \E k \in DOMAIN my_inode : my_inode[k] = LineOf(n)
           /\ \A k \in DOMAIN my_inode : \E n \in Numbers : InUse(At(n)) /\ my_inode[k] = LineOf(n)
<1>1. PICK c \in Nat : c = sb.s_inodes_count /\ Numbers = 1 .. c /\ image \in Images
  BY AuditedIs
<1>2. my_inode = Upto(InodePieces, c)
  BY <1>1, LinesRead
<1>3. InodePieces \in [Nat -> Seq(ScanLines)]
  BY <1>1, PiecesType
<1>4. ToSet(my_inode) = UNION {ToSet(InodePieces[n]) : n \in 1 .. c}
  BY <1>2, <1>3, UptoRange
<1>5. \A n \in 1 .. c : Scanned(n) <=> InUse(At(n))
  BY <1>1 DEF Audited, NothingLeftOut
<1>6. ASSUME NEW n \in 1 .. c PROVE ToSet(InodePieces[n]) = IF InUse(At(n)) THEN {LineOf(n)} ELSE {}
  <2>1. InodePieces[n] = IF InUse(At(n)) THEN <<LineOf(n)>> ELSE <<>>
    BY <1>5 DEF InodePieces
  <2>2. ToSet(<<LineOf(n)>>) = {LineOf(n)}
    BY DEF ToSet
  <2>3. QED
    BY <2>1, <2>2, RangeNothing
<1>7. ASSUME NEW l PROVE l \in ToSet(my_inode) <=> \E n \in 1 .. c : InUse(At(n)) /\ l = LineOf(n)
  <2>1. l \in ToSet(my_inode) <=> \E n \in 1 .. c : l \in ToSet(InodePieces[n])
    BY <1>4
  <2>2. QED
    BY <1>6, <2>1
<1>8. \A l : l \in ToSet(my_inode) <=> \E k \in DOMAIN my_inode : l = my_inode[k]
  BY DEF ToSet
<1>9. QED
  BY <1>1, <1>7, <1>8

LEMMA SeqElements ==
    ASSUME NEW S, NEW s \in Seq(S), NEW m \in Nat, Len(s) = m
    PROVE  DOMAIN s = 1 .. m /\ \A i \in 1 .. m : s[i] \in S
OBVIOUS

\* The references in the line of an inode are the addresses in the inode; there
\* are none in that of a short symbolic link.
LEMMA AddressesRead ==
    ASSUME Audited, NEW n \in Numbers, ~Text(n)
    PROVE  \E refs \in Seq(Mentioned) :
              /\ InodeReferences(LineOf(n)) = Without(refs, {r \in ToSet(refs) : r.block = 0})
              /\ Len(refs) = 15 /\ \A k \in 1 .. 15 : refs[k].block = At(n).i_block[k - 1]
<1>1. image \in Images
  BY AuditedIs
<1>2. /\ LineOf(n) \in InodeLines /\ LineOf(n).inode_number = n
      /\ LineOf(n).file_type = FileFormat(At(n).i_mode)
      /\ LineOf(n).disk_space = At(n).i_blocks /\ LineOf(n).block_address = ShownAddresses(n)
  BY <1>1, LineOfIs
<1>3. At(n).i_mode = "lnk" => At(n).i_blocks # 0 /\ ~(At(n).i_size < 60)
  BY DEF Audited, LinksIntact, Text
<1>4. FileFormat(At(n).i_mode) = "s" => At(n).i_mode = "lnk"
  BY DEF FileFormat
<1>5. PICK a \in Seq(Nat) : /\ a = Addresses(At(n)) /\ Len(a) = 15
                            /\ \A k \in 1 .. 15 : a[k] = At(n).i_block[k - 1]
  BY <1>1, AddressesAre
<1>6. LineOf(n).block_address = a
  BY <1>2, <1>3, <1>4, <1>5 DEF ShownAddresses
<1>7. ~(LineOf(n).disk_space = 0 /\ LineOf(n).file_type = "s")
  BY <1>2, <1>3, <1>4
<1> DEFINE refs == [k \in DOMAIN a |-> Reference(AddressLevel(k - 1), a[k], n, AddressOffset(k - 1))]
<1>8. InodeReferences(LineOf(n)) = Without(refs, {r \in ToSet(refs) : r.block = 0})
  BY <1>2, <1>6, <1>7 DEF InodeReferences
<1>9. DOMAIN a = 1 .. 15 /\ n \in Nat /\ \A k \in 1 .. 15 : a[k] \in Nat
  <2>1. DOMAIN a = 1 .. 15 /\ \A k \in 1 .. 15 : a[k] \in Nat
    <3>1. a \in Seq(Nat) /\ 15 \in Nat /\ Len(a) = 15
      BY <1>5
    <3>2. QED
      BY <3>1, SeqElements
  <2>2. n \in Nat
    BY <1>1, NumberIs
  <2>3. QED
    BY <2>1, <2>2
<1>10. ASSUME NEW k \in 1 .. 15 PROVE refs[k] \in Mentioned /\ refs[k].block = a[k]
  <2>1. refs[k] = Reference(AddressLevel(k - 1), a[k], n, AddressOffset(k - 1))
    BY <1>9
  <2>2. PICK x \in Nat, y \in Nat, d \in Nat : x = AddressLevel(k - 1) /\ y = AddressOffset(k - 1) /\ d = a[k]
    <3>1. a[k] \in Nat
      BY <1>9
    <3>2. AddressLevel(k - 1) \in Nat
      BY DEF AddressLevel
    <3>3. AddressOffset(k - 1) \in Nat
      BY DEF AddressOffset
    <3>4. QED
      BY <3>1, <3>2, <3>3
  <2>3. Reference(x, d, n, y) \in Mentioned
    <3>1. d \in Int /\ n \in Nat
      BY <1>9
    <3>2. QED
      BY <3>1, ReferenceIs
  <2>4. Reference(x, d, n, y).block = d
    BY DEF Reference
  <2>5. QED
    BY <2>1, <2>2, <2>3, <2>4
<1>11. refs = [k \in 1 .. 15 |-> refs[k]]
  BY <1>9
<1> HIDE DEF refs
<1>12. refs \in Seq(Mentioned) /\ Len(refs) = 15
  BY <1>10, <1>11
<1>13. QED
  BY <1>5, <1>8, <1>10, <1>12

LEMMA NoneOfText ==
    ASSUME Audited, NEW n \in Numbers, Text(n)
    PROVE  InodeReferences(LineOf(n)) = <<>>
<1>1. LineOf(n).file_type = FileFormat(At(n).i_mode) /\ LineOf(n).disk_space = At(n).i_blocks
  BY AuditedIs, LineOfIs
<1>2. At(n).i_mode = "lnk" /\ At(n).i_blocks = 0
  BY DEF Audited, LinksIntact, Text
<1>3. FileFormat("lnk") = "s"
  BY DEF FileFormat
<1>4. QED
  BY <1>1, <1>2, <1>3 DEF InodeReferences

\* A block is among the references in the line of an inode when it is among the
\* addresses of the inode, and twice when it is there twice.
LEMMA AddressShown ==
    ASSUME Audited, NEW n \in Numbers, ~Text(n), NEW k \in 0 .. 14, At(n).i_block[k] # 0
    PROVE  Has(InodeReferences(LineOf(n)), To(At(n).i_block[k]))
<1>1. PICK refs \in Seq(Mentioned) :
         /\ InodeReferences(LineOf(n)) = Without(refs, {r \in ToSet(refs) : r.block = 0})
         /\ Len(refs) = 15 /\ \A i \in 1 .. 15 : refs[i].block = At(n).i_block[i - 1]
  BY AddressesRead
<1> DEFINE zeros == {r \in ToSet(refs) : r.block = 0}
<1>2. PICK i \in 1 .. 15 : i - 1 = k
  <2>1. k + 1 \in 1 .. 15 /\ (k + 1) - 1 = k
    OBVIOUS
  <2>2. QED
    BY <2>1
<1>3. DOMAIN refs = 1 .. 15 /\ \A v \in 1 .. 15 : refs[v] \in Mentioned
  <2>1. refs \in Seq(Mentioned) /\ 15 \in Nat /\ Len(refs) = 15
    BY <1>1
  <2>2. QED
    BY <2>1, SeqElements
<1>4. refs[i] \in Mentioned /\ refs[i].block = At(n).i_block[k] /\ refs[i] \in ToSet(refs)
  BY <1>1, <1>2, <1>3 DEF ToSet
<1>5. refs[i] \in ToSet(refs) \ zeros /\ refs[i] \in To(At(n).i_block[k])
  BY <1>4 DEF To
<1>6. ToSet(Without(refs, zeros)) = ToSet(refs) \ zeros
  BY RangeWithout
<1>7. \E j \in DOMAIN InodeReferences(LineOf(n)) : refs[i] = InodeReferences(LineOf(n))[j]
  BY <1>1, <1>5, <1>6 DEF ToSet
<1>8. QED
  BY <1>5, <1>7 DEF Has

LEMMA AddressTwice ==
    ASSUME Audited, NEW n \in Numbers, ~Text(n), NEW j \in 0 .. 14, NEW k \in 0 .. 14, j # k,
           At(n).i_block[k] # 0, At(n).i_block[j] = At(n).i_block[k]
    PROVE  Twice(InodeReferences(LineOf(n)), To(At(n).i_block[k]))
<1>1. PICK refs \in Seq(Mentioned) :
         /\ InodeReferences(LineOf(n)) = Without(refs, {r \in ToSet(refs) : r.block = 0})
         /\ Len(refs) = 15 /\ \A i \in 1 .. 15 : refs[i].block = At(n).i_block[i - 1]
  BY AddressesRead
<1> DEFINE zeros == {r \in ToSet(refs) : r.block = 0}
           X == To(At(n).i_block[k])
<1>2. PICK x \in 1 .. 15, y \in 1 .. 15 : x - 1 = j /\ y - 1 = k /\ x # y
  <2>1. j + 1 \in 1 .. 15 /\ (j + 1) - 1 = j /\ k + 1 \in 1 .. 15 /\ (k + 1) - 1 = k /\ j + 1 # k + 1
    OBVIOUS
  <2>2. QED
    BY <2>1
<1>3. DOMAIN refs = 1 .. 15 /\ \A i \in 1 .. 15 : refs[i] \in Mentioned
  <2>1. refs \in Seq(Mentioned) /\ 15 \in Nat /\ Len(refs) = 15
    BY <1>1
  <2>2. QED
    BY <2>1, SeqElements
<1>4. refs[x] \in Mentioned /\ refs[y] \in Mentioned
  BY <1>2, <1>3
<1>5. refs[x].block = At(n).i_block[k] /\ refs[y].block = At(n).i_block[k]
  BY <1>1, <1>2
<1>6. refs[x] \in X /\ refs[y] \in X
  BY <1>4, <1>5 DEF To
<1>7. Twice(refs, X)
  BY <1>2, <1>3, <1>6 DEF Twice
<1>8. X \cap zeros = {}
  BY DEF To
<1> HIDE DEF zeros, X
<1>9. Twice(Without(refs, zeros), X)
  BY <1>7, <1>8, WithoutTwice
<1>10. QED
  BY <1>1, <1>9 DEF zeros, X

LEMMA AddressIs ==
    ASSUME Audited, NEW n \in Numbers, NEW r \in ToSet(InodeReferences(LineOf(n)))
    PROVE  ~Text(n) /\ r.block # 0 /\ \E k \in 0 .. 14 : At(n).i_block[k] = r.block
<1>1. ~Text(n)
  BY NoneOfText, RangeNothing
<1>2. PICK refs \in Seq(Mentioned) :
         /\ InodeReferences(LineOf(n)) = Without(refs, {q \in ToSet(refs) : q.block = 0})
         /\ Len(refs) = 15 /\ \A i \in 1 .. 15 : refs[i].block = At(n).i_block[i - 1]
  BY <1>1, AddressesRead
<1>3. ToSet(Without(refs, {q \in ToSet(refs) : q.block = 0})) = ToSet(refs) \ {q \in ToSet(refs) : q.block = 0}
  BY RangeWithout
<1>4. r \in ToSet(refs) /\ r.block # 0
  BY <1>2, <1>3
<1>5. DOMAIN refs = 1 .. 15
  BY <1>2
<1>6. PICK i \in 1 .. 15 : r = refs[i]
  BY <1>4, <1>5 DEF ToSet
<1>7. PICK k \in 0 .. 14 : k = i - 1
  <2>1. i - 1 \in 0 .. 14
    OBVIOUS
  <2>2. QED
    BY <2>1
<1>8. QED
  BY <1>1, <1>2, <1>4, <1>6, <1>7

\* The lines that there are for pointers.
LEMMA TreeLines ==
    ASSUME Audited
    PROVE  \A l : (\E k \in DOMAIN my_indir : l = my_indir[k]) <=>
                     \E n \in Numbers : InUse(At(n)) /\ Walked(n) /\ l \in ToSet(TreesOf(n))
<1>1. PICK c \in Nat : c = sb.s_inodes_count /\ Numbers = 1 .. c /\ image \in Images
  BY AuditedIs
<1>2. my_indir = Upto(TreePieces, c)
  BY <1>1, LinesRead
<1>3. TreePieces \in [Nat -> Seq(ScanLines)]
  BY <1>1, PiecesType
<1>4. ToSet(my_indir) = UNION {ToSet(TreePieces[n]) : n \in 1 .. c}
  BY <1>2, <1>3, UptoRange
<1>5. \A n \in 1 .. c : TreePieces[n] = IF InUse(At(n)) /\ Walked(n) THEN TreesOf(n) ELSE <<>>
  BY <1>1 DEF Audited, NothingLeftOut
<1>6. ASSUME NEW n \in 1 .. c, NEW l
      PROVE  l \in ToSet(TreePieces[n]) <=> InUse(At(n)) /\ Walked(n) /\ l \in ToSet(TreesOf(n))
  <2>1. TreePieces[n] = IF InUse(At(n)) /\ Walked(n) THEN TreesOf(n) ELSE <<>>
    BY <1>5
  <2>2. QED
    BY <2>1, RangeNothing
<1>7. ASSUME NEW l PROVE l \in ToSet(my_indir) <=> \E n \in 1 .. c : l \in ToSet(TreePieces[n])
  BY <1>4
<1>8. \A l : l \in ToSet(my_indir) <=> \E k \in DOMAIN my_indir : l = my_indir[k]
  BY DEF ToSet
<1>9. QED
  BY <1>1, <1>6, <1>7, <1>8

\* What the lines say of the pointers.
LEMMA PointerLines ==
    ASSUME Audited, NEW n \in Numbers
    PROVE  /\ \A l \in ToSet(TreesOf(n)) :
                 l.parent_inode_number = n /\ \E p \in PointersOf(n) : l.reference_number = p.reference
           /\ \A p \in PointersOf(n) : \E l \in ToSet(TreesOf(n)) :
                 l.block_number = p.block /\ l.reference_number = p.reference
<1>1. image \in Images /\ NoTreeAt0
  BY AuditedIs
<1>2. Right(ToSet(TreesOf(n)), PointersOf(n))
  BY <1>1, TreesRight
<1>3. ToSet(TreesOf(n)) \subseteq LinesFor(n)
  BY <1>1, TreesOfType, RangeType
<1>4. QED
  BY <1>2, <1>3 DEF Right, Matches, LinesFor

LEMMA PointerShown ==
    ASSUME Audited, NEW n \in Numbers, InUse(At(n)), Walked(n), NEW p \in PointersOf(n)
    PROVE  \E k \in DOMAIN my_indir :
              /\ my_indir[k].parent_inode_number = n /\ my_indir[k].block_number = p.block
              /\ my_indir[k] \in LinesTo(p.reference)
<1>1. PICK l \in ToSet(TreesOf(n)) :
         l.parent_inode_number = n /\ l.block_number = p.block /\ l.reference_number = p.reference
  BY PointerLines
<1>2. PICK k \in DOMAIN my_indir : l = my_indir[k]
  BY <1>1, TreeLines
<1>3. my_indir[k] \in IndirectLines
  BY <1>2, ReferencesRead
<1>4. QED
  BY <1>1, <1>2, <1>3 DEF LinesTo

LEMMA PointerTwice ==
    ASSUME Audited, NEW n \in Numbers, InUse(At(n)), Walked(n),
           NEW p \in PointersOf(n), NEW q \in PointersOf(n),
           p.block = q.block, p.slot # q.slot, p.reference = q.reference
    PROVE  Twice(my_indir, LinesTo(p.reference))
<1>1. PICK c \in Nat : c = sb.s_inodes_count /\ Numbers = 1 .. c /\ image \in Images
  BY AuditedIs
<1>2. PICK X : X = LinesTo(p.reference)
  OBVIOUS
<1>3. Shown(n, TreesOf(n), p, X) /\ Shown(n, TreesOf(n), q, X)
  BY <1>1, TreesShown
<1>4. PICK cur \in Nat : cur = p.block
  BY <1>3 DEF Shown
<1>5. PICK i \in Slots(cur), j \in Slots(cur) : i = p.slot /\ j = q.slot /\ i # j
  BY <1>3, <1>4 DEF Shown
<1>6. PICK level \in 1 .. 3, o \in Nat : Twice(BlockLines(n, level, cur, o), X) => Twice(TreesOf(n), X)
  BY <1>3, <1>4 DEF Shown
<1>7. PointersAt(cur)[i] = p.reference /\ PointersAt(cur)[j] = p.reference
  <2>1. Pointers(cur)[i] = p.reference /\ Pointers(cur)[j] = p.reference
    BY <1>3, <1>4, <1>5 DEF Shown
  <2>2. PointersAt(cur) = Pointers(cur)
    BY <1>1, <1>5 DEF Slots, PointersAt
  <2>3. QED
    BY <2>1, <2>2
<1>8. n \in Nat
  BY <1>1
<1>9. ASSUME NEW k \in Slots(cur), PointersAt(cur)[k] = p.reference
      PROVE  LineAt(n, level, cur, o, k) \in X
  <2>1. k \in DOMAIN PointersAt(cur)
    BY <1>9 DEF Slots
  <2>2. /\ LineAt(n, level, cur, o, k) \in IndirectLines
        /\ LineAt(n, level, cur, o, k).reference_number = PointersAt(cur)[k]
    BY <1>1, <1>8, <2>1, LineAtIs
  <2>3. QED
    BY <1>2, <1>9, <2>2 DEF LinesTo
<1>10. Twice(BlockLines(n, level, cur, o), X)
  <2>1. LineAt(n, level, cur, o, i) \in X /\ LineAt(n, level, cur, o, j) \in X
    BY <1>7, <1>9
  <2>2. QED
    BY <1>1, <1>5, <1>8, <2>1, BlockTwice
<1>11. Twice(TreesOf(n), X)
  BY <1>6, <1>10
<1>12. TreePieces[n] = TreesOf(n)
  BY DEF Audited, NothingLeftOut
<1>13. TreePieces \in [Nat -> Seq(ScanLines)]
  BY <1>1, PiecesType
<1>14. PICK m \in 1 .. c : m = n
  BY <1>1
<1>15. Twice(TreePieces[m], X)
  BY <1>11, <1>12, <1>14
<1>16. Twice(Upto(TreePieces, c), X)
  BY <1>13, <1>15, UptoTwice
<1>17. QED
  BY <1>1, <1>2, <1>16, LinesRead

\* A line makes a reference to the same block.
LEMMA PointerMeant ==
    ASSUME Audited, NEW k \in DOMAIN my_indir
    PROVE  /\ k \in DOMAIN ByPointer /\ ByPointer[k].block = my_indir[k].reference_number
           /\ ByPointer[k] \in Mentioned
<1>1. /\ k \in DOMAIN ByPointer
      /\ ByPointer[k] = IndirectReference(my_indir[k])
  BY DEF ByPointer
<1>2. IndirectReference(my_indir[k]).block = my_indir[k].reference_number
  BY DEF IndirectReference, Reference
<1>3. my_indir[k] \in IndirectLines
  BY ReferencesRead
<1>4. QED
  BY <1>1, <1>2, <1>3, IndirectIs

LEMMA PointersMeant ==
    ASSUME Audited, NEW b, Twice(my_indir, LinesTo(b))
    PROVE  Twice(ByPointer, To(b))
<1>1. PICK i \in DOMAIN my_indir, j \in DOMAIN my_indir :
         i # j /\ my_indir[i].reference_number = b /\ my_indir[j].reference_number = b
  BY DEF Twice, LinesTo
<1>2. /\ i \in DOMAIN ByPointer /\ ByPointer[i].block = b /\ ByPointer[i] \in Mentioned
      /\ j \in DOMAIN ByPointer /\ ByPointer[j].block = b /\ ByPointer[j] \in Mentioned
  BY <1>1, PointerMeant
<1>3. QED
  BY <1>1, <1>2 DEF Twice, To

-----------------------------------------------------------------------------
(* Silence.                                                                *)

\* The mentions by inode n.
Addressed(n, m) ==
    ~Text(n) /\ \E k \in 0 .. 14 : At(n).i_block[k] # 0 /\ m = <<n, -1, k, At(n).i_block[k]>>
Pointed(n, m) ==
    Walked(n) /\ \E p \in PointersOf(n) : m = <<n, p.block, p.slot, p.reference>>

LEMMA MentionsAre ==
    \A m : m \in Mentions <=> \E n \in Numbers : InUse(At(n)) /\ (Addressed(n, m) \/ Pointed(n, m))
<1> DEFINE By(n) == (IF Text(n) THEN {}
                     ELSE {<<n, -1, k, At(n).i_block[k]>> : k \in {i \in 0 .. 14 : At(n).i_block[i] # 0}})
                    \cup (IF Walked(n) THEN {<<n, p.block, p.slot, p.reference>> : p \in PointersOf(n)} ELSE {})
<1>1. Mentions = UNION {By(n) : n \in {i \in Numbers : InUse(At(i))}}
  BY Zenon DEF Mentions
<1>2. ASSUME NEW n, NEW m PROVE m \in By(n) <=> Addressed(n, m) \/ Pointed(n, m)
  BY Zenon DEF Addressed, Pointed
<1> HIDE DEF By
<1>3. QED
  BY <1>1, <1>2

\* What is mentioned is referred to, and nothing else is.
LEMMA AddressReferred ==
    ASSUME Audited, NEW n \in Numbers, InUse(At(n)), NEW m, Addressed(n, m)
    PROVE  \E i \in DOMAIN my_inode : my_inode[i] = LineOf(n) /\ Has(InodeReferences(my_inode[i]), To(m[4]))
<1>1. PICK k \in 0 .. 14 : At(n).i_block[k] # 0 /\ m = <<n, -1, k, At(n).i_block[k]>>
  BY DEF Addressed
<1>2. m[4] = At(n).i_block[k] /\ ~Text(n)
  BY <1>1 DEF Addressed
<1>3. Has(InodeReferences(LineOf(n)), To(m[4]))
  BY <1>1, <1>2, AddressShown
<1>4. PICK i \in DOMAIN my_inode : my_inode[i] = LineOf(n)
  BY InodeRead
<1>5. QED
  BY <1>3, <1>4

LEMMA PointerReferred ==
    ASSUME Audited, NEW n \in Numbers, InUse(At(n)), NEW m, Pointed(n, m)
    PROVE  \E k \in DOMAIN my_indir : /\ my_indir[k].parent_inode_number = n
                                      /\ my_indir[k].block_number = m[2]
                                      /\ my_indir[k] \in LinesTo(m[4])
<1>1. PICK p \in PointersOf(n) : m = <<n, p.block, p.slot, p.reference>>
  BY DEF Pointed
<1>2. m[2] = p.block /\ m[4] = p.reference /\ Walked(n)
  BY <1>1 DEF Pointed
<1>3. QED
  BY <1>2, PointerShown

\* One inode refers to the block, or one line does.
LEMMA HasByInode ==
    ASSUME Audited, NEW b, NEW i \in DOMAIN my_inode, Has(InodeReferences(my_inode[i]), To(b))
    PROVE  Has(ByInode, To(b))
<1>1. PICK ss \in Seq(Seq(Mentioned)) : ss = [k \in DOMAIN my_inode |-> InodeReferences(my_inode[k])]
  BY ReferencesRead
<1>2. ss[i] \in ToSet(ss) /\ ss[i] = InodeReferences(my_inode[i]) /\ i \in DOMAIN ss
  BY <1>1 DEF ToSet
<1>3. PICK r : r \in ToSet(ss[i]) /\ r \in To(b)
  BY <1>2 DEF Has, ToSet
<1>4. r \in ToSet(FlattenSeq(ss))
  BY <1>2, <1>3, RangeFlatten
<1>5. FlattenSeq(ss) = ByInode
  BY <1>1 DEF ByInode
<1>6. QED
  BY <1>3, <1>4, <1>5 DEF Has, ToSet

LEMMA HasByPointer ==
    ASSUME Audited, NEW b, NEW k \in DOMAIN my_indir, my_indir[k] \in LinesTo(b)
    PROVE  Has(ByPointer, To(b))
<1>1. my_indir[k].reference_number = b
  BY DEF LinesTo
<1>2. k \in DOMAIN ByPointer /\ ByPointer[k].block = b /\ ByPointer[k] \in Mentioned
  BY <1>1, PointerMeant
<1>3. QED
  BY <1>2 DEF Has, To

LEMMA HasReferences ==
    ASSUME Audited, NEW b, Has(ByInode, To(b)) \/ Has(ByPointer, To(b))
    PROVE  \E r \in ToSet(References) : r.block = b
<1>1. \E r : r \in To(b) /\ (r \in ToSet(ByInode) \/ r \in ToSet(ByPointer))
  BY DEF Has, ToSet
<1>2. ToSet(References) = ToSet(ByInode) \cup ToSet(ByPointer)
  BY ReferencesRead
<1>3. QED
  BY <1>1, <1>2 DEF To

LEMMA MentionReferred ==
    ASSUME Audited, NEW m \in Mentions
    PROVE  \E r \in ToSet(References) : r.block = m[4]
<1>1. PICK n \in Numbers : InUse(At(n)) /\ (Addressed(n, m) \/ Pointed(n, m))
  BY MentionsAre
<1>2. Has(ByInode, To(m[4])) \/ Has(ByPointer, To(m[4]))
  <2>1. CASE Addressed(n, m)
    BY <1>1, <2>1, AddressReferred, HasByInode
  <2>2. CASE Pointed(n, m)
    BY <1>1, <2>2, PointerReferred, HasByPointer
  <2>3. QED
    BY <1>1, <2>1, <2>2
<1>3. QED
  BY <1>2, HasReferences

LEMMA ReferenceMentioned ==
    ASSUME Audited, NEW r \in ToSet(References)
    PROVE  \E m \in Mentions : m[4] = r.block
<1>1. r \in ToSet(ByInode) \/ r \in ToSet(ByPointer)
  BY ReferencesRead
<1>2. CASE r \in ToSet(ByInode)
  <2>1. PICK ss \in Seq(Seq(Mentioned)) : ss = [k \in DOMAIN my_inode |-> InodeReferences(my_inode[k])]
    BY ReferencesRead
  <2>2. FlattenSeq(ss) = ByInode
    BY <2>1 DEF ByInode
  <2>3. PICK s \in ToSet(ss) : r \in ToSet(s)
    BY <1>2, <2>2, RangeFlatten
  <2>4. PICK i \in DOMAIN my_inode : s = InodeReferences(my_inode[i])
    BY <2>1, <2>3 DEF ToSet
  <2>5. PICK n \in Numbers : InUse(At(n)) /\ my_inode[i] = LineOf(n)
    BY InodeRead
  <2>6. ~Text(n) /\ r.block # 0 /\ \E k \in 0 .. 14 : At(n).i_block[k] = r.block
    BY <2>3, <2>4, <2>5, AddressIs
  <2>7. PICK k \in 0 .. 14 : At(n).i_block[k] = r.block
    BY <2>6
  <2>8. PICK m : m = <<n, -1, k, At(n).i_block[k]>>
    OBVIOUS
  <2>9. m[4] = r.block /\ Addressed(n, m)
    BY <2>6, <2>7, <2>8 DEF Addressed
  <2>10. QED
    BY <2>5, <2>9, MentionsAre
<1>3. CASE r \in ToSet(ByPointer)
  <2>1. PICK k \in DOMAIN my_indir : r = ByPointer[k]
    BY <1>3 DEF ToSet, ByPointer
  <2>2. r.block = my_indir[k].reference_number
    BY <2>1, PointerMeant
  <2>3. PICK n \in Numbers : InUse(At(n)) /\ Walked(n) /\ my_indir[k] \in ToSet(TreesOf(n))
    BY TreeLines
  <2>4. PICK p \in PointersOf(n) : my_indir[k].reference_number = p.reference
    BY <2>3, PointerLines
  <2>5. PICK m : m = <<n, p.block, p.slot, p.reference>>
    OBVIOUS
  <2>6. m[4] = r.block /\ Pointed(n, m)
    BY <2>2, <2>3, <2>4, <2>5 DEF Pointed
  <2>7. QED
    BY <2>3, <2>6, MentionsAre
<1>4. QED
  BY <1>1, <1>2, <1>3

LEMMA TwiceReferences ==
    ASSUME Audited, NEW b,
           Twice(ByInode, To(b)) \/ Twice(ByPointer, To(b)) \/ (Has(ByInode, To(b)) /\ Has(ByPointer, To(b)))
    PROVE  Twice(References, To(b))
<1>1. PICK x \in Seq(Mentioned), y \in Seq(Mentioned) : x = ByInode /\ y = ByPointer
  BY ReferencesRead
<1>2. Twice(x, To(b)) \/ Twice(y, To(b)) \/ (Has(x, To(b)) /\ Has(y, To(b)))
  BY <1>1
<1>3. Twice(x \o y, To(b))
  BY <1>2, TwiceConcat
<1>4. References = x \o y
  BY <1>1, ReferencesRead
<1>5. QED
  BY <1>3, <1>4

\* Two addresses, of one inode or of two.
LEMMA AddressesDiffer ==
    ASSUME Audited, NEW m, NEW o, m # o, m[4] = o[4],
           NEW n \in Numbers, InUse(At(n)), Addressed(n, m),
           NEW q \in Numbers, InUse(At(q)), Addressed(q, o)
    PROVE  Twice(ByInode, To(m[4]))
<1>1. PICK ss \in Seq(Seq(Mentioned)) : ss = [k \in DOMAIN my_inode |-> InodeReferences(my_inode[k])]
  BY ReferencesRead
<1>2. ByInode = FlattenSeq(ss) /\ DOMAIN ss = DOMAIN my_inode
  BY <1>1 DEF ByInode
<1>3. PICK i \in DOMAIN my_inode : my_inode[i] = LineOf(n) /\ Has(InodeReferences(my_inode[i]), To(m[4]))
  BY AddressReferred
<1>4. PICK j \in DOMAIN my_inode : my_inode[j] = LineOf(q) /\ Has(InodeReferences(my_inode[j]), To(o[4]))
  BY AddressReferred
<1>5. PICK X : X = To(m[4])
  OBVIOUS
<1>6. TwiceIn(ss, X)
  <2>1. CASE n = q
    <3>1. PICK k \in 0 .. 14 : At(n).i_block[k] # 0 /\ m = <<n, -1, k, At(n).i_block[k]>>
      BY DEF Addressed
    <3>2. PICK l \in 0 .. 14 : At(n).i_block[l] # 0 /\ o = <<n, -1, l, At(n).i_block[l]>>
      BY <2>1 DEF Addressed
    <3>3. l # k /\ m[4] = At(n).i_block[k] /\ At(n).i_block[l] = At(n).i_block[k] /\ ~Text(n)
      BY <3>1, <3>2 DEF Addressed
    <3>4. Twice(InodeReferences(LineOf(n)), To(At(n).i_block[k]))
      BY <3>1, <3>3, Zenon, AddressTwice
    <3>5. Twice(ss[i], X)
      BY <1>1, <1>3, <1>5, <3>3, <3>4
    <3>6. QED
      BY <1>2, <1>3, <3>5 DEF TwiceIn
  <2>2. CASE n # q
    <3>1. LineOf(n).inode_number = n /\ LineOf(q).inode_number = q
      BY AuditedIs, LineOfIs
    <3>2. i # j
      BY <1>3, <1>4, <2>2, <3>1
    <3>3. Has(ss[i], X) /\ Has(ss[j], X)
      BY <1>1, <1>3, <1>4, <1>5
    <3>4. QED
      BY <1>2, <1>3, <1>4, <3>2, <3>3 DEF TwiceIn
  <2>3. QED
    BY <2>1, <2>2
<1>7. Twice(FlattenSeq(ss), X)
  BY <1>6, TwiceFlatten
<1>8. QED
  BY <1>2, <1>5, <1>7

\* Two pointers, of two inodes, of two blocks, or of one.
LEMMA PointersDiffer ==
    ASSUME Audited, NEW m, NEW o, m # o, m[4] = o[4],
           NEW n \in Numbers, InUse(At(n)), Pointed(n, m),
           NEW q \in Numbers, InUse(At(q)), Pointed(q, o)
    PROVE  Twice(ByPointer, To(m[4]))
<1>1. PICK i \in DOMAIN my_indir : /\ my_indir[i].parent_inode_number = n /\ my_indir[i].block_number = m[2]
                                   /\ my_indir[i] \in LinesTo(m[4])
  BY PointerReferred
<1>2. PICK j \in DOMAIN my_indir : /\ my_indir[j].parent_inode_number = q /\ my_indir[j].block_number = o[2]
                                   /\ my_indir[j] \in LinesTo(o[4])
  BY PointerReferred
<1>3. Twice(my_indir, LinesTo(m[4]))
  <2>1. CASE n # q \/ m[2] # o[2]
    <3>1. i # j
      BY <1>1, <1>2, <2>1
    <3>2. QED
      BY <1>1, <1>2, <3>1 DEF Twice
  <2>2. CASE n = q /\ m[2] = o[2]
    <3>1. PICK p \in PointersOf(n) : m = <<n, p.block, p.slot, p.reference>>
      BY DEF Pointed
    <3>2. PICK r \in PointersOf(n) : o = <<n, r.block, r.slot, r.reference>>
      BY <2>2 DEF Pointed
    <3>3. p.block = r.block /\ p.slot # r.slot /\ p.reference = r.reference /\ m[4] = p.reference /\ Walked(n)
      BY <2>2, <3>1, <3>2 DEF Pointed
    <3>4. Twice(my_indir, LinesTo(p.reference))
      BY <3>3, PointerTwice
    <3>5. QED
      BY <3>3, <3>4
  <2>3. QED
    BY <2>1, <2>2
<1>4. QED
  BY <1>3, PointersMeant

LEMMA MentionsDiffer ==
    ASSUME Audited, NEW m \in Mentions, NEW o \in Mentions, m # o, m[4] = o[4]
    PROVE  Twice(References, To(m[4]))
<1>1. PICK n \in Numbers : InUse(At(n)) /\ (Addressed(n, m) \/ Pointed(n, m))
  BY MentionsAre
<1>2. PICK q \in Numbers : InUse(At(q)) /\ (Addressed(q, o) \/ Pointed(q, o))
  BY MentionsAre
<1>3. CASE Addressed(n, m) /\ Addressed(q, o)
  BY <1>1, <1>2, <1>3, AddressesDiffer, TwiceReferences
<1>4. CASE Pointed(n, m) /\ Pointed(q, o)
  BY <1>1, <1>2, <1>4, PointersDiffer, TwiceReferences
<1>5. CASE Addressed(n, m) /\ Pointed(q, o)
  <2>1. Has(ByInode, To(m[4]))
    BY <1>1, <1>5, AddressReferred, HasByInode
  <2>2. Has(ByPointer, To(o[4]))
    BY <1>2, <1>5, PointerReferred, HasByPointer
  <2>3. QED
    BY <2>1, <2>2, TwiceReferences
<1>6. CASE Pointed(n, m) /\ Addressed(q, o)
  <2>1. Has(ByInode, To(o[4]))
    BY <1>2, <1>6, AddressReferred, HasByInode
  <2>2. Has(ByPointer, To(m[4]))
    BY <1>1, <1>6, PointerReferred, HasByPointer
  <2>3. QED
    BY <2>1, <2>2, TwiceReferences
<1>7. QED
  BY <1>1, <1>2, <1>3, <1>4, <1>5, <1>6

LEMMA DataBlocksAre ==
    ASSUME Audited, NEW b \in DataBlocks, b # 0
    PROVE  b \in 1 .. BitmapBits
<1>1. image \in Images
  BY AuditedIs
<1>2. /\ sb.s_blocks_count \in Nat /\ sb.s_blocks_count <= BitmapBits /\ BitmapBits \in Nat
      /\ sb.s_inode_size \in Nat /\ sb.s_inodes_count \in Nat /\ block_size \in Nat \ {0}
      /\ image.group.bg_inode_table \in Nat
  <2>1. sb \in ext2_super_block /\ image.group \in ext2_group_desc /\ sb.s_blocks_count <= BitmapBits
    BY <1>1, ImageFacts
  <2>2. BitmapBits \in Nat /\ block_size \in Nat \ {0}
    BY BitmapAssumption DEF block_size
  <2>3. QED
    BY <2>1, <2>2 DEF ext2_super_block, ext2_group_desc
<1>3. PICK first \in Nat, count \in Nat : /\ first = image.group.bg_inode_table
                                                    + (sb.s_inode_size * sb.s_inodes_count) \div block_size
                                          /\ count = sb.s_blocks_count
  <2>1. PICK x \in Nat, y \in Nat, z \in Nat \ {0} :
           x = sb.s_inode_size /\ y = sb.s_inodes_count /\ z = block_size
    BY <1>2
  <2>2. x * y \in Nat
    OBVIOUS
  <2>3. (x * y) \div z \in Nat
    BY <2>2
  <2>4. QED
    BY <1>2, <2>1, <2>3
<1>4. b \in first .. count - 1
  BY <1>3 DEF DataBlocks
<1>5. QED
  BY <1>2, <1>3, <1>4

LEMMA NothingReferred == ASSUME Audited, NEW r \in ToSet(References) PROVE r.block # 0
<1>1. PICK m \in Mentions : m[4] = r.block
  BY ReferenceMentioned
<1>2. PICK n \in Numbers : InUse(At(n)) /\ (Addressed(n, m) \/ Pointed(n, m))
  BY MentionsAre
<1>3. CASE Addressed(n, m)
  <2>1. PICK k \in 0 .. 14 : At(n).i_block[k] # 0 /\ m = <<n, -1, k, At(n).i_block[k]>>
    BY <1>3 DEF Addressed
  <2>2. QED
    BY <1>1, <2>1
<1>4. CASE Pointed(n, m)
  <2>1. PICK k \in DOMAIN my_indir : my_indir[k] \in LinesTo(m[4])
    BY <1>2, <1>4, PointerReferred
  <2>2. PICK q \in Numbers : my_indir[k] \in ToSet(TreesOf(q))
    BY TreeLines
  <2>3. my_indir[k] \in LinesFor(q)
    BY <2>2, AuditedIs, TreesOfType, RangeType
  <2>4. QED
    BY <1>1, <2>1, <2>3 DEF LinesTo, LinesFor
<1>5. QED
  BY <1>2, <1>3, <1>4

\* What silence leaves: a block of data is allocated when it is mentioned, once.
LEMMA SilenceLeaves ==
    ASSUME Audited, BlocksConsistent(my_sp.num_blocks), NEW b \in DataBlocks
    PROVE  LET M == {m \in Mentions : m[4] = b}
           IN  IF b - 1 \in image.block_bitmap THEN \E m \in M : M = {m} ELSE M = {}
<1> DEFINE M == {m \in Mentions : m[4] = b}
<1>1. /\ \A r \in ToSet(References) : r.block \notin my_bfree
      /\ \A j, k \in DOMAIN References : References[j].block = References[k].block => j = k
      /\ \A c \in start_block .. my_group.bid_group - 1 :
            c \in my_bfree \/ \E r \in ToSet(References) : r.block = c
  BY DEF BlocksConsistent
<1>2. b \in start_block .. my_group.bid_group - 1
  BY BlocksRead
<1>3. ~Twice(References, To(b))
  BY <1>1 DEF Twice, To
<1>4. \A m \in M, o \in M : m = o
  BY <1>3, MentionsDiffer
<1>5. my_bfree = {c \in 1 .. BitmapBits : c - 1 \notin image.block_bitmap}
  BY FreeRead
<1>6. ASSUME b - 1 \in image.block_bitmap PROVE \E m \in M : M = {m}
  <2>1. b \notin my_bfree
    BY <1>5, <1>6
  <2>2. PICK r \in ToSet(References) : r.block = b
    BY <1>1, <1>2, <2>1
  <2>3. PICK m \in Mentions : m[4] = b
    BY <2>2, ReferenceMentioned
  <2>4. M = {m}
    BY <1>4, <2>3
  <2>5. QED
    BY <2>4
<1>7. ASSUME b - 1 \notin image.block_bitmap PROVE M = {}
  <2>1. SUFFICES ASSUME NEW m \in M PROVE FALSE
    OBVIOUS
  <2>2. PICK r \in ToSet(References) : r.block = b
    BY MentionReferred
  <2>3. r.block # 0
    BY <2>2, NothingReferred
  <2>4. b \in 1 .. BitmapBits
    BY <2>2, <2>3, DataBlocksAre
  <2>5. b \in my_bfree
    BY <1>5, <1>7, <2>4
  <2>6. QED
    BY <1>1, <2>2, <2>5
<1>8. QED
  BY <1>6, <1>7

\* After lab3a, silence means that the blocks are as they should be.
LEMMA SilenceHolds == ASSUME FileInv, ReadInv PROVE SilentIsIntact
<1>1. SUFFICES ASSUME AuditEnded, Silent, program = "lab3a", BootBlockEmpty, LinksIntact
               PROVE  BlocksIntact
  BY DEF SilentIsIntact
<1>2. audit # "parse" /\ audit = "exit0" /\ printed = <<>>
  BY <1>1 DEF Silent
<1>3. scan = "done"
  BY <1>2 DEF FileInv, AuditInit
<1>4. Audited
  <2>1. image \in Images
    BY DEF FileInv, ScanInv, ScanTypes
  <2>2. NothingLeftOut
    BY <1>1, <2>1, NothingLeftOutByLab3a
  <2>3. QED
    BY <1>1, <1>2, <1>3, <2>2 DEF Audited
<1>5. AuditInv /\ Readable
  BY <1>4, AuditedIs
<1>6. SilentIffConsistent
  BY <1>5, SilenceSays
<1>7. BlocksConsistent(my_sp.num_blocks)
  <2>1. Consistent(my_sp.num_blocks, Overlooked)
    BY <1>1, <1>2, <1>5, <1>6 DEF SilentIffConsistent
  <2>2. QED
    BY <2>1 DEF Consistent
<1>8. QED
  BY <1>4, <1>7, SilenceLeaves DEF BlocksIntact

\* When lab3a has printed an image and lab3b complains of nothing, every block in
\* use is referred to exactly once, at whatever depth, and no free one is.  The
\* image may be any in which block 0 has no pointers (BootBlockEmpty) and symbolic
\* links have blocks just when they are long (LinksIntact).
THEOREM SilenceIsIntact == Spec => []SilentIsIntact
<1>1. Init => ReadInv
  BY DEF Init, AuditInit, ReadInv
<1>2. FileInv /\ ReadInv => SilentIsIntact
  BY SilenceHolds
<1>3. QED
  BY <1>1, <1>2, FileReads, FileInvariant, PTL DEF Spec

-----------------------------------------------------------------------------
(* Of a sound image the audit finds each block mentioned once.             *)

\* What the audit is promised of an image.
Sound == Intact /\ (program = "lab3a_std" => WithinStd)

Lone == \A m, o \in Mentions : m[4] = o[4] => m = o

LEMMA SoundIsLone == ASSUME Intact PROVE Lone
<1>1. SUFFICES ASSUME NEW m \in Mentions, NEW o \in Mentions, m[4] = o[4] PROVE m = o
  BY DEF Lone
<1>2. PICK b : b = m[4]
  OBVIOUS
<1>3. b \in DataBlocks
  <2>1. {q[4] : q \in Mentions} \subseteq DataBlocks
    BY DEF Intact
  <2>2. m[4] \in {q[4] : q \in Mentions}
    OBVIOUS
  <2>3. QED
    BY <1>2, <2>1, <2>2
<1> DEFINE M == {q \in Mentions : q[4] = b}
<1>4. m \in M /\ o \in M
  BY <1>1, <1>2
<1>5. IF b - 1 \in image.block_bitmap THEN \E q \in M : M = {q} ELSE M = {}
  BY <1>3 DEF Intact, BlocksIntact
<1> HIDE DEF M
<1>6. QED
  BY <1>4, <1>5

\* Each pointer is among those of a whole block.
Full(found) ==
    \A p \in found :
        /\ p.reference # 0
        /\ \A k \in Slots(p.block) : \E q \in found :
              q.block = p.block /\ q.slot = k /\ q.reference = Pointers(p.block)[k]

LEMMA BelowFull ==
    ASSUME NEW block, block # 0, NEW level, NEW offset, NEW first
    PROVE  Full(Below(block, level, offset, first))
<1>1. PICK found : found = Below(block, level, offset, first)
  OBVIOUS
<1>2. found = {PointerAt(block, level, offset, first, k) : k \in Slots(block)}
  <2>1. Below(block, level, offset, first) = {PointerAt(block, level, offset, first, k) : k \in Slots(block)}
    BY BelowIs
  <2>2. QED
    BY <1>1, <2>1, Zenon
<1>3. ASSUME NEW k \in Slots(block)
      PROVE  LET p == PointerAt(block, level, offset, first, k)
             IN  p \in found /\ p.block = block /\ p.slot = k /\ p.reference = Pointers(block)[k]
  BY <1>2 DEF PointerAt
<1>4. \A k \in Slots(block) : Pointers(block)[k] # 0
  BY DEF Slots, PointersAt
<1>5. ASSUME NEW p \in found
      PROVE  /\ p.reference # 0
             /\ \A k \in Slots(p.block) : \E q \in found :
                   q.block = p.block /\ q.slot = k /\ q.reference = Pointers(p.block)[k]
  <2>1. PICK i \in Slots(block) : p = PointerAt(block, level, offset, first, i)
    BY <1>2
  <2>2. p.block = block /\ p.reference # 0
    BY <1>3, <1>4, <2>1
  <2>3. \A k \in Slots(block) : \E q \in found :
           q.block = block /\ q.slot = k /\ q.reference = Pointers(block)[k]
    BY <1>3
  <2>4. QED
    BY <2>2, <2>3
<1>6. QED
  BY <1>1, <1>5 DEF Full

LEMMA FullUnion ==
    ASSUME NEW S, \A x \in S : Full(x) PROVE Full(UNION S)
BY DEF Full

LEMMA DeeperFull == ASSUME NEW found, Full(found) PROVE Full(Deeper(found))
<1> DEFINE parts == {Below(p.reference, p.level - 1, p.offset, p.first) : p \in {q \in found : q.level > 1}}
<1>1. \A x \in parts : Full(x)
  <2>1. \A p \in found : p.reference # 0
    BY DEF Full
  <2>2. ASSUME NEW p \in found PROVE Full(Below(p.reference, p.level - 1, p.offset, p.first))
    <3>1. PICK b, l, o, f : b = p.reference /\ l = p.level - 1 /\ o = p.offset /\ f = p.first
      OBVIOUS
    <3>2. b # 0
      BY <2>1, <3>1
    <3>3. Full(Below(b, l, o, f))
      BY <3>2, BelowFull
    <3>4. QED
      BY <3>1, <3>3
  <2>3. QED
    BY <2>2
<1>2. Deeper(found) = UNION parts
  BY DEF Deeper
<1> HIDE DEF parts
<1>3. QED
  BY <1>1, <1>2, FullUnion

LEMMA TreeFull == ASSUME NEW root, NEW level, NEW offset PROVE Full(PointersUnder(root, level, offset))
<1>1. PICK one : one = IF root = 0 THEN {} ELSE Below(root, level, offset, TRUE)
  OBVIOUS
<1>2. PICK two : two = Deeper(one)
  OBVIOUS
<1>3. PICK three : three = Deeper(two)
  OBVIOUS
<1>4. PointersUnder(root, level, offset) = one \cup two \cup three
  BY <1>1, <1>2, <1>3 DEF PointersUnder
<1>5. Full(one)
  <2>1. CASE root = 0
    BY <1>1, <2>1 DEF Full
  <2>2. CASE root # 0
    BY <1>1, <2>2, BelowFull
  <2>3. QED
    BY <2>1, <2>2
<1>6. Full(two)
  BY <1>2, <1>5, DeeperFull
<1>7. Full(three)
  BY <1>3, <1>6, DeeperFull
<1>8. UNION {one, two, three} = one \cup two \cup three
  OBVIOUS
<1>9. QED
  BY <1>4, <1>5, <1>6, <1>7, <1>8, FullUnion

LEMMA PointersFull == ASSUME NEW n PROVE Full(PointersOf(n))
<1>1. PICK x, y, z : /\ x = PointersUnder(At(n).i_block[12], 1, 12)
                     /\ y = PointersUnder(At(n).i_block[13], 2, 268)
                     /\ z = PointersUnder(At(n).i_block[14], 3, 65804)
  OBVIOUS
<1>2. Full(x) /\ Full(y) /\ Full(z)
  BY <1>1, TreeFull
<1>3. UNION {x, y, z} = PointersOf(n)
  BY <1>1 DEF PointersOf
<1>4. QED
  BY <1>2, <1>3, FullUnion

\* Inode n has a pointer in block x to block y.
Child(n, x, y) == \E p \in PointersOf(n) : p.block = x /\ p.reference = y

\* A file or directory in an image without double mentions.
Single(n) ==
    /\ image \in Images /\ NoTreeAt0 /\ Lone
    /\ n \in Numbers /\ InUse(At(n)) /\ Walked(n)

LEMMA PointersMentioned ==
    ASSUME NEW n, Single(n), NEW p \in PointersOf(n)
    PROVE  <<n, p.block, p.slot, p.reference>> \in Mentions /\ p.block \in Nat /\ p.reference # 0
<1>1. PICK m : m = <<n, p.block, p.slot, p.reference>>
  OBVIOUS
<1>2. Pointed(n, m)
  BY <1>1 DEF Pointed, Single
<1>3. m \in Mentions
  BY <1>2, MentionsAre DEF Single
<1>4. Shown(n, TreesOf(n), p, {})
  BY TreesShown DEF Single
<1>5. p.reference # 0
  BY PointersFull DEF Full
<1>6. QED
  BY <1>1, <1>3, <1>4, <1>5 DEF Shown

LEMMA OneParent ==
    ASSUME NEW n, Single(n), NEW x, NEW y, NEW z, Child(n, x, z), Child(n, y, z)
    PROVE  x = y
<1>1. PICK p \in PointersOf(n) : p.block = x /\ p.reference = z
  BY DEF Child
<1>2. PICK q \in PointersOf(n) : q.block = y /\ q.reference = z
  BY DEF Child
<1>3. PICK m \in Mentions, o \in Mentions : m = <<n, x, p.slot, z>> /\ o = <<n, y, q.slot, z>>
  BY <1>1, <1>2, PointersMentioned
<1>4. m[4] = o[4] /\ m[2] = x /\ o[2] = y
  BY <1>3
<1>5. m = o
  BY <1>4 DEF Lone, Single
<1>6. QED
  BY <1>4, <1>5

LEMMA AddressMentioned ==
    ASSUME NEW n \in Numbers, InUse(At(n)), ~Text(n), NEW k \in 0 .. 14, At(n).i_block[k] # 0
    PROVE  <<n, -1, k, At(n).i_block[k]>> \in Mentions
<1>1. PICK m : m = <<n, -1, k, At(n).i_block[k]>>
  OBVIOUS
<1>2. Addressed(n, m)
  BY <1>1 DEF Addressed
<1>3. QED
  BY <1>1, <1>2, MentionsAre

\* No pointer leads to an address, and no two addresses are the same.
LEMMA RootsAlone ==
    ASSUME NEW n, Single(n), NEW k \in 0 .. 14, NEW z, z # 0, At(n).i_block[k] = z
    PROVE  /\ \A x : ~Child(n, x, z)
           /\ \A j \in 0 .. 14 : At(n).i_block[j] = z => j = k
<1>1. n \in Numbers /\ InUse(At(n)) /\ ~Text(n)
  BY DEF Single, Walked, Text
<1>2. ASSUME NEW j \in 0 .. 14, At(n).i_block[j] = z PROVE <<n, -1, j, z>> \in Mentions
  BY <1>1, <1>2, AddressMentioned
<1>3. PICK m \in Mentions : m = <<n, -1, k, z>>
  BY <1>2
<1>4. ASSUME NEW x, Child(n, x, z) PROVE FALSE
  <2>1. PICK p \in PointersOf(n) : p.block = x /\ p.reference = z
    BY <1>4 DEF Child
  <2>2. PICK o \in Mentions : o = <<n, x, p.slot, z>> /\ x \in Nat
    BY <2>1, PointersMentioned
  <2>3. m = o
    BY <1>3, <2>2 DEF Lone, Single
  <2>4. m[2] = -1 /\ o[2] = x
    BY <1>3, <2>2
  <2>5. QED
    BY <2>2, <2>3, <2>4
<1>5. ASSUME NEW j \in 0 .. 14, At(n).i_block[j] = z PROVE j = k
  <2>1. PICK o \in Mentions : o = <<n, -1, j, z>>
    BY <1>2, <1>5
  <2>2. m = o
    BY <1>3, <2>1 DEF Lone, Single
  <2>3. m[3] = k /\ o[3] = j
    BY <1>3, <2>1
  <2>4. QED
    BY <2>2, <2>3
<1>6. QED
  BY <1>4, <1>5

-----------------------------------------------------------------------------
(* No two lines of one inode lead to the same block.                       *)

\* Lines that are printed for inode n.
Belongs(n, t) == ToSet(t) \subseteq ToSet(TreesOf(n))

LEMMA LineChild ==
    ASSUME NEW n, Single(n), NEW l \in ToSet(TreesOf(n))
    PROVE  Child(n, l.block_number, l.reference_number)
<1>1. Right(ToSet(TreesOf(n)), PointersOf(n))
  BY TreesRight DEF Single
<1>2. PICK p \in PointersOf(n) : Matches(l, p)
  BY <1>1 DEF Right
<1>3. QED
  BY <1>2 DEF Child, Matches

LEMMA BlockOnce ==
    ASSUME NEW n, Single(n), NEW level \in 1 .. 3, NEW cur \in Nat, NEW o \in Nat,
           Belongs(n, BlockLines(n, level, cur, o)), NEW b
    PROVE  ~Twice(BlockLines(n, level, cur, o), LinesTo(b))
<1>1. image \in Images /\ n \in Numbers /\ n \in Nat
  BY RootsAre DEF Single
<1>2. SUFFICES ASSUME Twice(BlockLines(n, level, cur, o), LinesTo(b)) PROVE FALSE
  OBVIOUS
<1>3. PICK D \in Nat : \E f \in [1 .. D -> IndirectLines] :
         /\ Slots(cur) \in SUBSET (1 .. D)
         /\ \A k \in 1 .. D : f[k] = LineAt(n, level, cur, o, k)
         /\ BlockLines(n, level, cur, o) = FlattenSeq(Kept(D, Slots(cur), f))
  BY <1>1, BlockKept, ZenonT(40)
<1>4. PICK f \in [1 .. D -> IndirectLines] :
         /\ Slots(cur) \in SUBSET (1 .. D)
         /\ \A k \in 1 .. D : f[k] = LineAt(n, level, cur, o, k)
         /\ BlockLines(n, level, cur, o) = FlattenSeq(Kept(D, Slots(cur), f))
  BY <1>3
<1>5. PICK keep \in SUBSET (1 .. D) : keep = Slots(cur)
  BY <1>4
<1>6. Twice(FlattenSeq(Kept(D, keep, f)), LinesTo(b))
  BY <1>2, <1>4, <1>5
<1>7. PICK i \in keep, j \in keep : i # j /\ f[i] \in LinesTo(b) /\ f[j] \in LinesTo(b)
  BY <1>6, TwiceKept
<1>8. ASSUME NEW k \in keep, f[k] \in LinesTo(b) PROVE \E p \in PointersOf(n) : p.block = cur /\ p.slot = k /\ p.reference = b
  <2>1. k \in DOMAIN PointersAt(cur) /\ k \in Slots(cur) /\ k \in 1 .. D
    BY <1>5 DEF Slots
  <2>2. PICK l : l = LineAt(n, level, cur, o, k)
    OBVIOUS
  <2>3. l.block_number = cur /\ l.reference_number = PointersAt(cur)[k]
    BY <2>2 DEF LineAt, Indirect
  <2>4. l \in ToSet(BlockLines(n, level, cur, o))
    <3>1. ToSet(BlockLines(n, level, cur, o)) = LinesIn(n, level, cur, o)
      BY <1>1, BlockLinesAre
    <3>2. QED
      BY <2>1, <2>2, <3>1 DEF LinesIn
  <2>5. PICK p \in PointersOf(n) : p.block = cur /\ p.reference = l.reference_number
    <3>1. Child(n, l.block_number, l.reference_number)
      BY <2>4, LineChild DEF Belongs
    <3>2. QED
      BY <2>3, <3>1 DEF Child
  <2>6. PICK q \in PointersOf(n) : q.block = cur /\ q.slot = k /\ q.reference = Pointers(cur)[k]
    BY <2>1, <2>5, PointersFull DEF Full
  <2>7. Pointers(cur)[k] = PointersAt(cur)[k]
    BY <2>1 DEF PointersAt
  <2>8. l.reference_number = b
    <3>1. l = f[k]
      BY <1>4, <2>1, <2>2
    <3>2. QED
      BY <1>8, <3>1 DEF LinesTo
  <2>9. QED
    BY <2>3, <2>6, <2>7, <2>8
<1>9. PICK p \in PointersOf(n), q \in PointersOf(n) :
         /\ p.block = cur /\ p.slot = i /\ p.reference = b
         /\ q.block = cur /\ q.slot = j /\ q.reference = b
  BY <1>7, <1>8
<1>10. PICK m \in Mentions, w \in Mentions : m = <<n, cur, i, b>> /\ w = <<n, cur, j, b>>
  BY <1>9, PointersMentioned
<1>11. m = w
  BY <1>10 DEF Lone, Single
<1>12. m[3] = i /\ w[3] = j
  BY <1>10
<1>13. QED
  BY <1>7, <1>11, <1>12

\* The lines of a block are in it, and lead from it.
LEMMA BlockChild ==
    ASSUME NEW n, Single(n), NEW level \in 1 .. 3, NEW cur \in Nat, NEW o \in Nat,
           Belongs(n, BlockLines(n, level, cur, o)), NEW l \in ToSet(BlockLines(n, level, cur, o))
    PROVE  /\ Child(n, cur, l.reference_number)
           /\ l.reference_number \in Nat /\ l.reference_number # 0 /\ l.logical_offset \in Nat
           /\ l \in LinesFor(n)
<1>1. image \in Images /\ n \in Nat
  BY RootsAre DEF Single
<1>2. PICK k \in Slots(cur) : l = LineAt(n, level, cur, o, k)
  <2>1. ToSet(BlockLines(n, level, cur, o)) = LinesIn(n, level, cur, o)
    BY <1>1, BlockLinesAre
  <2>2. QED
    BY <2>1 DEF LinesIn
<1>3. l.block_number = cur
  BY <1>2 DEF LineAt, Indirect
<1>4. Child(n, l.block_number, l.reference_number)
  BY LineChild DEF Belongs
<1>5. QED
  BY <1>1, <1>3, <1>4, BlockLinesHave

\* What follows a line leads on from the block that the line leads to: to b from
\* the blocks of ahead only.
LEMMA LevelOnce ==
    ASSUME NEW n, Single(n), NEW level \in 1 .. 3, NEW cur \in Nat, NEW o \in Nat, NEW lines,
           lines = BlockLines(n, level, cur, o), NEW g \in [LinesFor(n) -> Seq(LinesFor(n))],
           Belongs(n, lines), NEW b, NEW ahead,
           \A l \in ToSet(lines) : /\ ~Twice(g[l], LinesTo(b))
                                   /\ Has(g[l], LinesTo(b)) => l.reference_number \in ahead,
           \A y, z \in ahead : Child(n, cur, y) /\ Child(n, cur, z) => y = z,
           \A y \in ahead : ~(Child(n, cur, b) /\ Child(n, cur, y))
    PROVE  ~Twice(Followed(lines, g), LinesTo(b))
<1>1. image \in Images /\ n \in Nat
  BY RootsAre DEF Single
<1>2. lines \in Seq(LinesFor(n))
  BY <1>1, BlockLinesAre
<1>3. ASSUME NEW c PROVE ~Twice(lines, LinesTo(c))
  BY BlockOnce
<1>4. \A k \in DOMAIN lines : lines[k] \in ToSet(lines)
  BY DEF ToSet
<1>5. \A l \in ToSet(lines) : Child(n, cur, l.reference_number) /\ l \in LinesFor(n)
  BY BlockChild
<1>6. \A k \in DOMAIN lines : ~Twice(g[lines[k]], LinesTo(b))
  BY <1>4
<1>7. ASSUME NEW j \in DOMAIN lines, NEW k \in DOMAIN lines,
             lines[j] \in LinesTo(b), Has(g[lines[k]], LinesTo(b))
      PROVE  FALSE
  <2>1. Child(n, cur, lines[j].reference_number) /\ lines[j].reference_number = b
    BY <1>4, <1>5, <1>7 DEF LinesTo
  <2>2. Child(n, cur, lines[k].reference_number) /\ lines[k].reference_number \in ahead
    BY <1>4, <1>5, <1>7
  <2>3. QED
    BY <2>1, <2>2
<1>8. ASSUME NEW j \in DOMAIN lines, NEW k \in DOMAIN lines, j # k,
             Has(g[lines[j]], LinesTo(b)), Has(g[lines[k]], LinesTo(b))
      PROVE  FALSE
  <2>1. Child(n, cur, lines[j].reference_number) /\ lines[j].reference_number \in ahead
    BY <1>4, <1>5, <1>8
  <2>2. Child(n, cur, lines[k].reference_number) /\ lines[k].reference_number \in ahead
    BY <1>4, <1>5, <1>8
  <2>3. lines[j].reference_number = lines[k].reference_number
    BY <2>1, <2>2
  <2>4. lines[j] \in IndirectLines /\ lines[k] \in IndirectLines
    BY <1>4, <1>5 DEF LinesFor
  <2>5. Twice(lines, LinesTo(lines[k].reference_number))
    BY <1>8, <2>3, <2>4 DEF Twice, LinesTo
  <2>6. QED
    BY <1>3, <2>5
<1>9. PICK S, X : S = LinesFor(n) /\ X = LinesTo(b)
  OBVIOUS
<1>10. /\ lines \in Seq(S) /\ g \in [S -> Seq(S)] /\ ~Twice(lines, X)
       /\ \A k \in DOMAIN lines : ~Twice(g[lines[k]], X)
       /\ \A j, k \in DOMAIN lines : ~(lines[j] \in X /\ Has(g[lines[k]], X))
       /\ \A j, k \in DOMAIN lines : j # k => ~(Has(g[lines[j]], X) /\ Has(g[lines[k]], X))
  BY <1>2, <1>3, <1>6, <1>7, <1>8, <1>9
<1>11. ~Twice(Followed(lines, g), X)
  BY <1>10, FollowedOnce
<1>12. QED
  BY <1>9, <1>11

\* From block x one comes to block y in the two or three last steps of a tree.
Reach2(n, x, y) == Child(n, x, y) \/ \E z : Child(n, x, z) /\ Child(n, z, y)
Reach3(n, x, y) == Child(n, x, y) \/ \E z : Child(n, x, z) /\ Reach2(n, z, y)

Blocks(n) == {p.block : p \in PointersOf(n)}

LEMMA Tree1Once ==
    ASSUME NEW n, Single(n), NEW cur \in Nat, NEW o \in Nat, Belongs(n, Tree1(n, cur, o)), NEW b
    PROVE  /\ ~Twice(Tree1(n, cur, o), LinesTo(b))
           /\ Has(Tree1(n, cur, o), LinesTo(b)) => Child(n, cur, b)
<1>1. Tree1(n, cur, o) = BlockLines(n, 1, cur, o) /\ 1 \in 1 .. 3
  BY DEF Tree1
<1>2. ~Twice(BlockLines(n, 1, cur, o), LinesTo(b))
  BY <1>1, BlockOnce
<1>3. ASSUME Has(BlockLines(n, 1, cur, o), LinesTo(b)) PROVE Child(n, cur, b)
  <2>1. PICK l \in ToSet(BlockLines(n, 1, cur, o)) : l.reference_number = b
    BY <1>3 DEF Has, ToSet, LinesTo
  <2>2. Child(n, cur, l.reference_number)
    BY <1>1, <2>1, BlockChild
  <2>3. QED
    BY <2>1, <2>2
<1>4. QED
  BY <1>1, <1>2, <1>3

\* What is printed after the lines of a block.
LEMMA FollowedParts ==
    ASSUME NEW S, NEW lines \in Seq(S), NEW g \in [S -> Seq(S)], NEW n, NEW X,
           Belongs(n, Followed(lines, g))
    PROVE  /\ Belongs(n, lines) /\ \A l \in ToSet(lines) : Belongs(n, g[l])
           /\ Has(Followed(lines, g), X) => Has(lines, X) \/ \E l \in ToSet(lines) : Has(g[l], X)
<1>1. /\ ToSet(Followed(lines, g)) = ToSet(lines) \cup Following(lines, g)
      /\ Followed(lines, g) \in Seq(S)
  BY FollowedRange
<1>2. Belongs(n, lines)
  BY <1>1 DEF Belongs
<1>3. ASSUME NEW l \in ToSet(lines) PROVE Belongs(n, g[l])
  <2>1. ToSet(g[l]) \subseteq Following(lines, g)
    BY DEF Following
  <2>2. QED
    BY <1>1, <2>1 DEF Belongs
<1>4. ASSUME Has(Followed(lines, g), X) PROVE Has(lines, X) \/ \E l \in ToSet(lines) : Has(g[l], X)
  <2>1. PICK e : e \in X /\ (e \in ToSet(lines) \/ e \in Following(lines, g))
    BY <1>1, <1>4 DEF Has, ToSet
  <2>2. CASE e \in ToSet(lines)
    BY <2>1, <2>2 DEF Has, ToSet
  <2>3. CASE e \in Following(lines, g)
    <3>1. PICK l \in ToSet(lines) : e \in ToSet(g[l])
      BY <2>3 DEF Following
    <3>2. Has(g[l], X)
      BY <2>1, <3>1 DEF Has, ToSet
    <3>3. QED
      BY <3>2
  <2>4. QED
    BY <2>1, <2>2, <2>3
<1>5. QED
  BY <1>2, <1>3, <1>4

LEMMA Tree2Once ==
    ASSUME NEW n, Single(n), NEW cur \in Nat, NEW o \in Nat, Belongs(n, Tree2(n, cur, o)), NEW b,
           ~Child(n, cur, cur)
    PROVE  /\ ~Twice(Tree2(n, cur, o), LinesTo(b))
           /\ Has(Tree2(n, cur, o), LinesTo(b)) => Reach2(n, cur, b)
<1>1. image \in Images /\ n \in Nat /\ 2 \in 1 .. 3
  BY RootsAre DEF Single
<1>2. PICK lines, g, S : lines = BlockLines(n, 2, cur, o) /\ g = Under1(n) /\ S = LinesFor(n)
  OBVIOUS
<1>3. /\ lines \in Seq(S) /\ g \in [S -> Seq(S)]
      /\ \A l \in S : g[l] = Tree1(n, l.reference_number, l.logical_offset)
      /\ Tree2(n, cur, o) = Followed(lines, g)
  BY <1>1, <1>2, Tree2Followed
<1>4. /\ Belongs(n, lines) /\ \A l \in ToSet(lines) : Belongs(n, g[l])
      /\ Has(Followed(lines, g), LinesTo(b)) =>
            Has(lines, LinesTo(b)) \/ \E l \in ToSet(lines) : Has(g[l], LinesTo(b))
  <2>1. PICK X : X = LinesTo(b)
    OBVIOUS
  <2>2. lines \in Seq(S) /\ g \in [S -> Seq(S)] /\ Belongs(n, Followed(lines, g))
    BY <1>3
  <2>3. /\ Belongs(n, lines) /\ \A l \in ToSet(lines) : Belongs(n, g[l])
        /\ Has(Followed(lines, g), X) => Has(lines, X) \/ \E l \in ToSet(lines) : Has(g[l], X)
    BY <2>2, FollowedParts
  <2>4. QED
    BY <2>1, <2>3
<1>5. \A l \in ToSet(lines) : /\ Child(n, cur, l.reference_number) /\ l \in S
                              /\ l.reference_number \in Nat /\ l.logical_offset \in Nat
  BY <1>1, <1>2, <1>4, BlockChild
<1>6. ASSUME NEW l \in ToSet(lines)
      PROVE  ~Twice(g[l], LinesTo(b)) /\ (Has(g[l], LinesTo(b)) => Child(n, l.reference_number, b))
  <2>1. PICK c \in Nat, q \in Nat : c = l.reference_number /\ q = l.logical_offset
    BY <1>5
  <2>2. g[l] = Tree1(n, c, q)
    BY <1>3, <1>5, <2>1
  <2>3. Belongs(n, Tree1(n, c, q))
    BY <1>4, <2>2
  <2>4. ~Twice(Tree1(n, c, q), LinesTo(b)) /\ (Has(Tree1(n, c, q), LinesTo(b)) => Child(n, c, b))
    BY <2>3, Tree1Once
  <2>5. QED
    BY <2>1, <2>2, <2>4
<1>7. PICK ahead : ahead = {y \in Blocks(n) : Child(n, y, b)}
  OBVIOUS
<1>8. \A y : Child(n, y, b) => y \in ahead
  BY <1>7 DEF Child, Blocks
<1>9. \A l \in ToSet(lines) : /\ ~Twice(g[l], LinesTo(b))
                              /\ Has(g[l], LinesTo(b)) => l.reference_number \in ahead
  BY <1>6, <1>8
<1>10. \A y, z \in ahead : Child(n, cur, y) /\ Child(n, cur, z) => y = z
  BY <1>7, OneParent
<1>11. ASSUME NEW y \in ahead, Child(n, cur, b), Child(n, cur, y) PROVE FALSE
  <2>1. y = cur
    BY <1>7, <1>11, OneParent
  <2>2. QED
    BY <1>11, <2>1
<1>12. g \in [LinesFor(n) -> Seq(LinesFor(n))] /\ lines = BlockLines(n, 2, cur, o)
  BY <1>2, <1>3
<1>13. ~Twice(Followed(lines, g), LinesTo(b))
  BY <1>1, <1>4, <1>9, <1>10, <1>11, <1>12, LevelOnce
<1>14. ASSUME Has(Followed(lines, g), LinesTo(b)) PROVE Reach2(n, cur, b)
  <2>1. CASE Has(lines, LinesTo(b))
    <3>1. PICK l \in ToSet(lines) : l.reference_number = b
      BY <2>1 DEF Has, ToSet, LinesTo
    <3>2. QED
      BY <1>5, <3>1 DEF Reach2
  <2>2. CASE \E l \in ToSet(lines) : Has(g[l], LinesTo(b))
    BY <1>5, <1>6, <2>2 DEF Reach2
  <2>3. QED
    BY <1>4, <1>14, <2>1, <2>2
<1>15. QED
  BY <1>3, <1>13, <1>14

LEMMA Tree3Once ==
    ASSUME NEW n, Single(n), NEW cur \in Nat, NEW o \in Nat, Belongs(n, Tree3(n, cur, o)), NEW b,
           \A x : ~Child(n, x, cur)
    PROVE  /\ ~Twice(Tree3(n, cur, o), LinesTo(b))
           /\ Has(Tree3(n, cur, o), LinesTo(b)) => Reach3(n, cur, b)
<1>1. image \in Images /\ n \in Nat /\ 3 \in 1 .. 3
  BY RootsAre DEF Single
<1>2. PICK lines, g, S : lines = BlockLines(n, 3, cur, o) /\ g = Under2(n) /\ S = LinesFor(n)
  OBVIOUS
<1>3. /\ lines \in Seq(S) /\ g \in [S -> Seq(S)]
      /\ \A l \in S : g[l] = Tree2(n, l.reference_number, l.logical_offset)
      /\ Tree3(n, cur, o) = Followed(lines, g)
  BY <1>1, <1>2, Tree3Followed
<1>4. /\ Belongs(n, lines) /\ \A l \in ToSet(lines) : Belongs(n, g[l])
      /\ Has(Followed(lines, g), LinesTo(b)) =>
            Has(lines, LinesTo(b)) \/ \E l \in ToSet(lines) : Has(g[l], LinesTo(b))
  <2>1. PICK X : X = LinesTo(b)
    OBVIOUS
  <2>2. lines \in Seq(S) /\ g \in [S -> Seq(S)] /\ Belongs(n, Followed(lines, g))
    BY <1>3
  <2>3. /\ Belongs(n, lines) /\ \A l \in ToSet(lines) : Belongs(n, g[l])
        /\ Has(Followed(lines, g), X) => Has(lines, X) \/ \E l \in ToSet(lines) : Has(g[l], X)
    BY <2>2, FollowedParts
  <2>4. QED
    BY <2>1, <2>3
<1>5. \A l \in ToSet(lines) : /\ Child(n, cur, l.reference_number) /\ l \in S
                              /\ l.reference_number \in Nat /\ l.logical_offset \in Nat
  BY <1>1, <1>2, <1>4, BlockChild
<1>6. ASSUME NEW l \in ToSet(lines)
      PROVE  ~Twice(g[l], LinesTo(b)) /\ (Has(g[l], LinesTo(b)) => Reach2(n, l.reference_number, b))
  <2>1. PICK c \in Nat, q \in Nat : c = l.reference_number /\ q = l.logical_offset
    BY <1>5
  <2>2. g[l] = Tree2(n, c, q)
    BY <1>3, <1>5, <2>1
  <2>3. Belongs(n, Tree2(n, c, q))
    BY <1>4, <2>2
  <2>4. Child(n, cur, c)
    BY <1>5, <2>1
  <2>5. ~Child(n, c, c)
    <3>1. Child(n, c, c) => cur = c
      BY <2>4, OneParent
    <3>2. QED
      BY <2>4, <3>1
  <2>6. ~Twice(Tree2(n, c, q), LinesTo(b)) /\ (Has(Tree2(n, c, q), LinesTo(b)) => Reach2(n, c, b))
    BY <2>3, <2>5, Tree2Once
  <2>7. QED
    BY <2>1, <2>2, <2>6
<1>7. PICK ahead : ahead = {y \in Blocks(n) : Reach2(n, y, b)}
  OBVIOUS
<1>8. \A y : Reach2(n, y, b) => y \in ahead
  BY <1>7 DEF Reach2, Child, Blocks
<1>9. \A l \in ToSet(lines) : /\ ~Twice(g[l], LinesTo(b))
                              /\ Has(g[l], LinesTo(b)) => l.reference_number \in ahead
  BY <1>6, <1>8
<1>10. ASSUME NEW y \in ahead, NEW z \in ahead, Child(n, cur, y), Child(n, cur, z) PROVE y = z
  <2>1. Reach2(n, y, b) /\ Reach2(n, z, b)
    BY <1>7
  <2>2. CASE Child(n, y, b) /\ Child(n, z, b)
    BY <2>2, OneParent
  <2>3. CASE Child(n, y, b) /\ \E w : Child(n, z, w) /\ Child(n, w, b)
    <3>1. PICK w : Child(n, z, w) /\ Child(n, w, b)
      BY <2>3
    <3>2. w = y
      BY <2>3, <3>1, OneParent
    <3>3. z = cur
      BY <1>10, <3>1, <3>2, OneParent
    <3>4. QED
      BY <1>10, <3>3
  <2>4. CASE Child(n, z, b) /\ \E w : Child(n, y, w) /\ Child(n, w, b)
    <3>1. PICK w : Child(n, y, w) /\ Child(n, w, b)
      BY <2>4
    <3>2. w = z
      BY <2>4, <3>1, OneParent
    <3>3. y = cur
      BY <1>10, <3>1, <3>2, OneParent
    <3>4. QED
      BY <1>10, <3>3
  <2>5. CASE (\E w : Child(n, y, w) /\ Child(n, w, b)) /\ \E w : Child(n, z, w) /\ Child(n, w, b)
    <3>1. PICK v : Child(n, y, v) /\ Child(n, v, b)
      BY <2>5
    <3>2. PICK w : Child(n, z, w) /\ Child(n, w, b)
      BY <2>5
    <3>3. v = w
      BY <3>1, <3>2, OneParent
    <3>4. QED
      BY <3>1, <3>2, <3>3, OneParent
  <2>6. QED
    BY <2>1, <2>2, <2>3, <2>4, <2>5 DEF Reach2
<1>11. ASSUME NEW y \in ahead, Child(n, cur, b), Child(n, cur, y) PROVE FALSE
  <2>1. CASE Child(n, y, b)
    <3>1. y = cur
      BY <1>11, <2>1, OneParent
    <3>2. QED
      BY <1>11, <3>1
  <2>2. CASE \E v : Child(n, y, v) /\ Child(n, v, b)
    <3>1. PICK v : Child(n, y, v) /\ Child(n, v, b)
      BY <2>2
    <3>2. v = cur
      BY <1>11, <3>1, OneParent
    <3>3. QED
      BY <3>1, <3>2
  <2>3. QED
    BY <1>7, <2>1, <2>2 DEF Reach2
<1>12. g \in [LinesFor(n) -> Seq(LinesFor(n))] /\ lines = BlockLines(n, 3, cur, o)
  BY <1>2, <1>3
<1>13. ~Twice(Followed(lines, g), LinesTo(b))
  BY <1>1, <1>4, <1>9, <1>10, <1>11, <1>12, LevelOnce
<1>14. ASSUME Has(Followed(lines, g), LinesTo(b)) PROVE Reach3(n, cur, b)
  <2>1. CASE Has(lines, LinesTo(b))
    <3>1. PICK l \in ToSet(lines) : l.reference_number = b
      BY <2>1 DEF Has, ToSet, LinesTo
    <3>2. QED
      BY <1>5, <3>1 DEF Reach3
  <2>2. CASE \E l \in ToSet(lines) : Has(g[l], LinesTo(b))
    BY <1>5, <1>6, <2>2 DEF Reach3
  <2>3. QED
    BY <1>4, <1>14, <2>1, <2>2
<1>15. QED
  BY <1>3, <1>13, <1>14

\* Two different blocks that no pointer leads to.
Apart(n, r, s) == r # s /\ \A x : ~Child(n, x, r) /\ ~Child(n, x, s)

LEMMA ApartNear ==
    ASSUME NEW n, Single(n), NEW r, NEW s, Apart(n, r, s), NEW b, Child(n, r, b), Reach3(n, s, b)
    PROVE  FALSE
<1>1. CASE Child(n, s, b)
  BY <1>1, OneParent DEF Apart
<1>2. CASE \E z : Child(n, s, z) /\ Reach2(n, z, b)
  <2>1. PICK z : Child(n, s, z) /\ Reach2(n, z, b)
    BY <1>2
  <2>2. CASE Child(n, z, b)
    <3>1. z = r
      BY <2>2, OneParent
    <3>2. QED
      BY <2>1, <3>1 DEF Apart
  <2>3. CASE \E w : Child(n, z, w) /\ Child(n, w, b)
    <3>1. PICK w : Child(n, z, w) /\ Child(n, w, b)
      BY <2>3
    <3>2. w = r
      BY <3>1, OneParent
    <3>3. QED
      BY <3>1, <3>2 DEF Apart
  <2>4. QED
    BY <2>1, <2>2, <2>3 DEF Reach2
<1>3. QED
  BY <1>1, <1>2 DEF Reach3

LEMMA ApartFar ==
    ASSUME NEW n, Single(n), NEW r, NEW s, Apart(n, r, s), NEW b, Reach3(n, r, b), Reach3(n, s, b)
    PROVE  FALSE
<1>1. Apart(n, s, r)
  BY DEF Apart
<1>2. ~Child(n, r, b) /\ ~Child(n, s, b)
  BY <1>1, ApartNear
<1>3. PICK u : Child(n, r, u) /\ Reach2(n, u, b)
  BY <1>2 DEF Reach3
<1>4. PICK z : Child(n, s, z) /\ Reach2(n, z, b)
  BY <1>2 DEF Reach3
<1>5. u # z
  BY <1>3, <1>4, OneParent DEF Apart
<1>6. CASE Child(n, u, b)
  <2>1. CASE Child(n, z, b)
    BY <1>5, <1>6, <2>1, OneParent
  <2>2. CASE \E w : Child(n, z, w) /\ Child(n, w, b)
    <3>1. PICK w : Child(n, z, w) /\ Child(n, w, b)
      BY <2>2
    <3>2. w = u
      BY <1>6, <3>1, OneParent
    <3>3. z = r
      BY <1>3, <3>1, <3>2, OneParent
    <3>4. QED
      BY <1>4, <3>3 DEF Apart
  <2>3. QED
    BY <1>4, <2>1, <2>2 DEF Reach2
<1>7. CASE \E v : Child(n, u, v) /\ Child(n, v, b)
  <2>1. PICK v : Child(n, u, v) /\ Child(n, v, b)
    BY <1>7
  <2>2. CASE Child(n, z, b)
    <3>1. v = z
      BY <2>1, <2>2, OneParent
    <3>2. u = s
      BY <1>4, <2>1, <3>1, OneParent
    <3>3. QED
      BY <1>3, <3>2 DEF Apart
  <2>3. CASE \E w : Child(n, z, w) /\ Child(n, w, b)
    <3>1. PICK w : Child(n, z, w) /\ Child(n, w, b)
      BY <2>3
    <3>2. v = w
      BY <2>1, <3>1, OneParent
    <3>3. QED
      BY <1>5, <2>1, <3>1, <3>2, OneParent
  <2>4. QED
    BY <1>4, <2>2, <2>3 DEF Reach2
<1>8. QED
  BY <1>3, <1>6, <1>7 DEF Reach2

\* The lines t are those of a tree with root r: one at most leads to b.
Rooted(n, r, t, b) == ~Twice(t, LinesTo(b)) /\ (Has(t, LinesTo(b)) => r # 0 /\ Reach3(n, r, b))

LEMMA EmptyRooted == ASSUME NEW t, ToSet(t) = {}, NEW n, NEW r, NEW b PROVE Rooted(n, r, t, b)
BY DEF Rooted, Twice, Has, ToSet

\* The roots of an inode are apart.
LEMMA RootsApart ==
    ASSUME NEW n, Single(n), NEW j \in 0 .. 14, NEW k \in 0 .. 14, j # k, NEW r, NEW s, r # 0, s # 0,
           At(n).i_block[j] = r, At(n).i_block[k] = s
    PROVE  Apart(n, r, s)
<1>1. (\A x : ~Child(n, x, r)) /\ \A i \in 0 .. 14 : At(n).i_block[i] = r => i = j
  BY RootsAlone
<1>2. \A x : ~Child(n, x, s)
  BY RootsAlone
<1>3. QED
  BY <1>1, <1>2 DEF Apart

LEMMA TreesRooted ==
    ASSUME NEW n, Single(n), NEW b
    PROVE  /\ Rooted(n, At(n).i_block[12], Tree1(n, At(n).i_block[12], 12), b)
           /\ Rooted(n, At(n).i_block[13], Tree2(n, At(n).i_block[13], 268), b)
           /\ Rooted(n, At(n).i_block[14], Tree3(n, At(n).i_block[14], 65804), b)
<1>1. image \in Images /\ NoTreeAt0 /\ n \in Numbers /\ n \in Nat
  BY RootsAre DEF Single
<1>2. PICK r, s, t \in Nat : r = At(n).i_block[12] /\ s = At(n).i_block[13] /\ t = At(n).i_block[14]
  BY <1>1, RootsAre
<1>3. 12 \in Nat /\ 268 \in Nat /\ 65804 \in Nat /\ 12 \in 0 .. 14 /\ 13 \in 0 .. 14 /\ 14 \in 0 .. 14
  OBVIOUS
<1>4. /\ Belongs(n, Tree1(n, r, 12)) /\ Belongs(n, Tree2(n, s, 268)) /\ Belongs(n, Tree3(n, t, 65804))
  BY <1>1, <1>2, TreesOfType DEF Belongs
<1>5. ASSUME NEW x, NEW y, Child(n, x, y) \/ Reach2(n, x, y) PROVE Reach3(n, x, y)
  BY <1>5 DEF Reach2, Reach3
<1>6. Rooted(n, r, Tree1(n, r, 12), b)
  <2>1. CASE r = 0
    <3>1. ToSet(Tree1(n, 0, 12)) = {}
      BY <1>1, <1>3, TreesAt0
    <3>2. QED
      BY <2>1, <3>1, EmptyRooted
  <2>2. CASE r # 0
    <3>1. ~Twice(Tree1(n, r, 12), LinesTo(b)) /\ (Has(Tree1(n, r, 12), LinesTo(b)) => Child(n, r, b))
      BY <1>3, <1>4, Tree1Once
    <3>2. QED
      BY <1>5, <2>2, <3>1 DEF Rooted
  <2>3. QED
    BY <2>1, <2>2
<1>7. Rooted(n, s, Tree2(n, s, 268), b)
  <2>1. CASE s = 0
    <3>1. ToSet(Tree2(n, 0, 268)) = {}
      BY <1>1, <1>3, TreesAt0
    <3>2. QED
      BY <2>1, <3>1, EmptyRooted
  <2>2. CASE s # 0
    <3>1. ~Child(n, s, s)
      BY <1>2, <1>3, <2>2, RootsAlone
    <3>2. ~Twice(Tree2(n, s, 268), LinesTo(b)) /\ (Has(Tree2(n, s, 268), LinesTo(b)) => Reach2(n, s, b))
      BY <1>3, <1>4, <3>1, Tree2Once
    <3>3. QED
      BY <1>5, <2>2, <3>2 DEF Rooted
  <2>3. QED
    BY <2>1, <2>2
<1>8. Rooted(n, t, Tree3(n, t, 65804), b)
  <2>1. CASE t = 0
    <3>1. ToSet(Tree3(n, 0, 65804)) = {}
      BY <1>1, <1>3, TreesAt0
    <3>2. QED
      BY <2>1, <3>1, EmptyRooted
  <2>2. CASE t # 0
    <3>1. \A x : ~Child(n, x, t)
      BY <1>2, <1>3, <2>2, RootsAlone
    <3>2. ~Twice(Tree3(n, t, 65804), LinesTo(b)) /\ (Has(Tree3(n, t, 65804), LinesTo(b)) => Reach3(n, t, b))
      BY <1>3, <1>4, <3>1, Tree3Once
    <3>3. QED
      BY <1>5, <2>2, <3>2 DEF Rooted
  <2>3. QED
    BY <2>1, <2>2
<1>9. QED
  BY <1>2, <1>6, <1>7, <1>8

\* However deep its trees are, one line at most of an inode leads to a block.
LEMMA TreesOnce == ASSUME NEW n, Single(n), NEW b PROVE ~Twice(TreesOf(n), LinesTo(b))
<1>1. image \in Images /\ n \in Numbers /\ n \in Nat
  BY RootsAre DEF Single
<1>2. PICK r, s, t \in Nat : r = At(n).i_block[12] /\ s = At(n).i_block[13] /\ t = At(n).i_block[14]
  BY <1>1, RootsAre
<1>3. PICK S, X : S = LinesFor(n) /\ X = LinesTo(b)
  OBVIOUS
<1>4. Tree1(n, r, 12) \in Seq(S) /\ Tree2(n, s, 268) \in Seq(S) /\ Tree3(n, t, 65804) \in Seq(S)
  <2>1. 12 \in Nat /\ 268 \in Nat /\ 65804 \in Nat
    OBVIOUS
  <2>2. Tree1(n, r, 12) \in Seq(S)
    BY <1>1, <1>3, <2>1, Tree1Are
  <2>3. Tree2(n, s, 268) \in Seq(S)
    BY <1>1, <1>3, <2>1, Tree2Are
  <2>4. Tree3(n, t, 65804) \in Seq(S)
    BY <1>1, <1>3, <2>1, Tree3Are
  <2>5. QED
    BY <2>2, <2>3, <2>4
<1>41. PICK x \in Seq(S) : x = Tree1(n, r, 12)
  BY <1>4
<1>42. PICK y \in Seq(S) : y = Tree2(n, s, 268)
  BY <1>4
<1>43. PICK z \in Seq(S) : z = Tree3(n, t, 65804)
  BY <1>4
<1>5. Rooted(n, r, x, b) /\ Rooted(n, s, y, b) /\ Rooted(n, t, z, b)
  <2>1. Rooted(n, At(n).i_block[12], Tree1(n, At(n).i_block[12], 12), b)
    BY TreesRooted, SMTT(30)
  <2>2. Rooted(n, At(n).i_block[13], Tree2(n, At(n).i_block[13], 268), b)
    BY TreesRooted
  <2>3. Rooted(n, At(n).i_block[14], Tree3(n, At(n).i_block[14], 65804), b)
    BY TreesRooted
  <2>4. QED
    BY <1>2, <1>41, <1>42, <1>43, <2>1, <2>2, <2>3
<1>6. /\ ~Twice(x, X) /\ (Has(x, X) => r # 0 /\ Reach3(n, r, b))
      /\ ~Twice(y, X) /\ (Has(y, X) => s # 0 /\ Reach3(n, s, b))
      /\ ~Twice(z, X) /\ (Has(z, X) => t # 0 /\ Reach3(n, t, b))
  BY <1>3, <1>5 DEF Rooted
<1>7. 12 \in 0 .. 14 /\ 13 \in 0 .. 14 /\ 14 \in 0 .. 14 /\ 12 # 13 /\ 12 # 14 /\ 13 # 14
  OBVIOUS
<1>8. ~(Has(x, X) /\ Has(y, X))
  <2>1. ASSUME r # 0, s # 0 PROVE Apart(n, r, s)
    BY <1>2, <1>7, <2>1, RootsApart
  <2>2. QED
    BY <1>6, <2>1, ApartFar
<1>9. ~(Has(x, X) /\ Has(z, X))
  <2>1. ASSUME r # 0, t # 0 PROVE Apart(n, r, t)
    BY <1>2, <1>7, <2>1, RootsApart
  <2>2. QED
    BY <1>6, <2>1, ApartFar
<1>10. ~(Has(y, X) /\ Has(z, X))
  <2>1. ASSUME s # 0, t # 0 PROVE Apart(n, s, t)
    BY <1>2, <1>7, <2>1, RootsApart
  <2>2. QED
    BY <1>6, <2>1, ApartFar
<1>11. PICK xy \in Seq(S) : xy = x \o y
  BY ConcatProperties
<1>12. ~Twice(xy, X) /\ (Has(xy, X) => Has(x, X) \/ Has(y, X))
  <2>1. ~Twice(x \o y, X)
    BY <1>6, <1>8, ConcatTwice
  <2>2. Has(x \o y, X) => Has(x, X) \/ Has(y, X)
    BY ConcatHas
  <2>3. QED
    BY <1>11, <2>1, <2>2
<1>13. ~Twice(xy \o z, X)
  BY <1>6, <1>9, <1>10, <1>12, ConcatTwice
<1>14. TreesOf(n) = xy \o z
  BY <1>2, <1>41, <1>42, <1>43, <1>11 DEF TreesOf
<1>15. QED
  BY <1>3, <1>13, <1>14

-----------------------------------------------------------------------------
(* No block is referred to twice.                                          *)

LEMMA SingleIs ==
    ASSUME Audited, Lone, NEW n \in Numbers, InUse(At(n)), Walked(n) PROVE Single(n)
BY AuditedIs DEF Single

LEMMA HasPointer ==
    ASSUME Audited, Lone, NEW n \in Numbers, NEW b, Has(TreePieces[n], LinesTo(b))
    PROVE  \E m \in Mentions : m[1] = n /\ m[2] \in Nat /\ m[4] = b
<1>1. InUse(At(n)) /\ Walked(n) /\ TreePieces[n] = TreesOf(n)
  <2>1. TreePieces[n] = IF InUse(At(n)) /\ Walked(n) THEN TreesOf(n) ELSE <<>>
    BY DEF Audited, NothingLeftOut
  <2>2. ~Has(<<>>, LinesTo(b))
    BY NoneOnce
  <2>3. QED
    BY <2>1, <2>2
<1>2. Single(n)
  BY <1>1, SingleIs
<1>3. PICK l \in ToSet(TreesOf(n)) : l.reference_number = b
  BY <1>1 DEF Has, ToSet, LinesTo
<1>4. PICK p \in PointersOf(n) : p.reference = b
  BY <1>2, <1>3, LineChild DEF Child
<1>5. PICK m \in Mentions : m = <<n, p.block, p.slot, p.reference>> /\ p.block \in Nat
  BY <1>2, <1>4, PointersMentioned
<1>6. m[1] = n /\ m[2] = p.block /\ m[4] = p.reference
  BY <1>5
<1>7. QED
  BY <1>4, <1>5, <1>6

LEMMA LoneIndirect == ASSUME Audited, Lone, NEW b PROVE ~Twice(my_indir, LinesTo(b))
<1>1. PICK c \in Nat : c = sb.s_inodes_count /\ Numbers = 1 .. c /\ image \in Images
  BY AuditedIs
<1>2. PICK X : X = LinesTo(b)
  OBVIOUS
<1>3. PICK f \in [Nat -> Seq(ScanLines)] : f = TreePieces
  BY <1>1, PiecesType
<1>4. ASSUME NEW n \in 1 .. c PROVE ~Twice(f[n], X)
  <2>1. TreePieces[n] = IF InUse(At(n)) /\ Walked(n) THEN TreesOf(n) ELSE <<>>
    BY <1>1 DEF Audited, NothingLeftOut
  <2>2. CASE InUse(At(n)) /\ Walked(n)
    <3>1. Single(n)
      BY <1>1, <2>2, SingleIs
    <3>2. ~Twice(TreesOf(n), LinesTo(b))
      BY <3>1, TreesOnce
    <3>3. QED
      BY <1>2, <1>3, <2>1, <2>2, <3>2
  <2>3. CASE ~(InUse(At(n)) /\ Walked(n))
    BY <1>3, <2>1, <2>3, NoneOnce
  <2>4. QED
    BY <2>2, <2>3
<1>5. ASSUME NEW n \in 1 .. c, NEW q \in 1 .. c, n # q, Has(f[n], X), Has(f[q], X) PROVE FALSE
  <2>1. Has(TreePieces[n], LinesTo(b)) /\ Has(TreePieces[q], LinesTo(b))
    BY <1>2, <1>3, <1>5
  <2>2. PICK m \in Mentions : m[1] = n /\ m[4] = b
    BY <1>1, <2>1, HasPointer
  <2>3. PICK o \in Mentions : o[1] = q /\ o[4] = b
    BY <1>1, <2>1, HasPointer
  <2>4. m = o
    BY <2>2, <2>3 DEF Lone
  <2>5. QED
    BY <1>5, <2>2, <2>3, <2>4
<1>6. ~Twice(Upto(f, c), X)
  BY <1>4, <1>5, UptoOnce
<1>7. QED
  BY <1>1, <1>2, <1>3, <1>6, LinesRead

LEMMA LonePointers == ASSUME Audited, Lone, NEW b PROVE ~Twice(ByPointer, To(b))
<1>1. SUFFICES ASSUME NEW i \in DOMAIN ByPointer, NEW j \in DOMAIN ByPointer, i # j,
                      ByPointer[i] \in To(b), ByPointer[j] \in To(b)
               PROVE  FALSE
  BY DEF Twice
<1>2. DOMAIN ByPointer = DOMAIN my_indir
  BY DEF ByPointer
<1>3. \A k \in DOMAIN my_indir : ByPointer[k] \in To(b) => my_indir[k] \in LinesTo(b)
  <2>1. ASSUME NEW k \in DOMAIN my_indir, ByPointer[k] \in To(b) PROVE my_indir[k] \in LinesTo(b)
    <3>1. ByPointer[k].block = my_indir[k].reference_number
      BY PointerMeant
    <3>2. my_indir[k] \in IndirectLines
      BY ReferencesRead
    <3>3. QED
      BY <2>1, <3>1, <3>2 DEF To, LinesTo
  <2>2. QED
    BY <2>1
<1>4. Twice(my_indir, LinesTo(b))
  BY <1>1, <1>2, <1>3 DEF Twice
<1>5. QED
  BY <1>4, LoneIndirect

LEMMA HasAddress ==
    ASSUME Audited, NEW i \in DOMAIN my_inode, NEW b, Has(InodeReferences(my_inode[i]), To(b))
    PROVE  \E m \in Mentions : m[1] = my_inode[i].inode_number /\ m[2] = -1 /\ m[4] = b
<1>1. PICK n \in Numbers : InUse(At(n)) /\ my_inode[i] = LineOf(n)
  BY InodeRead
<1>2. PICK r \in ToSet(InodeReferences(LineOf(n))) : r.block = b
  BY <1>1 DEF Has, ToSet, To
<1>3. ~Text(n) /\ b # 0 /\ \E k \in 0 .. 14 : At(n).i_block[k] = b
  BY <1>2, AddressIs
<1>4. PICK k \in 0 .. 14 : At(n).i_block[k] = b
  BY <1>3
<1>5. PICK m \in Mentions : m = <<n, -1, k, b>>
  BY <1>1, <1>3, <1>4, AddressMentioned
<1>6. m[1] = n /\ m[2] = -1 /\ m[4] = b
  BY <1>5
<1>7. my_inode[i].inode_number = n
  BY <1>1, AuditedIs, LineOfIs
<1>8. QED
  BY <1>6, <1>7

\* The addresses of one inode.
LEMMA AddressesOnce ==
    ASSUME Audited, Lone, NEW n \in Numbers, InUse(At(n)), NEW b
    PROVE  ~Twice(InodeReferences(LineOf(n)), To(b))
<1>1. SUFFICES ASSUME Twice(InodeReferences(LineOf(n)), To(b)) PROVE FALSE
  OBVIOUS
<1>2. PICK r \in ToSet(InodeReferences(LineOf(n))) : r.block = b
  BY <1>1 DEF Twice, ToSet, To
<1>3. ~Text(n) /\ b # 0
  BY <1>2, AddressIs
<1>4. PICK refs \in Seq(Mentioned) :
         /\ InodeReferences(LineOf(n)) = Without(refs, {q \in ToSet(refs) : q.block = 0})
         /\ Len(refs) = 15 /\ \A k \in 1 .. 15 : refs[k].block = At(n).i_block[k - 1]
  BY <1>3, AddressesRead
<1>5. PICK X, dropped : X = To(b) /\ dropped = {q \in ToSet(refs) : q.block = 0}
  OBVIOUS
<1>6. Twice(Without(refs, dropped), X)
  BY <1>1, <1>4, <1>5
<1>7. Twice(refs, X)
  BY <1>6, TwiceWithout
<1>8. DOMAIN refs = 1 .. 15
  <2>1. refs \in Seq(Mentioned) /\ 15 \in Nat /\ Len(refs) = 15
    BY <1>4
  <2>2. QED
    BY <2>1, SeqElements
<1>9. PICK i \in 1 .. 15, j \in 1 .. 15 : i # j /\ refs[i].block = b /\ refs[j].block = b
  BY <1>5, <1>7, <1>8 DEF Twice, To
<1>10. ASSUME NEW k \in 1 .. 15, refs[k].block = b PROVE <<n, -1, k - 1, b>> \in Mentions
  <2>1. PICK x \in 0 .. 14 : x = k - 1
    OBVIOUS
  <2>2. At(n).i_block[x] = b
    BY <1>4, <1>10, <2>1
  <2>3. <<n, -1, x, b>> \in Mentions
    BY <1>3, <2>2, AddressMentioned
  <2>4. QED
    BY <2>1, <2>3
<1>11. PICK m \in Mentions, o \in Mentions : m = <<n, -1, i - 1, b>> /\ o = <<n, -1, j - 1, b>>
  BY <1>9, <1>10
<1>12. m = o
  BY <1>11 DEF Lone
<1>13. m[3] = i - 1 /\ o[3] = j - 1
  BY <1>11
<1>14. QED
  BY <1>9, <1>12, <1>13

LEMMA LoneAddresses == ASSUME Audited, Lone, NEW b PROVE ~Twice(ByInode, To(b))
<1>1. PICK ss \in Seq(Seq(Mentioned)) : ss = [k \in DOMAIN my_inode |-> InodeReferences(my_inode[k])]
  BY ReferencesRead
<1>2. DOMAIN ss = DOMAIN my_inode /\ \A k \in DOMAIN my_inode : ss[k] = InodeReferences(my_inode[k])
  BY <1>1
<1>3. PICK X : X = To(b)
  OBVIOUS
<1>4. ASSUME NEW i \in DOMAIN my_inode PROVE ~Twice(ss[i], X)
  <2>1. PICK n \in Numbers : InUse(At(n)) /\ my_inode[i] = LineOf(n)
    BY InodeRead
  <2>2. QED
    BY <1>2, <1>3, <2>1, AddressesOnce
<1>5. ASSUME NEW i \in DOMAIN my_inode, NEW j \in DOMAIN my_inode, i # j, Has(ss[i], X), Has(ss[j], X)
      PROVE  FALSE
  <2>1. Has(InodeReferences(my_inode[i]), To(b)) /\ Has(InodeReferences(my_inode[j]), To(b))
    BY <1>2, <1>3, <1>5
  <2>2. PICK m \in Mentions : m[1] = my_inode[i].inode_number /\ m[4] = b
    BY <2>1, HasAddress
  <2>3. PICK o \in Mentions : o[1] = my_inode[j].inode_number /\ o[4] = b
    BY <2>1, HasAddress
  <2>4. my_inode[i].inode_number = my_inode[j].inode_number
    BY <2>2, <2>3 DEF Lone
  <2>5. Distinct(my_inode)
    <3>1. PICK c \in Nat : c = sb.s_inodes_count /\ image \in Images
      BY AuditedIs
    <3>2. my_inode = Upto(InodePieces, c)
      BY <3>1, LinesRead
    <3>3. QED
      BY <3>1, <3>2, InodesDistinct
  <2>6. QED
    BY <1>5, <2>4, <2>5 DEF Distinct
<1>6. ~TwiceIn(ss, X)
  BY <1>2, <1>4, <1>5 DEF TwiceIn
<1>7. ~Twice(FlattenSeq(ss), X)
  BY <1>6, FlattenTwice
<1>8. QED
  BY <1>1, <1>3, <1>7 DEF ByInode

LEMMA LoneReferences == ASSUME Audited, Lone, NEW b PROVE ~Twice(References, To(b))
<1>1. PICK x \in Seq(Mentioned), y \in Seq(Mentioned) : x = ByInode /\ y = ByPointer
  BY ReferencesRead
<1>2. References = x \o y
  BY <1>1, ReferencesRead
<1>3. PICK X : X = To(b)
  OBVIOUS
<1>4. ~Twice(x, X) /\ ~Twice(y, X)
  BY <1>1, <1>3, LoneAddresses, LonePointers
<1>5. ASSUME Has(x, X), Has(y, X) PROVE FALSE
  <2>1. PICK i \in DOMAIN my_inode : Has(InodeReferences(my_inode[i]), To(b))
    <3>1. PICK ss \in Seq(Seq(Mentioned)) : ss = [k \in DOMAIN my_inode |-> InodeReferences(my_inode[k])]
      BY ReferencesRead
    <3>2. Has(FlattenSeq(ss), X)
      BY <1>1, <1>5, <3>1 DEF ByInode
    <3>3. PICK i \in DOMAIN ss : Has(ss[i], X)
      BY <3>2, FlattenHas
    <3>4. QED
      BY <1>3, <3>1, <3>3
  <2>2. PICK m \in Mentions : m[2] = -1 /\ m[4] = b
    BY <2>1, HasAddress
  <2>3. PICK k \in DOMAIN my_indir : my_indir[k].reference_number = b
    <3>1. PICK k \in DOMAIN ByPointer : ByPointer[k].block = b
      BY <1>1, <1>3, <1>5 DEF Has, To
    <3>2. k \in DOMAIN my_indir
      BY DEF ByPointer
    <3>3. QED
      BY <3>1, <3>2, PointerMeant
  <2>4. PICK n \in Numbers : InUse(At(n)) /\ Walked(n) /\ my_indir[k] \in ToSet(TreesOf(n))
    BY TreeLines
  <2>5. Single(n)
    BY <2>4, SingleIs
  <2>6. PICK p \in PointersOf(n) : p.reference = b
    BY <2>3, <2>4, <2>5, LineChild DEF Child
  <2>7. PICK o \in Mentions : o = <<n, p.block, p.slot, p.reference>> /\ p.block \in Nat
    BY <2>5, <2>6, PointersMentioned
  <2>8. o[2] = p.block /\ o[4] = b
    BY <2>6, <2>7
  <2>9. m = o
    BY <2>2, <2>8 DEF Lone
  <2>10. QED
    BY <2>2, <2>7, <2>8, <2>9
<1>6. ~Twice(x \o y, X)
  BY <1>4, <1>5, ConcatTwice
<1>7. QED
  BY <1>2, <1>3, <1>6

-----------------------------------------------------------------------------
(* On a sound image the audit has nothing to say of blocks and inodes.     *)

\* lab3a_std leaves nothing out of a sound image either.
LEMMA SoundIsScanned ==
    ASSUME image \in Images, program = "lab3a_std", Sound, NEW n \in Numbers
    PROVE  Scanned(n) <=> InUse(At(n))
<1>1. sb.s_inodes_count \in Nat /\ Numbers = 1 .. sb.s_inodes_count /\ sb.s_first_ino \in Nat
  BY ImageFacts DEF ext2_super_block
<1>2. PICK c \in Nat, first \in Nat : c = sb.s_inodes_count /\ first = sb.s_first_ino
  BY <1>1
<1>3. n \in 1 .. c
  BY <1>1, <1>2
<1>4. /\ first > 2
      /\ n = 2 \/ n >= first => (InUse(At(n)) <=> n - 1 \in image.inode_bitmap)
      /\ \A i \in 1 .. first - 1 : i - 1 \in image.inode_bitmap /\ (InUse(At(i)) => i = 2)
      /\ ~InUse(At(c))
  BY <1>2 DEF Sound, Intact, InodesIntact, WithinStd
<1>5. 1 \in image.inode_bitmap
  <2>1. 2 \in 1 .. first - 1 /\ 2 - 1 = 1
    BY <1>4
  <2>2. QED
    BY <1>4, <2>1
<1>6. Scanned(n) <=> /\ n >= 2 /\ n < c
                     /\ n - 1 \in image.inode_bitmap
                     /\ n = 2 \/ n >= first
  BY <1>2, <1>5 DEF Scanned
<1>7. ASSUME InUse(At(n)) PROVE (n = 2 \/ n >= first) /\ n < c
  <2>1. n # c
    BY <1>4, <1>7
  <2>2. n \in 1 .. first - 1 => n = 2
    BY <1>4, <1>7
  <2>3. n \in 1 .. first - 1 \/ n >= first
    BY <1>3
  <2>4. QED
    BY <1>3, <2>1, <2>2, <2>3
<1>8. n >= first => n >= 2
  BY <1>3, <1>4
<1>9. QED
  BY <1>4, <1>6, <1>7, <1>8

LEMMA NothingLeftOutByStd ==
    ASSUME image \in Images, program = "lab3a_std", Sound PROVE NothingLeftOut
<1>1. NoTreeAt0
  BY DEF NoTreeAt0, Programs
<1>2. SUFFICES ASSUME NEW n \in Numbers
               PROVE  /\ Scanned(n) <=> InUse(At(n))
                      /\ TreePieces[n] = IF InUse(At(n)) /\ Walked(n) THEN TreesOf(n) ELSE <<>>
  BY DEF NothingLeftOut
<1>3. Scanned(n) <=> InUse(At(n))
  BY SoundIsScanned
<1>4. n \in Nat
  BY RootsAre
<1>5. TreePieces[n] = IF Scanned(n) THEN TreesOf(n) ELSE <<>>
  BY <1>4 DEF TreePieces
<1>6. ASSUME ~Walked(n) PROVE TreesOf(n) = <<>>
  <2>1. PointersOf(n) = {}
    BY <1>6 DEF Sound, Intact, InodesIntact, WithinStd
  <2>2. ToSet(TreesOf(n)) = {}
    BY <1>1, <2>1, TreesRight DEF Right
  <2>3. PICK s \in Seq(LinesFor(n)) : s = TreesOf(n)
    BY TreesOfType
  <2>4. ToSet(s) = {}
    BY <2>2, <2>3
  <2>5. DOMAIN s = {}
    BY <2>4 DEF ToSet
  <2>6. s = <<>>
    <3>1. Len(s) \in Nat /\ DOMAIN s = 1 .. Len(s)
      OBVIOUS
    <3>2. Len(s) = 0
      <4>1. Len(s) >= 1 => 1 \in 1 .. Len(s)
        BY <3>1
      <4>2. QED
        BY <2>5, <3>1, <4>1
    <3>3. QED
      BY <3>2, EmptySeq
  <2>7. QED
    BY <2>3, <2>6
<1>7. QED
  BY <1>3, <1>5, <1>6

LEMMA SoundIsAudited ==
    ASSUME FileInv, ReadInv, scan = "done", audit # "parse", Sound
    PROVE  Audited /\ Lone
<1>1. image \in Images /\ program \in Programs
  BY DEF FileInv, ScanInv, ScanTypes
<1>2. NothingLeftOut
  BY <1>1, NothingLeftOutByLab3a, NothingLeftOutByStd DEF Programs
<1>3. Intact
  BY DEF Sound
<1>4. BootBlockEmpty /\ LinksIntact
  BY <1>3 DEF Intact, InodesIntact
<1>5. QED
  BY <1>2, <1>3, <1>4, SoundIsLone DEF Audited

LEMMA MentionsInUse ==
    ASSUME Intact, NEW m \in Mentions
    PROVE  m[4] \in DataBlocks /\ m[4] - 1 \in image.block_bitmap
<1>1. PICK b : b = m[4]
  OBVIOUS
<1>2. b \in DataBlocks
  <2>1. {q[4] : q \in Mentions} \subseteq DataBlocks
    BY DEF Intact
  <2>2. m[4] \in {q[4] : q \in Mentions}
    OBVIOUS
  <2>3. QED
    BY <1>1, <2>1, <2>2
<1> DEFINE M == {q \in Mentions : q[4] = b}
<1>3. m \in M
  BY <1>1
<1>4. IF b - 1 \in image.block_bitmap THEN \E q \in M : M = {q} ELSE M = {}
  BY <1>2 DEF Intact, BlocksIntact
<1> HIDE DEF M
<1>5. b - 1 \in image.block_bitmap
  BY <1>3, <1>4
<1>6. QED
  BY <1>1, <1>2, <1>5

LEMMA InUseIsMentioned ==
    ASSUME Intact, NEW b \in DataBlocks, b - 1 \in image.block_bitmap
    PROVE  \E m \in Mentions : m[4] = b
<1> DEFINE M == {q \in Mentions : q[4] = b}
<1>1. \E q \in M : M = {q}
  BY DEF Intact, BlocksIntact
<1>2. QED
  BY <1>1

LEMMA SoundBlocks ==
    ASSUME Audited, Lone, Intact
    PROVE  BlocksConsistent(my_sp.num_blocks - 1)
<1>1. my_bfree = {b \in 1 .. BitmapBits : b - 1 \notin image.block_bitmap}
  BY FreeRead
<1>2. DataBlocks = start_block .. my_group.bid_group - 1 /\ DataBlocks = start_block .. my_sp.num_blocks - 1
  <2>1. my_group = GroupLine /\ image \in Images /\ my_sp.num_blocks = sb.s_blocks_count
    BY LinesRead, AuditedIs, BlocksRead
  <2>2. my_group.bid_group = sb.s_blocks_count
    BY <2>1, HeadsAre
  <2>3. QED
    BY <2>1, <2>2, BlocksRead
<1>3. ASSUME NEW r \in ToSet(References)
      PROVE  r.block \in (start_block .. my_sp.num_blocks - 1) \ my_bfree
  <2>1. PICK m \in Mentions : m[4] = r.block
    BY ReferenceMentioned
  <2>2. m[4] \in DataBlocks /\ m[4] - 1 \in image.block_bitmap
    BY MentionsInUse
  <2>3. QED
    BY <1>1, <1>2, <2>1, <2>2
<1>4. ASSUME NEW j \in DOMAIN References, NEW k \in DOMAIN References,
             References[j].block = References[k].block
      PROVE  j = k
  <2>1. PICK b : b = References[k].block
    OBVIOUS
  <2>2. References \in Seq(Mentioned)
    BY ReferencesRead
  <2>3. References[j] \in To(b) /\ References[k] \in To(b)
    BY <1>4, <2>1, <2>2 DEF To
  <2>4. ~Twice(References, To(b))
    BY LoneReferences
  <2>5. QED
    BY <2>3, <2>4 DEF Twice
<1>5. ASSUME NEW b \in DataBlocks PROVE b \in my_bfree \/ \E r \in ToSet(References) : r.block = b
  <2>1. CASE b - 1 \in image.block_bitmap
    <3>1. PICK m \in Mentions : m[4] = b
      BY <2>1, InUseIsMentioned
    <3>2. QED
      BY <3>1, MentionReferred
  <2>2. CASE b - 1 \notin image.block_bitmap
    <3>1. b # 0
      BY DEF Intact
    <3>2. b \in 1 .. BitmapBits
      BY <3>1, DataBlocksAre
    <3>3. QED
      BY <1>1, <2>2, <3>2
  <2>3. QED
    BY <2>1, <2>2
<1>6. QED
  BY <1>2, <1>3, <1>4, <1>5 DEF BlocksConsistent

LEMMA FreeInodesRead ==
    ASSUME Audited
    PROVE  Free = {n \in 1 .. BitmapBits : n - 1 \notin image.inode_bitmap}
<1>1. Upon(csv, sb.s_inodes_count, sb.s_inodes_count) /\ image \in Images
  BY AuditedIs
<1>2. Lines("IFREE") = IFreeLines
  BY <1>1, LinesOfCsv DEF Upon
<1>3. PICK u \in Seq(Nat) : u = Unset(image.inode_bitmap)
  BY UnsetType
<1>4. Lines("IFREE") = [k \in DOMAIN u |-> IFree(u[k])]
  BY <1>2, <1>3 DEF IFreeLines
<1>5. \A k \in DOMAIN u : IFree(u[k]).number = u[k]
  BY DEF IFree
<1>6. /\ DOMAIN NumberFields("IFREE") = DOMAIN u
      /\ \A k \in DOMAIN u : NumberFields("IFREE")[k] = u[k]
  BY <1>4, <1>5 DEF NumberFields
<1>7. Free = ToSet(u)
  BY <1>6 DEF Free, ToSet
<1>8. PICK bitmap \in SUBSET Nat : bitmap = image.inode_bitmap
  <2>1. image.inode_bitmap \subseteq 0 .. BitmapBits - 1 /\ BitmapBits \in Nat
    BY <1>1, ImageFacts, BitmapAssumption
  <2>2. \A n \in 0 .. BitmapBits - 1 : n \in Nat
    BY <2>1
  <2>3. QED
    BY <2>1, <2>2
<1>9. Free = (1 .. BitmapBits) \ {bit + 1 : bit \in bitmap}
  BY <1>3, <1>7, <1>8, UnsetAre
<1>10. ASSUME NEW n \in 1 .. BitmapBits PROVE n \in {bit + 1 : bit \in bitmap} <=> n - 1 \in bitmap
  <2>1. n \in Int /\ (n - 1) + 1 = n
    BY BitmapAssumption
  <2>2. \A bit \in bitmap : bit \in Int /\ (bit + 1 = n => bit = n - 1)
    BY <2>1
  <2>3. QED
    BY <2>1, <2>2
<1>11. QED
  BY <1>8, <1>9, <1>10

\* The inodes described are those in use, and described as used.
LEMMA UsedRead ==
    ASSUME Audited
    PROVE  Used = {n \in Numbers : InUse(At(n))} /\ Unused = {}
<1>1. image \in Images
  BY AuditedIs
<1>2. \A n \in Numbers : LineOf(n).inode_number = n /\ LineOf(n).file_type # "0"
  <2>1. ASSUME NEW n \in Numbers PROVE LineOf(n).inode_number = n /\ LineOf(n).file_type # "0"
    <3>1. FileFormat(At(n).i_mode) # "0"
      BY DEF FileFormat
    <3>2. QED
      BY <1>1, <3>1, LineOfIs
  <2>2. QED
    BY <2>1
<1>3. ASSUME NEW l PROVE l \in ToSet(my_inode) <=> \E n \in Numbers : InUse(At(n)) /\ l = LineOf(n)
  <2>1. l \in ToSet(my_inode) <=> \E k \in DOMAIN my_inode : l = my_inode[k]
    BY DEF ToSet
  <2>2. QED
    BY <2>1, InodeRead
<1>4. QED
  BY <1>2, <1>3 DEF Used, Unused

LEMMA SoundInodes == ASSUME Audited, Intact PROVE InodesConsistent({})
<1>1. PICK c \in Nat : c = sb.s_inodes_count /\ Numbers = 1 .. c /\ image \in Images
  BY AuditedIs
<1>2. sb \in ext2_super_block
  BY <1>1, ImageFacts
<1>3. PICK first \in Nat : first = sb.s_first_ino
  BY <1>2 DEF ext2_super_block
<1>4. /\ first > 2 /\ c <= BitmapBits /\ BitmapBits \in Nat
      /\ \A n \in 1 .. c : n = 2 \/ n >= first => (InUse(At(n)) <=> n - 1 \in image.inode_bitmap)
      /\ \A n \in 1 .. first - 1 : n - 1 \in image.inode_bitmap /\ (InUse(At(n)) => n = 2)
  BY <1>1, <1>3, BitmapAssumption DEF Intact, InodesIntact
<1>5. /\ Used = {n \in 1 .. c : InUse(At(n))} /\ Unused = {}
      /\ Free = {n \in 1 .. BitmapBits : n - 1 \notin image.inode_bitmap}
  BY <1>1, UsedRead, FreeInodesRead
<1>6. my_sp.first_inode = first /\ my_sp.num_inodes = c
  BY <1>1, <1>3, LinesRead, HeadsAre
<1>7. ASSUME NEW n \in Used, n \in Free PROVE FALSE
  <2>1. n \in 1 .. c /\ InUse(At(n)) /\ n - 1 \notin image.inode_bitmap
    BY <1>5, <1>7
  <2>2. n \in 1 .. first - 1 \/ n >= first
    BY <2>1
  <2>3. QED
    BY <1>4, <2>1, <2>2
<1>8. ASSUME NEW n \in first .. c PROVE n \in Used \cup Free
  <2>1. n \in 1 .. c /\ n >= first /\ n \in 1 .. BitmapBits
    BY <1>4
  <2>2. QED
    BY <1>4, <1>5, <2>1
<1>9. QED
  BY <1>5, <1>6, <1>7, <1>8 DEF InodesConsistent

-----------------------------------------------------------------------------
(* The members of the directories of a sound image, and the order in which *)
(* they are printed.                                                       *)

\* Those of the directories below n, and those in directory d before offset o of
\* its k-th block.
MembersBelow(n) == {m \in AllMembers : m[1] < n}
LiesBefore(m, d, k, o) ==
    \E j \in 0 .. 11 : m[2] = At(d).i_block[j] /\ (j < k \/ (j = k /\ m[3] < o))
Gone(d, k, o) == {m \in Members(d) : LiesBefore(m, d, k, o)}

MemberAt(d, j, o, m) ==
    /\ At(d).i_block[j] # 0 /\ At(d).i_block[j] \in DOMAIN image.entries
    /\ o \in DOMAIN image.entries[At(d).i_block[j]]
    /\ m = <<d, At(d).i_block[j], o>> /\ EntryAt(At(d).i_block[j], o).inode # 0

LEMMA MembersAre ==
    ASSUME NEW d, NEW m
    PROVE  m \in Members(d) <=> \E j \in 0 .. 11 : \E o : MemberAt(d, j, o, m)
<1> DEFINE B == BlocksOfDirectory(d) \cap DOMAIN image.entries
           Places(b) == {<<d, b, o>> : o \in DOMAIN image.entries[b]}
           M == UNION {Places(b) : b \in B}
<1>0. m \in M <=> \E b \in B : m \in Places(b)
  BY Zenon
<1>1. m \in Members(d) <=>
          \E b \in B : \E o \in DOMAIN image.entries[b] :
              m = <<d, b, o>> /\ EntryAt(m[2], m[3]).inode # 0
  <2>1. m \in Members(d) <=> m \in M /\ EntryAt(m[2], m[3]).inode # 0
    BY DEF Members
  <2>2. \A b : m \in Places(b) <=> \E o \in DOMAIN image.entries[b] : m = <<d, b, o>>
    OBVIOUS
  <2> HIDE DEF B, Places, M
  <2>3. QED
    BY <1>0, <2>1, <2>2, Zenon
<1> HIDE DEF M, Places
<1>2. \A b, o : <<d, b, o>>[2] = b /\ <<d, b, o>>[3] = o
  OBVIOUS
<1>3. m \in Members(d) <=>
          \E b \in BlocksOfDirectory(d) \cap DOMAIN image.entries : \E o \in DOMAIN image.entries[b] :
              m = <<d, b, o>> /\ EntryAt(b, o).inode # 0
  BY <1>1, <1>2
<1>4. \A b : b \in BlocksOfDirectory(d) <=> b # 0 /\ \E j \in 0 .. 11 : b = At(d).i_block[j]
  BY DEF BlocksOfDirectory, EXT2_NDIR_BLOCKS
<1>5. ASSUME m \in Members(d) PROVE \E j \in 0 .. 11 : \E o : MemberAt(d, j, o, m)
  <2>1. PICK b \in BlocksOfDirectory(d) \cap DOMAIN image.entries :
            \E o \in DOMAIN image.entries[b] : m = <<d, b, o>> /\ EntryAt(b, o).inode # 0
    BY <1>3, <1>5
  <2>2. PICK o \in DOMAIN image.entries[b] : m = <<d, b, o>> /\ EntryAt(b, o).inode # 0
    BY <2>1
  <2>3. PICK j \in 0 .. 11 : b = At(d).i_block[j]
    BY <1>4
  <2>4. MemberAt(d, j, o, m)
    BY <1>4, <2>2, <2>3 DEF MemberAt
  <2>5. QED
    BY <2>4
<1>6. ASSUME NEW j \in 0 .. 11, NEW o, MemberAt(d, j, o, m) PROVE m \in Members(d)
  <2>1. PICK b : b = At(d).i_block[j]
    OBVIOUS
  <2>2. /\ b # 0 /\ b \in DOMAIN image.entries /\ o \in DOMAIN image.entries[b]
        /\ m = <<d, b, o>> /\ EntryAt(b, o).inode # 0
    BY <1>6, <2>1 DEF MemberAt
  <2>3. b \in BlocksOfDirectory(d)
    BY <1>4, <2>1, <2>2
  <2>4. QED
    BY <1>3, <2>2, <2>3
<1>7. QED
  BY <1>5, <1>6

\* A directory of a sound image.
Orderly(d) ==
    /\ image \in Images /\ d \in Directories /\ d \in Nat
    /\ \A k \in 0 .. 14 : At(d).i_block[k] \in Nat
    /\ \A k \in 0 .. 14 : At(d).i_block[k] # 0 =>
          /\ k < 12 /\ At(d).i_block[k] \in DOMAIN image.entries
          /\ Chained(image.entries[At(d).i_block[k]])
          /\ \A j \in 0 .. 14 : At(d).i_block[j] = At(d).i_block[k] => j = k
          /\ \A j \in 0 .. k : At(d).i_block[j] # 0

LEMMA SoundIsOrderly ==
    ASSUME image \in Images, program \in Programs, Sound, NEW d \in Directories
    PROVE  Orderly(d)
<1>1. d \in Numbers /\ InUse(At(d)) /\ At(d).i_mode = "dir"
  BY DEF Directories
<1>2. d \in Nat /\ At(d) \in ext2_inode
  <2>1. sb.s_inodes_count \in Nat /\ Numbers = 1 .. sb.s_inodes_count /\ \A n \in Numbers : At(n) \in ext2_inode
    BY ImageFacts DEF ext2_super_block
  <2>2. QED
    BY <1>1, <2>1
<1>3. PICK f \in [0 .. 14 -> Nat] : f = At(d).i_block
  BY <1>2 DEF ext2_inode, EXT2_N_BLOCKS, EXT2_TIND_BLOCK, EXT2_DIND_BLOCK, EXT2_IND_BLOCK, EXT2_NDIR_BLOCKS
<1>4. Lone /\ Intact
  BY SoundIsLone DEF Sound
<1>5. Single(d)
  BY <1>1, <1>4 DEF Single, NoTreeAt0, Walked, Intact
<1>6. /\ BlocksOfDirectory(d) \subseteq DOMAIN image.entries
      /\ \A b \in BlocksOfDirectory(d) : Chained(image.entries[b])
      /\ \A k \in 0 .. 14 : At(d).i_block[k] # 0 => k < 12 /\ \A j \in 0 .. k : At(d).i_block[j] # 0
  BY <1>4 DEF Intact, DirectoriesIntact, DirectoryIntact
<1>7. ASSUME NEW k \in 0 .. 14, f[k] # 0
      PROVE  /\ k < 12 /\ f[k] \in DOMAIN image.entries
             /\ Chained(image.entries[f[k]])
             /\ \A j \in 0 .. 14 : f[j] = f[k] => j = k
             /\ \A j \in 0 .. k : f[j] # 0
  <2>1. k < 12 /\ \A j \in 0 .. k : f[j] # 0
    BY <1>3, <1>6, <1>7
  <2>2. k \in 0 .. EXT2_NDIR_BLOCKS - 1
    BY <2>1 DEF EXT2_NDIR_BLOCKS
  <2>3. f[k] \in BlocksOfDirectory(d)
    BY <1>3, <1>7, <2>2 DEF BlocksOfDirectory
  <2>4. PICK z : z = f[k]
    OBVIOUS
  <2>5. z # 0 /\ At(d).i_block[k] = z
    BY <1>3, <1>7, <2>4
  <2>6. \A j \in 0 .. 14 : At(d).i_block[j] = z => j = k
    BY <1>5, <2>5, RootsAlone
  <2>7. QED
    BY <1>3, <1>6, <2>1, <2>3, <2>4, <2>6
<1>8. QED
  BY <1>2, <1>3, <1>7 DEF Orderly

\* What is known of an entry e of such a directory, at offset o in block b.
Fits(b, o, e) ==
    /\ e = EntryAt(b, o) /\ e \in ext2_dir_entry /\ e.file_type # 0
    /\ o \in Nat /\ o < 1024 /\ e.rec_len \in Nat /\ e.rec_len >= 8
    /\ o + e.rec_len \in DOMAIN image.entries[b] \cup {1024} /\ o + e.rec_len <= 1024
    /\ \A q \in DOMAIN image.entries[b] : q <= o \/ q >= o + e.rec_len

LEMMA EntryIs ==
    ASSUME NEW d, Orderly(d), NEW k \in 0 .. 11, NEW b, b = At(d).i_block[k], b # 0, NEW o \in DOMAIN image.entries[b]
    PROVE  \E e \in ext2_dir_entry : Fits(b, o, e)
<1>1. b \in DOMAIN image.entries /\ Chained(image.entries[b]) /\ image \in Images
  BY DEF Orderly
<1>2. EntryAt(b, o) = image.entries[b][o] /\ EntryAt(b, o) \in ext2_dir_entry
  BY <1>1, EntriesType DEF EntryAt
<1>3. \A q \in DOMAIN image.entries[b] : q \in Nat /\ q < 1024
  <2>1. ASSUME NEW q \in DOMAIN image.entries[b] PROVE q \in Nat /\ q < 1024
    <3>1. q \in 0 .. block_size - 1
      BY <1>1, ImageFacts
    <3>2. QED
      BY <3>1 DEF block_size
  <2>2. QED
    BY <2>1, Zenon
<1>4. PICK e \in ext2_dir_entry : e = EntryAt(b, o)
  BY <1>2
<1>5. e.rec_len \in Nat
  BY SMTT(30) DEF ext2_dir_entry
<1>6. /\ e.file_type # 0 /\ e.rec_len >= 8
      /\ o + e.rec_len \in DOMAIN image.entries[b] \cup {1024}
      /\ \A q \in DOMAIN image.entries[b] : q <= o \/ q >= o + e.rec_len
  BY <1>1, <1>2, <1>4 DEF Chained, block_size
<1>7. o + e.rec_len <= 1024
  BY <1>3, <1>6
<1>8. QED
  BY <1>3, <1>4, <1>5, <1>6, <1>7 DEF Fits

\* A member is at one place of its directory.
LiesAt(m, d, k, o) ==
    /\ MemberAt(d, k, o, m) /\ m = <<d, At(d).i_block[k], o>> /\ o < 1024
    /\ \A i \in Nat : \A a : m \in Gone(d, i, a) <=> k < i \/ (k = i /\ o < a)

LEMMA MemberPlaced ==
    ASSUME NEW d, Orderly(d), NEW m \in Members(d)
    PROVE  \E k \in 0 .. 11 : \E o \in Nat : LiesAt(m, d, k, o)
<1>1. PICK k \in 0 .. 11 : \E o : MemberAt(d, k, o, m)
  BY MembersAre
<1>2. PICK o : MemberAt(d, k, o, m)
  BY <1>1
<1>3. PICK b : b = At(d).i_block[k] /\ b # 0 /\ o \in DOMAIN image.entries[b] /\ m = <<d, b, o>>
  BY <1>2 DEF MemberAt
<1>4. o \in Nat /\ o < 1024
  BY <1>3, EntryIs DEF Fits
<1>5. m[1] = d /\ m[2] = b /\ m[3] = o
  BY <1>3
<1>6. \A j \in 0 .. 11 : b = At(d).i_block[j] <=> j = k
  BY <1>3 DEF Orderly
<1>7. ASSUME NEW i \in Nat, NEW a PROVE m \in Gone(d, i, a) <=> k < i \/ (k = i /\ o < a)
  <2>1. m \in Gone(d, i, a) <=> \E j \in 0 .. 11 : b = At(d).i_block[j] /\ (j < i \/ (j = i /\ o < a))
    <3>1. m \in Gone(d, i, a) <=> LiesBefore(m, d, i, a)
      BY DEF Gone
    <3>2. LiesBefore(m, d, i, a) <=>
              \E j \in 0 .. 11 : m[2] = At(d).i_block[j] /\ (j < i \/ (j = i /\ m[3] < a))
      BY DEF LiesBefore
    <3>3. QED
      BY <1>5, <3>1, <3>2
  <2>2. QED
    BY <1>6, <2>1
<1>8. QED
  BY <1>2, <1>3, <1>4, <1>5, <1>7 DEF LiesAt

LEMMA NonePassed == ASSUME NEW d, Orderly(d) PROVE Gone(d, 0, 0) = {}
<1>1. SUFFICES ASSUME NEW m \in Gone(d, 0, 0) PROVE FALSE
  OBVIOUS
<1>2. m \in Members(d)
  BY DEF Gone
<1>3. PICK k \in 0 .. 11 : \E o \in Nat : LiesAt(m, d, k, o)
  BY <1>2, MemberPlaced
<1>4. PICK o \in Nat : LiesAt(m, d, k, o)
  BY <1>3
<1>5. k < 0 \/ (k = 0 /\ o < 0)
  BY <1>4 DEF LiesAt
<1>6. QED
  BY <1>5

LEMMA BlockPassed ==
    ASSUME NEW d, Orderly(d), NEW k \in Nat
    PROVE  Gone(d, k + 1, 0) = Gone(d, k, 1024)
<1>1. ASSUME NEW m \in Members(d) PROVE m \in Gone(d, k + 1, 0) <=> m \in Gone(d, k, 1024)
  <2>1. PICK j \in 0 .. 11 : \E o \in Nat : LiesAt(m, d, j, o)
    BY MemberPlaced
  <2>2. PICK o \in Nat : LiesAt(m, d, j, o)
    BY <2>1
  <2>3. k + 1 \in Nat
    OBVIOUS
  <2>4. o < 1024 /\ (m \in Gone(d, k + 1, 0) <=> j < k + 1 \/ (j = k + 1 /\ o < 0))
    BY <2>2, <2>3 DEF LiesAt
  <2>5. m \in Gone(d, k, 1024) <=> j < k \/ (j = k /\ o < 1024)
    BY <2>2 DEF LiesAt
  <2>6. QED
    BY <2>4, <2>5
<1>2. \A i, a : \A m \in Gone(d, i, a) : m \in Members(d)
  BY DEF Gone
<1>3. QED
  BY <1>1, <1>2

\* After the last block nothing is left.
LEMMA AllPassed ==
    ASSUME NEW d, Orderly(d), NEW k \in Nat, k < 15 => At(d).i_block[k] = 0, NEW a
    PROVE  Gone(d, k, a) = Members(d)
<1>1. ASSUME NEW m \in Members(d) PROVE m \in Gone(d, k, a)
  <2>1. PICK j \in 0 .. 11 : \E o \in Nat : LiesAt(m, d, j, o)
    BY MemberPlaced
  <2>2. PICK o \in Nat : LiesAt(m, d, j, o)
    BY <2>1
  <2>3. At(d).i_block[j] # 0
    BY <2>2 DEF LiesAt, MemberAt
  <2>4. \A i \in 0 .. j : At(d).i_block[i] # 0
    BY <2>3 DEF Orderly
  <2>5. j < k
    <3>1. SUFFICES ASSUME k <= j PROVE FALSE
      OBVIOUS
    <3>2. k < 15 /\ k \in 0 .. j
      BY <3>1
    <3>3. QED
      BY <2>4, <3>2
  <2>6. QED
    BY <2>2, <2>5 DEF LiesAt
<1>2. \A m \in Gone(d, k, a) : m \in Members(d)
  BY DEF Gone
<1>3. QED
  BY <1>1, <1>2

\* An entry is passed, which is a member unless it is not in use.
OnePassed(d, k, b, o, e) ==
    /\ <<d, b, o>> \notin Gone(d, k, o)
    /\ Gone(d, k, o + e.rec_len) = Gone(d, k, o) \cup IF e.inode = 0 THEN {} ELSE {<<d, b, o>>}
    /\ e.inode # 0 => <<d, b, o>> \in Members(d)

LEMMA EntryPassed ==
    ASSUME NEW d, Orderly(d), NEW k \in 0 .. 11, NEW b, b = At(d).i_block[k], b # 0,
           NEW o \in DOMAIN image.entries[b]
    PROVE  OnePassed(d, k, b, o, EntryAt(b, o))
<1>1. PICK e \in ext2_dir_entry : Fits(b, o, e)
  BY EntryIs
<1>2. /\ e = EntryAt(b, o) /\ o \in Nat /\ o < 1024 /\ e.rec_len \in Nat /\ e.rec_len >= 8
      /\ \A q \in DOMAIN image.entries[b] : q <= o \/ q >= o + e.rec_len
  BY <1>1 DEF Fits
<1>3. PICK z : z = <<d, b, o>>
  OBVIOUS
<1>4. ASSUME NEW m \in Members(d)
      PROVE  /\ m \in Gone(d, k, o) => m # z
             /\ m \in Gone(d, k, o + e.rec_len) <=> m \in Gone(d, k, o) \/ m = z
  <2>1. PICK j \in 0 .. 11 : \E p \in Nat : LiesAt(m, d, j, p)
    BY MemberPlaced
  <2>2. PICK p \in Nat : LiesAt(m, d, j, p)
    BY <2>1
  <2>3. PICK c : c = At(d).i_block[j] /\ m = <<d, c, p>> /\ c # 0 /\ p \in DOMAIN image.entries[c]
    BY <2>2 DEF LiesAt, MemberAt
  <2>4. k \in Nat /\ (m \in Gone(d, k, o) <=> j < k \/ (j = k /\ p < o))
    BY <2>2 DEF LiesAt
  <2>5. m \in Gone(d, k, o + e.rec_len) <=> j < k \/ (j = k /\ p < o + e.rec_len)
    BY <2>2, <2>4 DEF LiesAt
  <2>6. m = z <=> j = k /\ p = o
    <3>1. c = b <=> j = k
      BY <2>3 DEF Orderly
    <3>2. QED
      BY <1>3, <2>3, <3>1
  <2>7. j = k => p <= o \/ p >= o + e.rec_len
    BY <1>2, <2>3
  <2>8. QED
    BY <1>2, <2>4, <2>5, <2>6, <2>7
<1>5. z \in Members(d) <=> e.inode # 0
  <2>1. z \in Members(d) <=> \E j \in 0 .. 11 : \E p : MemberAt(d, j, p, z)
    BY MembersAre
  <2>2. MemberAt(d, k, o, z) <=> e.inode # 0
    BY <1>2, <1>3 DEF MemberAt, Orderly
  <2>3. ASSUME NEW j \in 0 .. 11, NEW p, MemberAt(d, j, p, z) PROVE e.inode # 0
    <3>1. PICK c : c = At(d).i_block[j] /\ z = <<d, c, p>> /\ EntryAt(c, p).inode # 0
      BY <2>3 DEF MemberAt
    <3>2. c = b /\ p = o
      BY <1>3, <3>1
    <3>3. QED
      BY <1>2, <3>1, <3>2
  <2>4. QED
    BY <2>1, <2>2, <2>3
<1>6. \A i, a : \A m \in Gone(d, i, a) : m \in Members(d)
  BY DEF Gone
<1>7. z \notin Gone(d, k, o)
  BY <1>4, <1>6
<1>8. Gone(d, k, o + e.rec_len) = Gone(d, k, o) \cup IF e.inode = 0 THEN {} ELSE {z}
  BY <1>4, <1>5, <1>6
<1>9. QED
  BY <1>2, <1>3, <1>5, <1>7, <1>8 DEF OnePassed

LEMMA MemberBelow ==
    ASSUME image \in Images, NEW i, NEW m
    PROVE  /\ m \in MembersBelow(i) <=> \E d \in Directories : m \in Members(d) /\ d < i
           /\ \A d : m \in Members(d) => m[1] = d
           /\ \A d \in Directories : d \in Nat
<1>1. ASSUME NEW d, m \in Members(d) PROVE m[1] = d
  <2>1. PICK j \in 0 .. 11 : \E o : MemberAt(d, j, o, m)
    BY <1>1, MembersAre
  <2>2. PICK o : MemberAt(d, j, o, m)
    BY <2>1
  <2>3. m = <<d, At(d).i_block[j], o>>
    BY <2>2 DEF MemberAt
  <2>4. QED
    BY <2>3
<1>2. \A d \in Directories : d \in Nat
  <2>1. Numbers = 1 .. sb.s_inodes_count /\ sb.s_inodes_count \in Nat
    BY ImageFacts DEF ext2_super_block
  <2>2. QED
    BY <2>1 DEF Directories
<1>3. m \in MembersBelow(i) <=> m \in AllMembers /\ m[1] < i
  BY DEF MembersBelow
<1>4. m \in AllMembers <=> \E d \in Directories : m \in Members(d)
  BY Zenon DEF AllMembers
<1>5. QED
  BY <1>1, <1>2, <1>3, <1>4

\* The members of the directories below the next inode.
LEMMA DirectoryPassed ==
    ASSUME image \in Images, NEW n \in Nat
    PROVE  /\ n \in Directories => MembersBelow(n + 1) = MembersBelow(n) \cup Members(n)
           /\ n \notin Directories => MembersBelow(n + 1) = MembersBelow(n)
           /\ \A m \in Members(n) : m \notin MembersBelow(n)
<1>1. \A d \in Directories : d < n + 1 <=> d < n \/ d = n
  BY MemberBelow
<1>2. \A m : m \in MembersBelow(n + 1) <=> m \in MembersBelow(n) \/ (n \in Directories /\ m \in Members(n))
  BY <1>1, MemberBelow
<1>3. ASSUME NEW m \in Members(n), m \in MembersBelow(n) PROVE FALSE
  <2>1. PICK d \in Directories : m \in Members(d) /\ d < n
    BY <1>3, MemberBelow
  <2>2. m[1] = d /\ m[1] = n
    BY <2>1, MemberBelow
  <2>3. QED
    BY <2>1, <2>2
<1>4. QED
  BY <1>2, <1>3

\* Between m and n there is no directory.
LEMMA NoneSkipped ==
    ASSUME image \in Images, NEW m \in Nat, NEW n \in Nat, m <= n, \A i \in m .. n - 1 : i \notin Directories
    PROVE  MembersBelow(n) = MembersBelow(m)
<1>1. \A d \in Directories : d \in Nat
  BY MemberBelow
<1>2. \A d \in Directories : d < n <=> d < m
  BY <1>1
<1>3. \A x, i : x \in MembersBelow(i) <=> \E d \in Directories : x \in Members(d) /\ d < i
  BY MemberBelow
<1>4. ASSUME NEW x PROVE x \in MembersBelow(n) <=> x \in MembersBelow(m)
  BY <1>2, <1>3
<1>5. MembersBelow(n) \subseteq MembersBelow(m) /\ MembersBelow(m) \subseteq MembersBelow(n)
  BY <1>4
<1>6. QED
  BY <1>5

-----------------------------------------------------------------------------
(* Lines that describe each member of a set once.                          *)

Describes(l, m) ==
    /\ l.parent_inode = m[1]
    /\ l.entry_reference_inode = EntryAt(m[2], m[3]).inode
    /\ l.entry_name = EntryAt(m[2], m[3]).name

Describing(s, P, w) ==
    /\ w \in [DOMAIN s -> P]
    /\ \A i, j \in DOMAIN s : w[i] = w[j] => i = j
    /\ \A m \in P : \E i \in DOMAIN s : w[i] = m
    /\ \A i \in DOMAIN s : Describes(s[i], w[i])

Listed(s, P) == \E w : Describing(s, P, w)

LEMMA ListedNone == Listed(<<>>, {})
<1>1. PICK S : S = {0}
  OBVIOUS
<1>2. PICK s \in Seq(S) : s = <<>> /\ Len(s) = 0
  BY EmptySeq
<1>3. DOMAIN s = {}
  BY <1>2
<1>4. Describing(s, {}, [i \in {} |-> 0])
  BY <1>3 DEF Describing
<1>5. Listed(s, {})
  BY <1>4 DEF Listed
<1>6. QED
  BY <1>2, <1>5

LEMMA ListedMore ==
    ASSUME NEW S, NEW s \in Seq(S), NEW l \in S, NEW P, NEW m, m \notin P, Listed(s, P), Describes(l, m)
    PROVE  Listed(Append(s, l), P \cup {m})
<1>1. PICK w : Describing(s, P, w)
  BY DEF Listed
<1>2. PICK D \in Nat : D = Len(s) /\ DOMAIN s = 1 .. D
  <2>1. Len(s) \in Nat
    OBVIOUS
  <2>2. DOMAIN s = 1 .. Len(s)
    OBVIOUS
  <2>3. QED
    BY <2>1, <2>2, Zenon
<1>3. PICK t \in Seq(S) : t = Append(s, l)
  <2>1. Append(s, l) \in Seq(S)
    BY AppendProperties
  <2>2. QED
    BY <2>1
<1>4. DOMAIN t = 1 .. D + 1 /\ t[D + 1] = l /\ \A i \in 1 .. D : t[i] = s[i]
  BY <1>2, <1>3, AppendProperties
<1>5. /\ w \in [1 .. D -> P]
      /\ \A i, j \in 1 .. D : w[i] = w[j] => i = j
      /\ \A p \in P : \E i \in 1 .. D : w[i] = p
      /\ \A i \in 1 .. D : Describes(s[i], w[i])
  BY <1>1, <1>2 DEF Describing
<1> DEFINE v == [i \in 1 .. D + 1 |-> IF i = D + 1 THEN m ELSE w[i]]
<1>6. \A i \in 1 .. D + 1 : i \in 1 .. D \/ i = D + 1
  OBVIOUS
<1>7. D + 1 \in 1 .. D + 1 /\ \A i \in 1 .. D : i \in 1 .. D + 1 /\ i # D + 1
  OBVIOUS
<1>8. v[D + 1] = m /\ \A i \in 1 .. D : v[i] = w[i] /\ w[i] \in P
  BY <1>5, <1>7
<1>9. v \in [1 .. D + 1 -> P \cup {m}]
  BY <1>5, <1>6
<1> HIDE DEF v
<1>10. \A i, j \in 1 .. D + 1 : v[i] = v[j] => i = j
  BY <1>5, <1>6, <1>8
<1>11. \A p \in P \cup {m} : \E i \in 1 .. D + 1 : v[i] = p
  BY <1>5, <1>7, <1>8
<1>12. \A i \in 1 .. D + 1 : Describes(t[i], v[i])
  BY <1>4, <1>5, <1>6, <1>8
<1>13. Describing(t, P \cup {m}, v)
  BY <1>4, <1>9, <1>10, <1>11, <1>12 DEF Describing
<1>14. QED
  BY <1>3, <1>13 DEF Listed

-----------------------------------------------------------------------------
(* What is sound stays so.                                                 *)

LEMMA MentionsStay ==
    ASSUME UNCHANGED Fixed
    PROVE  (\A n : PointersOf(n)' = PointersOf(n)) /\ Mentions' = Mentions
<1>1. image' = image /\ program' = program
  BY DEF Fixed
<1>2. Numbers' = Numbers /\ (\A n : At(n)' = At(n)) /\ \A b : Pointers(b)' = Pointers(b)
  BY <1>1 DEF Numbers, At, Pointers
<1>3. \A b, level, o, first : Below(b, level, o, first)' = Below(b, level, o, first)
  BY <1>1, <1>2 DEF Below
<1>4. \A found : Deeper(found)' = Deeper(found)
  BY <1>3 DEF Deeper
<1>5. ASSUME NEW root, NEW level, NEW o
      PROVE  PointersUnder(root, level, o)' = PointersUnder(root, level, o)
  <2>1. PICK one : one = IF root = 0 THEN {} ELSE Below(root, level, o, TRUE)
    OBVIOUS
  <2>2. one = IF root = 0 THEN {} ELSE Below(root, level, o, TRUE)'
    BY <1>3, <2>1
  <2>3. PICK two : two = Deeper(one)
    OBVIOUS
  <2>4. two = Deeper(one)' /\ Deeper(two)' = Deeper(two)
    BY <1>4, <2>3
  <2>5. PointersUnder(root, level, o) = one \cup two \cup Deeper(two)
    BY <2>1, <2>3 DEF PointersUnder
  <2>6. PointersUnder(root, level, o)' = one \cup two \cup Deeper(two)'
    BY <2>2, <2>4 DEF PointersUnder
  <2>7. QED
    BY <2>4, <2>5, <2>6
<1>6. ASSUME NEW n PROVE PointersOf(n)' = PointersOf(n)
  <2>1. PICK r, s, t : r = At(n).i_block[12] /\ s = At(n).i_block[13] /\ t = At(n).i_block[14]
    OBVIOUS
  <2>2. At(n)'.i_block[12] = r /\ At(n)'.i_block[13] = s /\ At(n)'.i_block[14] = t
    BY <1>2, <2>1
  <2>3. /\ PointersUnder(r, 1, 12)' = PointersUnder(r, 1, 12)
        /\ PointersUnder(s, 2, 268)' = PointersUnder(s, 2, 268)
        /\ PointersUnder(t, 3, 65804)' = PointersUnder(t, 3, 65804)
    BY <1>5
  <2>4. QED
    BY <2>1, <2>2, <2>3 DEF PointersOf
<1>7. \A n : (Text(n)' <=> Text(n)) /\ (Walked(n)' <=> Walked(n))
  BY <1>2 DEF Text, Walked
<1>8. Mentions' = Mentions
  BY <1>2, <1>6, <1>7 DEF Mentions
<1>9. QED
  BY <1>6, <1>8

LEMMA BlocksStay ==
    ASSUME UNCHANGED Fixed
    PROVE  (BlocksIntact' <=> BlocksIntact) /\ DataBlocks' = DataBlocks
<1>1. image' = image /\ Mentions' = Mentions
  BY MentionsStay DEF Fixed
<1>2. DataBlocks' = DataBlocks
  BY <1>1 DEF DataBlocks, sb
<1>3. QED
  BY <1>1, <1>2 DEF BlocksIntact

LEMMA InodesStay ==
    ASSUME UNCHANGED Fixed
    PROVE  InodesIntact' <=> InodesIntact
<1>1. image' = image /\ \A n : PointersOf(n)' = PointersOf(n)
  BY MentionsStay DEF Fixed
<1>2. Numbers' = Numbers /\ sb' = sb /\ \A n : At(n)' = At(n)
  BY <1>1 DEF Numbers, sb, At
<1>3. LinksIntact' <=> LinksIntact
  BY <1>2 DEF LinksIntact
<1>4. \A n : (Walked(n)' <=> Walked(n)) /\ (Text(n)' <=> Text(n))
  BY <1>2 DEF Walked, Text
<1>5. QED
  BY <1>1, <1>2, <1>3, <1>4 DEF InodesIntact

LEMMA DirectoriesStay ==
    ASSUME UNCHANGED Fixed
    PROVE  /\ Directories' = Directories
           /\ \A n : At(n)' = At(n)
           /\ \A b, o : EntryAt(b, o)' = EntryAt(b, o)
           /\ \A d : BlocksOfDirectory(d)' = BlocksOfDirectory(d)
           /\ \A d : Members(d)' = Members(d)
           /\ DirectoriesIntact' <=> DirectoriesIntact
<1>1. image' = image
  BY DEF Fixed
<1>2. Numbers' = Numbers /\ \A n : At(n)' = At(n)
  BY <1>1 DEF Numbers, At
<1>3. Directories' = Directories
  BY <1>2 DEF Directories
<1>4. \A b, o : EntryAt(b, o)' = EntryAt(b, o)
  BY <1>1 DEF EntryAt
<1>5. \A d : BlocksOfDirectory(d)' = BlocksOfDirectory(d)
  BY <1>2 DEF BlocksOfDirectory
<1>6. \A d : Members(d)' = Members(d)
  BY <1>1, <1>4, <1>5 DEF Members
<1>7. AllMembers' = AllMembers
  BY <1>3, <1>6 DEF AllMembers
<1>8. (\A m : Target(m)' = Target(m)) /\ \A name : Named(name)' = Named(name)
  BY <1>4, <1>7 DEF Target, Named
<1>9. \A d : DirectoryIntact(d)' <=> DirectoryIntact(d)
  BY <1>1, <1>2, <1>5, <1>8 DEF DirectoryIntact
<1>10. DirectoriesIntact' <=> DirectoriesIntact
  BY <1>2, <1>3, <1>7, <1>8, <1>9 DEF DirectoriesIntact
<1>11. QED
  BY <1>2, <1>3, <1>4, <1>5, <1>6, <1>10

LEMMA SoundStays == ASSUME UNCHANGED Fixed PROVE Sound' <=> Sound
<1>1. image' = image /\ program' = program /\ Mentions' = Mentions /\ \A n : PointersOf(n)' = PointersOf(n)
  BY MentionsStay DEF Fixed
<1>2. Numbers' = Numbers /\ sb' = sb
  BY <1>1 DEF Numbers, sb
<1>3. /\ BlocksIntact' <=> BlocksIntact
      /\ DataBlocks' = DataBlocks
      /\ InodesIntact' <=> InodesIntact
      /\ DirectoriesIntact' <=> DirectoriesIntact
      /\ Directories' = Directories
      /\ \A n : At(n)' = At(n)
  BY BlocksStay, InodesStay, DirectoriesStay
<1>4. BootBlockEmpty' <=> BootBlockEmpty
  BY <1>1 DEF BootBlockEmpty, Pointers
<1>5. Intact' <=> Intact
  BY <1>1, <1>2, <1>3, <1>4 DEF Intact
<1>6. \A n : Text(n)' <=> Text(n)
  BY <1>3 DEF Text
<1>7. WithinStd' <=> WithinStd
  BY <1>1, <1>2, <1>3, <1>6 DEF WithinStd
<1>8. QED
  BY <1>1, <1>5, <1>7 DEF Sound

LEMMA MembersStay ==
    ASSUME UNCHANGED Fixed
    PROVE  /\ \A n : MembersBelow(n)' = MembersBelow(n)
           /\ \A d, k, o : Gone(d, k, o)' = Gone(d, k, o)
           /\ \A s, P : Listed(s, P)' <=> Listed(s, P)
<1>1. /\ Directories' = Directories
      /\ \A n : At(n)' = At(n)
      /\ \A b, o : EntryAt(b, o)' = EntryAt(b, o)
      /\ \A d : Members(d)' = Members(d)
  BY DirectoriesStay
<1>2. AllMembers' = AllMembers
  BY <1>1 DEF AllMembers
<1>3. \A n : MembersBelow(n)' = MembersBelow(n)
  BY <1>2 DEF MembersBelow
<1>4. \A m, d, k, o : LiesBefore(m, d, k, o)' <=> LiesBefore(m, d, k, o)
  BY <1>1 DEF LiesBefore
<1>5. \A d, k, o : Gone(d, k, o)' = Gone(d, k, o)
  BY <1>1, <1>4 DEF Gone
<1>6. \A l, m : Describes(l, m)' <=> Describes(l, m)
  BY <1>1 DEF Describes
<1>7. \A s, P, w : Describing(s, P, w)' <=> Describing(s, P, w)
  BY <1>6 DEF Describing
<1>8. \A s, P : Listed(s, P)' <=> Listed(s, P)
  BY <1>7 DEF Listed
<1>9. QED
  BY <1>3, <1>5, <1>8

-----------------------------------------------------------------------------
(* The inductive invariant of the directories: which entries are printed.  *)

\* Where lab3a, and where the only call of lab3a_std, is in directory n.
AtEntry(n, k, o) ==
    /\ k \in Nat
    /\ k < 12 /\ At(n).i_block[k] # 0 => o \in DOMAIN image.entries[At(n).i_block[k]] \cup {1024}

InCall(n, c) ==
    /\ c.level = 0
    /\ \/ c.block = NoBlock /\ c.size = 0 /\ c.left # <<>> /\ Head(c.left) = At(n).i_block[0]
       \/ /\ c.block = At(n).i_block[0] /\ c.at = c.size
          /\ c.size \in DOMAIN image.entries[c.block] \cup {1024}
       \/ c.size = 1024

DirPlace ==
    /\ inode_no \in Directories
    /\ program = "lab3a" => AtEntry(inode_no, cur_block, cur_entry)
    /\ program = "lab3a_std" => \E c \in Calls : stack = <<c>> /\ InCall(inode_no, c)

PrintedHere ==
    IF program = "lab3a" THEN Gone(inode_no, cur_block, cur_entry) ELSE Gone(inode_no, 0, top.size)

PrintedMembers ==
    CASE scan = "directory" -> MembersBelow(inode_no) \cup PrintedHere
      [] scan = "indirect" -> MembersBelow(inode_no + 1)
      [] OTHER -> MembersBelow(inode_no)

DirInv ==
    Sound /\ Among =>
        /\ Listed(OfKind(csv, "DIRENT"), PrintedMembers)
        /\ scan = "directory" => DirPlace

LEMMA MembersNow ==
    ASSUME UNCHANGED Fixed, NEW n, inode_no' = n
    PROVE  /\ \A k, o : scan' = "directory" /\ program = "lab3a" /\ cur_block' = k /\ cur_entry' = o =>
                  PrintedMembers' = MembersBelow(n) \cup Gone(n, k, o)
           /\ \A o : scan' = "directory" /\ program = "lab3a_std" /\ top'.size = o =>
                  PrintedMembers' = MembersBelow(n) \cup Gone(n, 0, o)
           /\ scan' = "indirect" => PrintedMembers' = MembersBelow(n + 1)
           /\ scan' \in {"inodes", "done"} => PrintedMembers' = MembersBelow(n)
<1>1. program' = program
  BY DEF Fixed
<1>2. (\A i : MembersBelow(i)' = MembersBelow(i)) /\ \A d, k, o : Gone(d, k, o)' = Gone(d, k, o)
  BY MembersStay
<1>3. (inode_no + 1)' = n + 1
  OBVIOUS
<1>4. MembersBelow(inode_no)' = MembersBelow(n) /\ MembersBelow(inode_no + 1)' = MembersBelow(n + 1)
  BY <1>2, <1>3 DEF MembersBelow
<1>5. ASSUME NEW k, NEW o, scan' = "directory", program = "lab3a", cur_block' = k, cur_entry' = o
      PROVE  PrintedMembers' = MembersBelow(n) \cup Gone(n, k, o)
  <2>1. Gone(inode_no, cur_block, cur_entry)' = Gone(n, k, o)'
    BY <1>5 DEF Gone, LiesBefore, Members
  <2>2. PrintedHere' = Gone(n, k, o)
    BY <1>1, <1>2, <1>5, <2>1 DEF PrintedHere
  <2>3. QED
    BY <1>4, <1>5, <2>2 DEF PrintedMembers
<1>6. ASSUME NEW o, scan' = "directory", program = "lab3a_std", top'.size = o
      PROVE  PrintedMembers' = MembersBelow(n) \cup Gone(n, 0, o)
  <2>1. Gone(inode_no, 0, top.size)' = Gone(n, 0, o)'
    BY <1>6 DEF Gone, LiesBefore, Members
  <2>2. PrintedHere' = Gone(n, 0, o)
    BY <1>1, <1>2, <1>6, <2>1 DEF PrintedHere
  <2>3. QED
    BY <1>4, <1>6, <2>2 DEF PrintedMembers
<1>7. QED
  BY <1>4, <1>5, <1>6 DEF PrintedMembers

LEMMA DirNow ==
    ASSUME UNCHANGED Fixed, NEW s, NEW P, Listed(s, P), OfKind(csv', "DIRENT") = s, PrintedMembers' = P,
           scan' = "directory" => DirPlace'
    PROVE  DirInv'
<1>1. Listed(s, P)' <=> Listed(s, P)
  BY MembersStay
<1>2. OfKind(csv, "DIRENT")' = s
  BY DEF OfKind
<1>3. Listed(OfKind(csv, "DIRENT"), PrintedMembers)'
  BY <1>1, <1>2 DEF Listed, Describing
<1>4. QED
  BY <1>3 DEF DirInv

\* The place of the next state.
LEMMA PlaceNow ==
    ASSUME UNCHANGED Fixed, NEW n, inode_no' = n, n \in Directories
    PROVE  /\ \A k, o : program = "lab3a" /\ cur_block' = k /\ cur_entry' = o /\ AtEntry(n, k, o) => DirPlace'
           /\ \A c \in Calls : program = "lab3a_std" /\ stack' = <<c>> /\ InCall(n, c) => DirPlace'
<1>1. image' = image /\ program' = program /\ Directories' = Directories /\ \A i : At(i)' = At(i)
  BY DirectoriesStay DEF Fixed
<1>2. PICK a : a = At(n) /\ a = At(n)' /\ a = At(inode_no)'
  BY <1>1 DEF At
<1>3. ASSUME NEW k, NEW o, program = "lab3a", cur_block' = k, cur_entry' = o, AtEntry(n, k, o)
      PROVE  DirPlace'
  <2>1. AtEntry(inode_no, cur_block, cur_entry)'
    BY <1>1, <1>2, <1>3 DEF AtEntry
  <2>2. QED
    BY <1>1, <1>3, <2>1 DEF DirPlace
<1>4. ASSUME NEW c \in Calls, program = "lab3a_std", stack' = <<c>>, InCall(n, c)
      PROVE  DirPlace'
  <2>1. (\E x \in Calls : stack = <<x>> /\ InCall(inode_no, x))'
    BY <1>1, <1>2, <1>4 DEF InCall
  <2>2. QED
    BY <1>1, <1>4, <2>1 DEF DirPlace
<1>5. QED
  BY <1>3, <1>4

-----------------------------------------------------------------------------
(* Every step of the scan of a sound image keeps it.                       *)

\* What lab3a_std can read is a directory of one block.
LEMMA OneBlock ==
    ASSUME image \in Images, program = "lab3a_std", Sound, NEW d \in Directories
    PROVE  /\ At(d).i_size = 1024 /\ At(d).i_block[0] # 0
           /\ \A k \in 1 .. 14 : At(d).i_block[k] = 0
<1>1. Orderly(d)
  BY SoundIsOrderly DEF Programs
<1>2. At(d).i_size = 1024 /\ At(d).i_size = 1024 * Cardinality(BlocksOfDirectory(d))
  <2>1. At(d).i_size = block_size
    BY DEF Sound, WithinStd
  <2>2. DirectoryIntact(d)
    BY DEF Sound, Intact, DirectoriesIntact
  <2>3. At(d).i_size = block_size * Cardinality(BlocksOfDirectory(d))
    BY <2>2 DEF DirectoryIntact
  <2>4. QED
    BY <2>1, <2>3 DEF block_size
<1>3. PICK B : B = BlocksOfDirectory(d)
  OBVIOUS
<1>4. \A b : b \in B <=> b # 0 /\ \E k \in 0 .. 11 : b = At(d).i_block[k]
  BY <1>3 DEF BlocksOfDirectory, EXT2_NDIR_BLOCKS
<1>5. IsFiniteSet(B)
  <2>1. PICK f : f = [k \in 0 .. 11 |-> At(d).i_block[k]]
    OBVIOUS
  <2>2. PICK R : R = {f[k] : k \in 0 .. 11}
    OBVIOUS
  <2>3. f \in Surjection(0 .. 11, R)
    BY <2>1, <2>2 DEF Surjection
  <2>4. IsFiniteSet(0 .. 11)
    <3>1. 0 \in Int /\ 11 \in Int
      OBVIOUS
    <3>2. QED
      BY <3>1, FS_Interval, Zenon
  <2>5. IsFiniteSet(R)
    BY <2>3, <2>4, FS_Surjection
  <2>6. B \subseteq R
    BY <1>4, <2>1, <2>2
  <2>7. QED
    BY <2>5, <2>6, FS_Subset
<1>6. Cardinality(B) = 1
  <2>1. Cardinality(B) \in Nat
    BY <1>5, FS_CardinalityType
  <2>2. QED
    BY <1>2, <1>3, <2>1
<1>7. PICK b : B = {b}
  BY <1>5, <1>6, FS_Singleton
<1>8. PICK k \in 0 .. 11 : b # 0 /\ b = At(d).i_block[k]
  BY <1>4, <1>7
<1>9. 0 \in 0 .. k /\ k \in 0 .. 14
  OBVIOUS
<1>10. \A j \in 0 .. k : At(d).i_block[j] # 0
  BY <1>1, <1>8, <1>9 DEF Orderly
<1>11. \A j \in 0 .. 14 : At(d).i_block[j] # 0 => At(d).i_block[j] = b
  <2>1. ASSUME NEW j \in 0 .. 14, At(d).i_block[j] # 0 PROVE At(d).i_block[j] = b
    <3>1. j < 12
      BY <1>1, <2>1 DEF Orderly
    <3>2. j \in 0 .. 11
      BY <3>1
    <3>3. PICK c : c = At(d).i_block[j] /\ c # 0
      BY <2>1
    <3>4. c \in B
      BY <1>4, <3>2, <3>3
    <3>5. QED
      BY <1>7, <3>3, <3>4
  <2>2. QED
    BY <2>1
<1>12. \A j \in 0 .. 14 : At(d).i_block[j] = b => j = k
  BY <1>1, <1>8, <1>9 DEF Orderly
<1>13. At(d).i_block[0] # 0
  BY <1>9, <1>10
<1>14. k = 0
  BY <1>11, <1>12, <1>13
<1>15. \A j \in 1 .. 14 : j \in 0 .. 14 /\ j # 0
  OBVIOUS
<1>16. \A j \in 1 .. 14 : At(d).i_block[j] = 0
  BY <1>11, <1>12, <1>14, <1>15
<1>17. QED
  BY <1>2, <1>13, <1>16

LEMMA OneBlockPassed ==
    ASSUME image \in Images, program = "lab3a_std", Sound, NEW d \in Directories
    PROVE  Gone(d, 0, 1024) = Members(d)
<1>1. Orderly(d)
  BY SoundIsOrderly DEF Programs
<1>2. PICK z \in Nat : z = 0
  OBVIOUS
<1>3. PICK k \in Nat : k = 1 /\ z + 1 = k
  BY <1>2
<1>4. k \in 1 .. 14 /\ At(d).i_block[k] = 0
  <2>1. k \in 1 .. 14
    BY <1>3
  <2>2. QED
    BY <2>1, OneBlock
<1>5. Gone(d, z + 1, 0) = Gone(d, z, 1024)
  BY <1>1, BlockPassed
<1>6. k < 15 => At(d).i_block[k] = 0
  BY <1>4
<1>7. Gone(d, k, 0) = Members(d)
  BY <1>1, <1>6, AllPassed
<1>8. QED
  BY <1>2, <1>3, <1>5, <1>7

LEMMA DirectoryIsScanned ==
    ASSUME image \in Images, program \in Programs, Sound, NEW d \in Directories
    PROVE  Scanned(d) /\ Walked(d) /\ d \in Numbers
<1>1. d \in Numbers /\ InUse(At(d)) /\ At(d).i_mode = "dir"
  BY DEF Directories
<1>2. CASE program = "lab3a"
  BY <1>1, <1>2 DEF Scanned, Walked
<1>3. CASE program = "lab3a_std"
  <2>1. Scanned(d)
    BY <1>1, <1>3, SoundIsScanned
  <2>2. QED
    BY <1>1, <2>1 DEF Walked
<1>4. QED
  BY <1>2, <1>3 DEF Programs

LEMMA SoundProceeds ==
    ASSUME ScanInv, Sound
    PROVE  /\ image \in Images /\ program \in Programs /\ Proceeds
           /\ sb.s_first_ino \in Nat /\ sb.s_first_ino > 2
<1>1. image \in Images /\ program \in Programs
  BY DEF ScanInv, ScanTypes
<1>2. sb.s_first_ino \in Nat /\ sb.s_first_ino > 2
  <2>1. sb.s_first_ino \in Nat
    BY <1>1, ImageFacts DEF ext2_super_block
  <2>2. QED
    BY <2>1 DEF Sound, Intact, InodesIntact
<1>3. QED
  BY <1>1, <1>2 DEF Proceeds

LEMMA NoEntryInHeads == ASSUME image \in Images PROVE OfKind(Heads, "DIRENT") = <<>>
<1>1. PICK x \in Seq(ScanLines) : x = <<SuperLine>> /\ AllOf(x, "SUPERBLOCK")
  <2>1. PICK h \in ScanLines : h = SuperLine /\ h.line = "SUPERBLOCK"
    BY HeadsAre DEF ScanLines
  <2>2. <<h>> \in Seq(ScanLines) /\ AllOf(<<h>>, "SUPERBLOCK")
    BY <2>1 DEF ToSet, AllOf
  <2>3. QED
    BY <2>1, <2>2
<1>2. PICK y \in Seq(ScanLines) : y = <<GroupLine>> /\ AllOf(y, "GROUP")
  <2>1. PICK g \in ScanLines : g = GroupLine /\ g.line = "GROUP"
    BY HeadsAre DEF ScanLines
  <2>2. <<g>> \in Seq(ScanLines) /\ AllOf(<<g>>, "GROUP")
    BY <2>1 DEF ToSet, AllOf
  <2>3. QED
    BY <2>1, <2>2
<1>3. NumberLines \subseteq ScanLines
  BY DEF ScanLines
<1>4. PICK b \in Seq(ScanLines) : b = BFreeLines /\ AllOf(b, "BFREE")
  BY <1>3, FreeLinesAre, Retype DEF AllOf
<1>5. PICK f \in Seq(ScanLines) : f = IFreeLines /\ AllOf(f, "IFREE")
  BY <1>3, FreeLinesAre, Retype DEF AllOf
<1>6. OfKind(x, "DIRENT") = <<>>
  BY <1>1, OfKindNone DEF AllOf
<1>7. PICK c1 \in Seq(ScanLines) : c1 = After(x, y) /\ MoreOf(x, y, "GROUP")
  BY <1>2, PrintedMore
<1>8. PICK c2 \in Seq(ScanLines) : c2 = After(c1, b) /\ MoreOf(c1, b, "BFREE")
  BY <1>4, PrintedMore
<1>9. PICK c3 \in Seq(ScanLines) : c3 = After(c2, f) /\ MoreOf(c2, f, "IFREE")
  BY <1>5, PrintedMore
<1>10. /\ OfKind(c1, "DIRENT") = OfKind(x, "DIRENT") /\ OfKind(c2, "DIRENT") = OfKind(c1, "DIRENT")
       /\ OfKind(c3, "DIRENT") = OfKind(c2, "DIRENT")
  BY <1>7, <1>8, <1>9 DEF MoreOf
<1>11. Heads = c3
  BY <1>1, <1>2, <1>4, <1>5, <1>7, <1>8, <1>9 DEF Heads
<1>12. QED
  BY <1>6, <1>10, <1>11

LEMMA BitmapsListed ==
    ASSUME ScanInv, Sound, UNCHANGED Fixed, scan = "bitmaps", scan' = "inodes",
           csv' = csv \o BFreeLines \o IFreeLines,
           \/ program = "lab3a" /\ inode_no' = inode_no
           \/ program = "lab3a_std" /\ inode_no' = 2
    PROVE  DirInv'
<1>1. image \in Images /\ program \in Programs /\ inode_no = 1
  BY DEF ScanInv, ScanTypes, Opening
<1>2. csv = <<SuperLine, GroupLine>>
  BY DEF ScanInv, Opened, Opening
<1>3. csv' = Heads
  <2>1. <<SuperLine>> \o <<GroupLine>> = <<SuperLine, GroupLine>>
    BY Two
  <2>2. QED
    BY <1>2, <2>1 DEF Heads, After
<1>4. PICK n \in {1, 2} : n = inode_no' /\ (n = 2 => program = "lab3a_std")
  BY <1>1
<1>5. MembersBelow(n) = {}
  <2>1. SUFFICES ASSUME NEW m \in MembersBelow(n) PROVE FALSE
    OBVIOUS
  <2>2. PICK d \in Directories : d < n
    BY <1>1, <2>1, MemberBelow
  <2>3. Scanned(d) /\ d \in Nat /\ d >= 1
    BY <1>1, <2>2, DirectoryIsScanned, NumberIs
  <2>4. d = 1 /\ program = "lab3a_std"
    BY <1>4, <2>2, <2>3
  <2>5. QED
    BY <2>3, <2>4 DEF Scanned
<1>6. PrintedMembers' = MembersBelow(n)
  BY <1>4, MembersNow
<1>7. PICK s : s = OfKind(csv', "DIRENT") /\ s = <<>>
  BY <1>1, <1>3, NoEntryInHeads
<1>8. PICK P : P = MembersBelow(n) /\ P = {}
  BY <1>5
<1>9. Listed(s, P) /\ s = OfKind(csv', "DIRENT") /\ PrintedMembers' = P /\ scan' # "directory"
  BY <1>6, <1>7, <1>8, ListedNone
<1>10. QED
  BY <1>9, DirNow

\* Nothing is printed of an inode that is passed over.
LEMMA SkipListed ==
    ASSUME ScanInv, DirInv, Sound, UNCHANGED Fixed, scan = "inodes", scan' = "inodes",
           inode_no' = inode_no + 1, UNCHANGED csv, ~Scanned(inode_no)
    PROVE  DirInv'
<1>1. Among
  BY DEF Among
<1>2. PICK n \in Nat : n = inode_no
  BY <1>1, AtInode
<1>3. image \in Images /\ program \in Programs
  BY SoundProceeds
<1>4. n \notin Directories
  BY <1>2, <1>3, DirectoryIsScanned
<1>5. MembersBelow(n + 1) = MembersBelow(n)
  BY <1>3, <1>4, DirectoryPassed
<1>6. Listed(OfKind(csv, "DIRENT"), MembersBelow(n))
  BY <1>1, <1>2 DEF DirInv, PrintedMembers
<1>7. PICK k \in Nat : k = n + 1 /\ inode_no' = k
  BY <1>2
<1>8. PrintedMembers' = MembersBelow(k)
  BY <1>7, MembersNow
<1>9. PICK s : s = OfKind(csv, "DIRENT") /\ s = OfKind(csv', "DIRENT")
  OBVIOUS
<1>10. PICK P : P = MembersBelow(k) /\ P = MembersBelow(n)
  BY <1>5, <1>7
<1>11. Listed(s, P) /\ s = OfKind(csv', "DIRENT") /\ PrintedMembers' = P /\ scan' # "directory"
  BY <1>6, <1>8, <1>9, <1>10
<1>12. QED
  BY <1>11, DirNow

\* What is printed next is no entry.
LEMMA OthersPrinted ==
    ASSUME NEW s \in Seq(ScanLines), NEW t \in Seq(ScanLines), NEW kind, kind # "DIRENT", AllOf(t, kind)
    PROVE  OfKind(After(s, t), "DIRENT") = OfKind(s, "DIRENT")
BY PrintedMore DEF MoreOf

LEMMA NoEntryInLine ==
    ASSUME image \in Images, NEW n \in Numbers, NEW s \in Seq(ScanLines)
    PROVE  OfKind(Append(s, LineOf(n)), "DIRENT") = OfKind(s, "DIRENT")
<1>1. PICK l \in ScanLines : l = LineOf(n) /\ l.line = "INODE"
  BY LineOfIs DEF ScanLines
<1>2. After(s, <<l>>) = Append(s, l) /\ MoreOf(s, <<l>>, "INODE")
  BY <1>1, LinePrinted
<1>3. QED
  BY <1>1, <1>2 DEF MoreOf

\* The line of an inode is printed; in a directory the entries are next.
LEMMA InodeListed ==
    ASSUME ScanInv, DirInv, Sound, UNCHANGED Fixed, scan = "inodes", inode_no \in Numbers,
           csv' = Append(csv, LineOf(inode_no)),
           NEW s, OfKind(csv', "DIRENT") = s, NEW n \in Nat, n = inode_no,
           \/ scan' = "crashed"
           \/ /\ scan' = "directory" /\ inode_no' = n /\ n \in Directories /\ DirPlace'
              /\ PrintedMembers' = MembersBelow(n) \cup Gone(n, 0, 0)
           \/ scan' = "indirect" /\ inode_no' = n /\ n \notin Directories
           \/ scan' = "inodes" /\ inode_no' = n + 1 /\ n \notin Directories
    PROVE  DirInv'
<1>1. Among
  BY DEF Among
<1>2. image \in Images /\ program \in Programs
  BY SoundProceeds
<1>3. s = OfKind(csv, "DIRENT")
  BY <1>1, <1>2, NoEntryInLine, AtInode
<1>4. Listed(s, MembersBelow(n))
  BY <1>1, <1>3 DEF DirInv, PrintedMembers
<1>5. CASE scan' = "crashed"
  <2>1. ~Among'
    BY <1>5 DEF Among, Within
  <2>2. QED
    BY <2>1 DEF DirInv
<1>6. CASE scan' = "directory"
  <2>1. /\ inode_no' = n /\ n \in Directories /\ DirPlace'
        /\ PrintedMembers' = MembersBelow(n) \cup Gone(n, 0, 0)
    BY <1>6
  <2>2. Gone(n, 0, 0) = {}
    BY <1>2, <2>1, SoundIsOrderly, NonePassed
  <2>3. PrintedMembers' = MembersBelow(n)
    BY <2>1, <2>2
  <2>4. PICK P : P = MembersBelow(n)
    OBVIOUS
  <2>5. Listed(s, P) /\ PrintedMembers' = P
    BY <1>4, <2>3, <2>4
  <2>6. QED
    BY <2>1, <2>5, DirNow
<1>7. CASE scan' \in {"indirect", "inodes"}
  <2>1. n \notin Directories
    BY <1>7
  <2>2. PICK k \in Nat : k = n + 1
    OBVIOUS
  <2>3. MembersBelow(k) = MembersBelow(n)
    BY <1>2, <2>1, <2>2, DirectoryPassed
  <2>4. \/ scan' = "indirect" /\ inode_no' = n
        \/ scan' = "inodes" /\ inode_no' = k
    BY <1>7, <2>2
  <2>5. PrintedMembers' = MembersBelow(k)
    <3>1. CASE scan' = "indirect"
      BY <2>2, <2>4, <3>1, MembersNow
    <3>2. CASE scan' = "inodes"
      BY <2>4, <3>2, MembersNow
    <3>3. QED
      BY <1>7, <3>1, <3>2
  <2>6. PICK P : P = MembersBelow(n) /\ P = MembersBelow(k)
    BY <2>3
  <2>7. Listed(s, P) /\ PrintedMembers' = P /\ scan' # "directory"
    BY <1>4, <1>7, <2>5, <2>6
  <2>8. QED
    BY <2>7, DirNow
<1>8. QED
  BY <1>5, <1>6, <1>7

LEMMA InodeSummaryListed ==
    ASSUME ScanInv, DirInv, Sound, UNCHANGED Fixed, program = "lab3a", InodeSummary
    PROVE  DirInv'
<1>1. scan = "inodes" /\ inode_no <= sb.s_inodes_count /\ InUse(inode) /\ cur_block' = 0 /\ cur_entry' = 0
  BY DEF InodeSummary
<1>2. Among
  BY <1>1 DEF Among
<1>3. /\ inode = At(inode_no) /\ Numbers = 1 .. sb.s_inodes_count
      /\ inode_no \in Nat /\ (Proceeds => Place) /\ csv \in Seq(ScanLines)
  BY <1>2, AtInode
<1>4. PICK n \in Nat : n = inode_no
  BY <1>3
<1>5. n \in Numbers /\ InUse(At(n))
  BY <1>1, <1>3, <1>4, SoundProceeds DEF Place
<1>6. csv' = Append(csv, LineOf(n))
  BY <1>3, <1>4 DEF InodeSummary, LineOf, ShownAddresses
<1>7. PICK s : OfKind(csv', "DIRENT") = s
  OBVIOUS
<1>8. n \in Directories <=> At(n).i_mode = "dir"
  BY <1>5 DEF Directories
<1>9. \/ scan' = "directory" /\ inode_no' = n /\ n \in Directories
      \/ scan' = "indirect" /\ inode_no' = n /\ n \notin Directories
      \/ scan' = "inodes" /\ inode_no' = n + 1 /\ n \notin Directories
  <2>1. CASE FileFormat(At(n).i_mode) = "d"
    <3>1. n \in Directories
      BY <1>8, <2>1 DEF FileFormat
    <3>2. scan' = "directory" /\ inode_no' = n
      BY <1>3, <1>4, <2>1 DEF InodeSummary
    <3>3. QED
      BY <3>1, <3>2
  <2>2. CASE FileFormat(At(n).i_mode) # "d"
    <3>1. n \notin Directories
      BY <1>8, <2>2 DEF FileFormat
    <3>2. \/ scan' = "indirect" /\ inode_no' = n
          \/ scan' = "inodes" /\ inode_no' = n + 1
      BY <1>3, <1>4, <2>2 DEF InodeSummary
    <3>3. QED
      BY <3>1, <3>2
  <2>3. QED
    BY <2>1, <2>2
<1>10. ASSUME scan' = "directory"
       PROVE  DirPlace' /\ PrintedMembers' = MembersBelow(n) \cup Gone(n, 0, 0)
  <2>1. inode_no' = n /\ n \in Directories
    BY <1>9, <1>10
  <2>2. AtEntry(n, 0, 0)
    <3>1. Orderly(n)
      BY <2>1, SoundProceeds, SoundIsOrderly
    <3>2. At(n).i_block[0] # 0 => Chained(image.entries[At(n).i_block[0]])
      BY <3>1 DEF Orderly
    <3>3. QED
      BY <3>2 DEF AtEntry, Chained
  <2>3. DirPlace'
    BY <1>1, <2>1, <2>2, PlaceNow
  <2>4. PrintedMembers' = MembersBelow(n) \cup Gone(n, 0, 0)
    BY <1>1, <1>10, <2>1, MembersNow
  <2>5. QED
    BY <2>3, <2>4
<1>11. csv' = Append(csv, LineOf(inode_no)) /\ inode_no \in Numbers
  BY <1>4, <1>5, <1>6
<1>12. \/ scan' = "crashed"
       \/ /\ scan' = "directory" /\ inode_no' = n /\ n \in Directories /\ DirPlace'
          /\ PrintedMembers' = MembersBelow(n) \cup Gone(n, 0, 0)
       \/ scan' = "indirect" /\ inode_no' = n /\ n \notin Directories
       \/ scan' = "inodes" /\ inode_no' = n + 1 /\ n \notin Directories
  BY <1>9, <1>10
<1>13. QED
  BY <1>1, <1>4, <1>7, <1>11, <1>12, InodeListed

LEMMA OneCall ==
    ASSUME NEW c \in Calls
    PROVE  <<c>> \in Seq(Calls) /\ Last(<<c>>) = c /\ Front(<<c>>) = <<>> /\ Append(<<>>, c) = <<c>>
<1>1. PICK s \in Seq(Calls) : s = <<c>> /\ Len(s) = 1 /\ s[1] = c
  <2>1. <<c>> \in Seq(Calls) /\ Len(<<c>>) = 1 /\ <<c>>[1] = c
    OBVIOUS
  <2>2. QED
    BY <2>1
<1>2. Last(s) = c
  BY <1>1 DEF Last
<1>3. Front(s) = <<>>
  <2>1. Front(s) = SubSeq(s, 1, 0)
    BY <1>1 DEF Front
  <2>2. SubSeq(s, 1, 0) = <<>>
    OBVIOUS
  <2>3. QED
    BY <2>1, <2>2
<1>4. Append(<<>>, c) = <<c>>
  OBVIOUS
<1>5. QED
  BY <1>1, <1>2, <1>3, <1>4

\* The first call of a directory is to read its direct blocks.
LEMMA FirstCall ==
    ASSUME image \in Images, NEW n \in Numbers
    PROVE  \E c \in Calls : /\ c = Call(0, SubSeq(Addresses(At(n)), 1, EXT2_NDIR_BLOCKS), 0)
                            /\ c.size = 0 /\ InCall(n, c)
<1>1. PICK a \in Seq(Nat) : a = Addresses(At(n)) /\ Len(a) = 15 /\ a[1] = At(n).i_block[0]
  <2>1. 1 \in 1 .. 15 /\ 1 - 1 = 0
    OBVIOUS
  <2>2. QED
    BY <2>1, AddressesAre
<1>2. PICK t \in Seq(Nat) : t = SubSeq(a, 1, 12) /\ Len(t) = 12 /\ t[1] = a[1]
  <2>1. \A i \in 1 .. 12 : a[i] \in Nat
    <3>1. SUFFICES ASSUME NEW i \in 1 .. 12 PROVE a[i] \in Nat
      OBVIOUS
    <3>2. i \in 1 .. Len(a)
      BY <1>1
    <3>3. QED
      BY <3>2, ElementOfSeq
  <2>2. 1 \in Int /\ 12 \in Int
    OBVIOUS
  <2>3. /\ SubSeq(a, 1, 12) \in Seq(Nat)
        /\ Len(SubSeq(a, 1, 12)) = IF 1 <= 12 THEN 12 - 1 + 1 ELSE 0
        /\ \A i \in 1 .. 12 - 1 + 1 : SubSeq(a, 1, 12)[i] = a[1 + i - 1]
    BY <2>1, <2>2, SubSeqProperties
  <2>4. SubSeq(a, 1, 12)[1] = a[1] /\ Len(SubSeq(a, 1, 12)) = 12
    BY <2>3
  <2>5. QED
    BY <2>3, <2>4
<1>3. t # <<>> /\ Head(t) = At(n).i_block[0]
  <2>1. t # <<>>
    <3>1. SUFFICES ASSUME t = <<>> PROVE FALSE
      OBVIOUS
    <3>2. Len(t) = 0
      BY <3>1, EmptySeq
    <3>3. QED
      BY <1>2, <3>2
  <2>2. Head(t) = t[1]
    BY <2>1, HeadTailProperties
  <2>3. QED
    BY <1>1, <1>2, <2>1, <2>2
<1>4. PICK c \in Calls : c = Call(0, t, 0)
  <2>1. 0 \in 0 .. 3 /\ 0 \in Nat
    OBVIOUS
  <2>2. Call(0, t, 0) \in Calls
    BY <2>1, CallType
  <2>3. QED
    BY <2>2
<1>5. c.level = 0 /\ c.block = NoBlock /\ c.size = 0 /\ c.left = t
  BY <1>4 DEF Call
<1>6. InCall(n, c)
  BY <1>3, <1>5 DEF InCall
<1>7. c = Call(0, SubSeq(Addresses(At(n)), 1, EXT2_NDIR_BLOCKS), 0)
  BY <1>1, <1>2, <1>4 DEF EXT2_NDIR_BLOCKS
<1>8. QED
  BY <1>5, <1>6, <1>7

LEMMA PrintInodeListed ==
    ASSUME ScanInv, DirInv, Sound, UNCHANGED Fixed, program = "lab3a_std", PrintInode
    PROVE  DirInv'
<1>1. /\ scan = "inodes" /\ inode_no' = inode_no /\ inode_no < super.s_inodes_count
      /\ inode_no - 1 \in image.inode_bitmap
  BY DEF PrintInode
<1>2. Among
  BY <1>1 DEF Among
<1>3. /\ inode = At(inode_no) /\ Numbers = 1 .. sb.s_inodes_count /\ super = sb
      /\ inode_no \in Nat /\ (Proceeds => Place) /\ csv \in Seq(ScanLines) /\ image \in Images
      /\ sb.s_inodes_count \in Nat
  BY <1>2, AtInode
<1>4. PICK n \in Nat : n = inode_no
  BY <1>3
<1>5. Place /\ n \in Numbers
  <2>1. Place
    BY <1>3, SoundProceeds
  <2>2. QED
    BY <1>1, <1>3, <1>4, <2>1 DEF Place
<1>6. Scanned(n)
  BY <1>1, <1>3, <1>4, <1>5 DEF Scanned, Place
<1>7. n \in Directories <=> At(n).i_mode = "dir"
  <2>1. InUse(At(n))
    BY <1>3, <1>5, <1>6, SoundIsScanned
  <2>2. QED
    BY <1>5, <2>1 DEF Directories
<1>8. csv' = Append(csv, LineOf(inode_no))
  BY <1>3 DEF PrintInode, LineOf, ShownAddresses
<1>9. PICK s : OfKind(csv', "DIRENT") = s
  OBVIOUS
<1>10. \/ scan' = "crashed"
       \/ scan' = "directory" /\ inode_no' = n /\ n \in Directories
       \/ scan' = "indirect" /\ inode_no' = n /\ n \notin Directories
  BY <1>1, <1>3, <1>4, <1>7 DEF PrintInode
<1>11. ASSUME scan' = "directory"
       PROVE  DirPlace' /\ PrintedMembers' = MembersBelow(n) \cup Gone(n, 0, 0)
  <2>1. inode_no' = n /\ n \in Directories
    BY <1>10, <1>11
  <2>2. PICK c \in Calls : /\ c = Call(0, SubSeq(Addresses(At(n)), 1, EXT2_NDIR_BLOCKS), 0)
                           /\ c.size = 0 /\ InCall(n, c)
    BY <1>3, <1>5, FirstCall
  <2>3. stack' = <<c>>
    BY <1>3, <1>4, <1>7, <2>1, <2>2 DEF PrintInode
  <2>4. DirPlace'
    BY <2>1, <2>2, <2>3, PlaceNow
  <2>5. top'.size = 0
    <3>1. Last(<<c>>) = c
      BY OneCall
    <3>2. top' = c
      BY <2>3, <3>1 DEF top
    <3>3. QED
      BY <2>2, <3>2
  <2>6. PrintedMembers' = MembersBelow(n) \cup Gone(n, 0, 0)
    BY <1>11, <2>1, <2>5, MembersNow
  <2>7. QED
    BY <2>4, <2>6
<1>12. \/ scan' = "crashed"
       \/ /\ scan' = "directory" /\ inode_no' = n /\ n \in Directories /\ DirPlace'
          /\ PrintedMembers' = MembersBelow(n) \cup Gone(n, 0, 0)
       \/ scan' = "indirect" /\ inode_no' = n /\ n \notin Directories
       \/ scan' = "inodes" /\ inode_no' = n + 1 /\ n \notin Directories
  BY <1>10, <1>11
<1>13. inode_no \in Numbers
  BY <1>4, <1>5
<1>14. QED
  BY <1>1, <1>4, <1>8, <1>9, <1>12, <1>13, InodeListed

\* An entry is printed, or passed over when it is not in use.
LEMMA EntryListed ==
    ASSUME ScanInv, DirInv, Sound, UNCHANGED Fixed, scan = "directory", scan' = "directory",
           NEW n \in Directories, n = inode_no, UNCHANGED inode_no,
           NEW k \in 0 .. 11, NEW b, b = At(n).i_block[k], b # 0, NEW o \in DOMAIN image.entries[b],
           NEW e, e = EntryAt(b, o), NEW offset \in Nat,
           csv' = IF e.inode = 0 THEN csv ELSE Append(csv, DirectoryEntry(n, offset, e.inode, e.name)),
           PrintedMembers = MembersBelow(n) \cup Gone(n, k, o),
           PrintedMembers' = MembersBelow(n) \cup Gone(n, k, o + e.rec_len), DirPlace'
    PROVE  DirInv'
<1>1. Among
  BY DEF Among, Within
<1>2. image \in Images /\ program \in Programs /\ n \in Nat /\ csv \in Seq(ScanLines)
  BY <1>1, SoundProceeds, AtInode
<1>3. Orderly(n)
  BY <1>2, SoundIsOrderly
<1>4. /\ <<n, b, o>> \notin Gone(n, k, o)
      /\ Gone(n, k, o + e.rec_len) = Gone(n, k, o) \cup IF e.inode = 0 THEN {} ELSE {<<n, b, o>>}
      /\ e.inode # 0 => <<n, b, o>> \in Members(n)
  <2>1. OnePassed(n, k, b, o, EntryAt(b, o))
    BY <1>3, EntryPassed, Zenon
  <2>2. OnePassed(n, k, b, o, e)
    BY <2>1, Zenon
  <2>3. QED
    BY <2>2, Zenon DEF OnePassed
<1>5. PICK P : P = MembersBelow(n) \cup Gone(n, k, o)
  OBVIOUS
<1>6. PICK s : s = OfKind(csv, "DIRENT")
  OBVIOUS
<1>7. Listed(s, P)
  BY <1>1, <1>5, <1>6 DEF DirInv
<1>8. CASE e.inode = 0
  <2>1. OfKind(csv', "DIRENT") = s
    BY <1>6, <1>8
  <2>2. PrintedMembers' = P
    BY <1>4, <1>5, <1>8
  <2>3. QED
    BY <1>7, <2>1, <2>2, DirNow
<1>9. CASE e.inode # 0
  <2>1. PICK l \in EntryLines : l = DirectoryEntry(n, offset, e.inode, e.name) /\ l.line = "DIRENT"
    <3>1. e \in ext2_dir_entry
      BY <1>2, EntriesType
    <3>2. QED
      BY <1>2, <3>1, EntryType
  <2>2. l \in ScanLines
    BY DEF ScanLines
  <2>3. PICK c \in Seq(ScanLines) : c = csv
    BY <1>2
  <2>4. After(c, <<l>>) = Append(c, l) /\ MoreOf(c, <<l>>, "DIRENT")
    BY <2>1, <2>2, LinePrinted
  <2>5. OfKind(Append(c, l), "DIRENT") = After(OfKind(c, "DIRENT"), <<l>>)
    BY <2>4 DEF MoreOf
  <2>6. PICK r \in Seq(ScanLines) : r = OfKind(c, "DIRENT")
    BY OfKindType
  <2>7. After(r, <<l>>) = Append(r, l)
    BY <2>2, LinePrinted
  <2>8. OfKind(csv', "DIRENT") = Append(r, l)
    BY <1>9, <2>1, <2>3, <2>5, <2>6, <2>7
  <2>9. PICK m : m = <<n, b, o>>
    OBVIOUS
  <2>10. m \notin P
    BY <1>2, <1>4, <1>5, <1>9, <2>9, DirectoryPassed
  <2>11. Describes(l, m)
    <3>1. m[1] = n /\ m[2] = b /\ m[3] = o
      BY <2>9
    <3>2. l.parent_inode = n /\ l.entry_reference_inode = e.inode /\ l.entry_name = e.name
      BY <2>1 DEF DirectoryEntry
    <3>3. QED
      BY <3>1, <3>2 DEF Describes
  <2>12. Listed(r, P)
    BY <1>6, <1>7, <2>3, <2>6
  <2>13. Listed(Append(r, l), P \cup {m})
    BY <2>2, <2>10, <2>11, <2>12, ListedMore
  <2>14. PrintedMembers' = P \cup {m}
    BY <1>4, <1>5, <1>9, <2>9
  <2>15. PICK t, Q : t = Append(r, l) /\ Q = P \cup {m}
    OBVIOUS
  <2>16. Listed(t, Q) /\ OfKind(csv', "DIRENT") = t /\ PrintedMembers' = Q
    BY <2>8, <2>13, <2>14, <2>15
  <2>17. QED
    BY <2>16, DirNow
<1>10. QED
  BY <1>8, <1>9

\* Where lab3a is.
LEMMA AtDirectory ==
    ASSUME ScanInv, DirInv, Sound, scan = "directory"
    PROVE  /\ inode_no \in Directories /\ inode_no \in Nat /\ Orderly(inode_no) /\ DirPlace
           /\ inode = At(inode_no)
           /\ Listed(OfKind(csv, "DIRENT"), PrintedMembers)
           /\ program = "lab3a" =>
                 PrintedMembers = MembersBelow(inode_no) \cup Gone(inode_no, cur_block, cur_entry)
           /\ program = "lab3a_std" =>
                 PrintedMembers = MembersBelow(inode_no) \cup Gone(inode_no, 0, top.size)
<1>1. Among
  BY DEF Among, Within
<1>2. DirPlace /\ Listed(OfKind(csv, "DIRENT"), PrintedMembers)
  BY <1>1 DEF DirInv
<1>3. inode_no \in Directories
  BY <1>2 DEF DirPlace
<1>4. Orderly(inode_no) /\ inode_no \in Nat /\ inode = At(inode_no)
  BY <1>1, <1>3, SoundProceeds, SoundIsOrderly, AtInode
<1>5. PrintedMembers = MembersBelow(inode_no) \cup PrintedHere
  BY DEF PrintedMembers
<1>6. /\ program = "lab3a" => PrintedHere = Gone(inode_no, cur_block, cur_entry)
      /\ program = "lab3a_std" => PrintedHere = Gone(inode_no, 0, top.size)
  BY DEF PrintedHere
<1>7. QED
  BY <1>2, <1>3, <1>4, <1>5, <1>6

LEMMA ReadEntryListed ==
    ASSUME ScanInv, DirInv, Sound, UNCHANGED Fixed, program = "lab3a", ReadEntry
    PROVE  DirInv'
<1>1. scan = "directory" /\ UNCHANGED <<inode_no, cur_block>> /\ cur_entry < 1024
  BY DEF ReadEntry, block_size
<1>2. PICK n \in Directories : /\ n = inode_no /\ n \in Nat /\ Orderly(n) /\ AtEntry(n, cur_block, cur_entry)
                               /\ inode = At(n)
                               /\ PrintedMembers = MembersBelow(n) \cup Gone(n, cur_block, cur_entry)
  BY <1>1, AtDirectory DEF DirPlace
<1>3. PICK k \in Nat : \E b : k = cur_block /\ b = At(n).i_block[k] /\ b # 0 /\ k < 15
  <2>1. cur_block \in Nat
    BY <1>2 DEF AtEntry
  <2>2. cur_block < 15 /\ inode.i_block[cur_block] # 0
    BY DEF ReadEntry, EXT2_N_BLOCKS, EXT2_TIND_BLOCK, EXT2_DIND_BLOCK, EXT2_IND_BLOCK, EXT2_NDIR_BLOCKS
  <2>3. QED
    BY <1>2, <2>1, <2>2
<1>4. PICK b : k = cur_block /\ b = At(n).i_block[k] /\ b # 0 /\ k < 15
  BY <1>3
<1>5. k \in 0 .. 11
  <2>1. k \in 0 .. 14
    BY <1>4
  <2>2. k < 12
    BY <1>2, <1>4, <2>1 DEF Orderly
  <2>3. QED
    BY <2>1, <2>2
<1>6. cur_entry \in DOMAIN image.entries[b] \cup {1024} /\ cur_entry \in Nat
  <2>1. cur_entry \in Nat
    BY DEF ScanInv, ScanTypes
  <2>2. QED
    BY <1>2, <1>4, <1>5, <2>1 DEF AtEntry
<1>7. PICK o \in DOMAIN image.entries[b] : o = cur_entry /\ o \in Nat
  BY <1>1, <1>6
<1>8. PICK e \in ext2_dir_entry : Fits(b, o, e)
  BY <1>2, <1>4, <1>5, EntryIs
<1>9. /\ e = EntryAt(b, o) /\ e.rec_len \in Nat /\ e.rec_len >= 8
      /\ o + e.rec_len \in DOMAIN image.entries[b] \cup {1024}
  BY <1>8 DEF Fits
<1>10. /\ csv' = csv \o EntryLine(o, e) /\ cur_entry' = o + e.rec_len
       /\ scan' = IF e.rec_len = 0 THEN "endless" ELSE scan
  BY <1>2, <1>4, <1>7, <1>9 DEF ReadEntry
<1>11. scan' = "directory"
  BY <1>1, <1>9, <1>10
<1>12. csv' = IF e.inode = 0 THEN csv ELSE Append(csv, DirectoryEntry(n, o, e.inode, e.name))
  <2>1. Among
    BY <1>1 DEF Among, Within
  <2>2. PICK c \in Seq(ScanLines) : c = csv
    BY <2>1, AtInode
  <2>3. c \o <<>> = c
    BY ConcatEmptySeq
  <2>4. PICK l \in ScanLines : l = DirectoryEntry(n, o, e.inode, e.name)
    BY <1>2, <1>7, EntryType DEF ScanLines
  <2>5. c \o <<l>> = Append(c, l)
    OBVIOUS
  <2>6. EntryLine(o, e) = IF e.inode = 0 THEN <<>> ELSE <<l>>
    BY <1>2, <2>4 DEF EntryLine
  <2>7. QED
    BY <1>10, <2>2, <2>3, <2>4, <2>5, <2>6
<1>13. PICK a : a = o + e.rec_len
  OBVIOUS
<1>14. AtEntry(n, k, a)
  BY <1>4, <1>9, <1>13 DEF AtEntry
<1>15. DirPlace'
  BY <1>1, <1>2, <1>4, <1>10, <1>13, <1>14, PlaceNow
<1>16. PrintedMembers' = MembersBelow(n) \cup Gone(n, k, a)
  BY <1>1, <1>2, <1>4, <1>10, <1>11, <1>13, MembersNow
<1>17. /\ PrintedMembers = MembersBelow(n) \cup Gone(n, k, o)
       /\ PrintedMembers' = MembersBelow(n) \cup Gone(n, k, o + e.rec_len)
  BY <1>2, <1>4, <1>7, <1>13, <1>16
<1>18. UNCHANGED inode_no /\ e = EntryAt(b, o) /\ b = At(n).i_block[k] /\ b # 0
  BY <1>1, <1>4, <1>9
<1>19. n = inode_no /\ o \in Nat
  BY <1>2, <1>7
<1>20. QED
  BY <1>1, <1>5, <1>11, <1>12, <1>15, <1>17, <1>18, <1>19, EntryListed, ZenonT(40)

\* The lines stay, and there is another way to say what they describe.
LEMMA NothingListed ==
    ASSUME DirInv, Sound, Among, UNCHANGED Fixed, UNCHANGED csv, PrintedMembers' = PrintedMembers,
           scan' = "directory" => DirPlace'
    PROVE  DirInv'
<1>1. PICK s : s = OfKind(csv, "DIRENT") /\ s = OfKind(csv', "DIRENT")
  OBVIOUS
<1>2. PICK P : P = PrintedMembers
  OBVIOUS
<1>3. Listed(s, P)
  BY <1>1, <1>2 DEF DirInv
<1>4. OfKind(csv', "DIRENT") = s /\ PrintedMembers' = P
  BY <1>1, <1>2
<1>5. QED
  BY <1>3, <1>4, DirNow

LEMMA NextBlockListed ==
    ASSUME ScanInv, DirInv, Sound, UNCHANGED Fixed, program = "lab3a", NextBlock
    PROVE  DirInv'
<1>1. /\ scan = "directory" /\ UNCHANGED <<inode_no, csv, scan>> /\ cur_block' = cur_block + 1
      /\ cur_entry' = 0
  BY DEF NextBlock
<1>2. PICK n \in Directories : /\ n = inode_no /\ n \in Nat /\ Orderly(n) /\ AtEntry(n, cur_block, cur_entry)
                               /\ inode = At(n)
                               /\ PrintedMembers = MembersBelow(n) \cup Gone(n, cur_block, cur_entry)
  BY <1>1, AtDirectory DEF DirPlace
<1>3. PICK k \in Nat : \E b : k = cur_block /\ b = At(n).i_block[k] /\ b # 0 /\ k < 15
  <2>1. cur_block \in Nat
    BY <1>2 DEF AtEntry
  <2>2. cur_block < 15 /\ inode.i_block[cur_block] # 0
    BY DEF NextBlock, EXT2_N_BLOCKS, EXT2_TIND_BLOCK, EXT2_DIND_BLOCK, EXT2_IND_BLOCK, EXT2_NDIR_BLOCKS
  <2>3. QED
    BY <1>2, <2>1, <2>2
<1>4. PICK b : k = cur_block /\ b = At(n).i_block[k] /\ b # 0 /\ k < 15
  BY <1>3
<1>5. k \in 0 .. 11
  <2>1. k \in 0 .. 14
    BY <1>4
  <2>2. k < 12
    BY <1>2, <1>4, <2>1 DEF Orderly
  <2>3. QED
    BY <2>1, <2>2
<1>6. cur_entry = 1024
  <2>1. cur_entry \in DOMAIN image.entries[b] \cup {1024}
    BY <1>2, <1>4, <1>5 DEF AtEntry
  <2>2. ASSUME cur_entry \in DOMAIN image.entries[b] PROVE FALSE
    <3>1. PICK o \in DOMAIN image.entries[b] : o = cur_entry
      BY <2>2
    <3>2. PICK e \in ext2_dir_entry : Fits(b, o, e)
      BY <1>2, <1>4, <1>5, EntryIs
    <3>3. e = EntryAt(b, o) /\ e.file_type # 0 /\ o < 1024 /\ o \in Nat
      BY <3>2 DEF Fits
    <3>4. cur_entry >= 1024 \/ EntryAt(b, cur_entry).file_type = 0
      BY <1>2, <1>4 DEF NextBlock, block_size
    <3>5. QED
      BY <3>1, <3>3, <3>4
  <2>3. QED
    BY <2>1, <2>2
<1>7. PICK j \in Nat : j = k + 1
  OBVIOUS
<1>8. Gone(n, j, 0) = Gone(n, k, 1024)
  BY <1>2, <1>7, BlockPassed
<1>9. AtEntry(n, j, 0)
  <2>1. ASSUME j < 12, At(n).i_block[j] # 0 PROVE 0 \in DOMAIN image.entries[At(n).i_block[j]]
    <3>1. j \in 0 .. 14
      BY <2>1
    <3>2. Chained(image.entries[At(n).i_block[j]])
      BY <1>2, <2>1, <3>1 DEF Orderly
    <3>3. QED
      BY <3>2 DEF Chained
  <2>2. QED
    BY <2>1 DEF AtEntry
<1>10. cur_block' = j /\ cur_entry' = 0 /\ inode_no' = n /\ scan' = "directory"
  BY <1>1, <1>2, <1>4, <1>7
<1>11. DirPlace'
  BY <1>9, <1>10, PlaceNow
<1>12. PrintedMembers' = MembersBelow(n) \cup Gone(n, j, 0)
  BY <1>10, MembersNow
<1>13. PrintedMembers' = PrintedMembers /\ UNCHANGED csv /\ Among
  BY <1>1, <1>2, <1>4, <1>6, <1>8, <1>12 DEF Among, Within
<1>14. QED
  BY <1>11, <1>13, NothingListed

\* All entries of a directory are printed.
LEMMA DirectoryListed ==
    ASSUME ScanInv, DirInv, Sound, UNCHANGED Fixed, scan = "directory", scan' = "indirect",
           UNCHANGED <<csv, inode_no>>, NEW n \in Directories, n = inode_no, n \in Nat,
           PrintedMembers = MembersBelow(n) \cup Members(n)
    PROVE  DirInv'
<1>1. Among
  BY DEF Among, Within
<1>2. image \in Images
  BY SoundProceeds
<1>3. PICK k \in Nat : k = n + 1
  OBVIOUS
<1>4. MembersBelow(k) = MembersBelow(n) \cup Members(n)
  BY <1>2, <1>3, DirectoryPassed
<1>5. inode_no' = n
  OBVIOUS
<1>6. PrintedMembers' = MembersBelow(k)
  BY <1>3, <1>5, MembersNow
<1>7. PrintedMembers' = PrintedMembers /\ UNCHANGED csv
  BY <1>4, <1>6
<1>8. QED
  BY <1>1, <1>7, NothingListed

LEMMA EndDirectoryListed ==
    ASSUME ScanInv, DirInv, Sound, UNCHANGED Fixed, program = "lab3a", EndDirectory
    PROVE  DirInv'
<1>1. /\ scan = "directory" /\ scan' = "indirect" /\ UNCHANGED <<inode_no, csv>>
      /\ cur_block < 15 => inode.i_block[cur_block] = 0
  BY DEF EndDirectory, EXT2_N_BLOCKS, EXT2_TIND_BLOCK, EXT2_DIND_BLOCK, EXT2_IND_BLOCK, EXT2_NDIR_BLOCKS
<1>2. PICK n \in Directories : /\ n = inode_no /\ n \in Nat /\ Orderly(n) /\ AtEntry(n, cur_block, cur_entry)
                               /\ inode = At(n)
                               /\ PrintedMembers = MembersBelow(n) \cup Gone(n, cur_block, cur_entry)
  BY <1>1, AtDirectory DEF DirPlace
<1>3. PICK k \in Nat : k = cur_block /\ (k < 15 => At(n).i_block[k] = 0)
  BY <1>1, <1>2 DEF AtEntry
<1>4. Gone(n, k, cur_entry) = Members(n)
  BY <1>2, <1>3, AllPassed
<1>5. PrintedMembers = MembersBelow(n) \cup Members(n)
  BY <1>2, <1>3, <1>4
<1>6. QED
  BY <1>1, <1>2, <1>5, DirectoryListed

\* The only call of lab3a_std in a directory of a sound image.
OnlyCall(n, c) ==
    /\ n = inode_no /\ stack = <<c>> /\ top = c /\ InCall(n, c)
    /\ \A d \in Calls : Append(Front(stack), d) = <<d>>
    /\ PrintedMembers = MembersBelow(n) \cup Gone(n, 0, c.size)

LEMMA AtCall ==
    ASSUME ScanInv, DirInv, Sound, scan = "directory", program = "lab3a_std"
    PROVE  \E n \in Directories : \E c \in Calls :
              /\ OnlyCall(n, c) /\ Orderly(n) /\ n \in Nat /\ inode = At(n)
              /\ At(n).i_size = 1024 /\ At(n).i_block[0] # 0
<1>1. PICK n \in Directories : /\ n = inode_no /\ n \in Nat /\ Orderly(n) /\ inode = At(n) /\ DirPlace
                               /\ PrintedMembers = MembersBelow(n) \cup Gone(n, 0, top.size)
  BY AtDirectory
<1>2. PICK c \in Calls : stack = <<c>> /\ InCall(n, c)
  BY <1>1 DEF DirPlace
<1>3. Last(<<c>>) = c /\ Front(<<c>>) = <<>>
  BY OneCall
<1>4. top = c /\ Front(stack) = <<>>
  BY <1>2, <1>3 DEF top
<1>5. \A d \in Calls : Append(Front(stack), d) = <<d>>
  BY <1>4, OneCall
<1>6. OnlyCall(n, c)
  BY <1>1, <1>2, <1>4, <1>5 DEF OnlyCall
<1>7. At(n).i_size = 1024 /\ At(n).i_block[0] # 0
  BY SoundProceeds, OneBlock
<1>8. QED
  BY <1>1, <1>6, <1>7

\* The call changes, and nothing is printed.
LEMMA CallListed ==
    ASSUME ScanInv, DirInv, Sound, UNCHANGED Fixed, scan = "directory", program = "lab3a_std",
           UNCHANGED <<csv, inode_no, scan>>, NEW n \in Directories, NEW c \in Calls, OnlyCall(n, c),
           NEW d \in Calls, stack' = <<d>>, d.size = c.size, InCall(n, d)
    PROVE  DirInv'
<1>1. Among /\ inode_no' = n /\ scan' = "directory"
  BY DEF Among, Within, OnlyCall
<1>2. DirPlace'
  BY <1>1, PlaceNow
<1>3. top'.size = c.size
  <2>1. Last(<<d>>) = d
    BY OneCall
  <2>2. top' = d
    BY <2>1 DEF top
  <2>3. QED
    BY <2>2
<1>4. PICK z : z = c.size /\ top'.size = z
  BY <1>3
<1>5. PrintedMembers' = MembersBelow(n) \cup Gone(n, 0, z)
  BY <1>1, <1>4, MembersNow
<1>6. PrintedMembers' = PrintedMembers /\ UNCHANGED csv
  BY <1>4, <1>5 DEF OnlyCall
<1>7. QED
  BY <1>1, <1>2, <1>6, NothingListed

LEMMA NextPointerListed ==
    ASSUME ScanInv, DirInv, Sound, UNCHANGED Fixed, program = "lab3a_std", NextPointer
    PROVE  DirInv'
<1>1. /\ scan = "directory" /\ top.block = NoBlock /\ top.left # <<>>
      /\ UNCHANGED <<csv, inode_no, scan>>
  BY DEF NextPointer
<1>2. PICK n \in Directories : \E c \in Calls :
              /\ OnlyCall(n, c) /\ Orderly(n) /\ n \in Nat /\ inode = At(n)
              /\ At(n).i_size = 1024 /\ At(n).i_block[0] # 0
  BY <1>1, AtCall
<1>3. PICK c \in Calls :
              /\ OnlyCall(n, c) /\ Orderly(n) /\ n \in Nat /\ inode = At(n)
              /\ At(n).i_size = 1024 /\ At(n).i_block[0] # 0
  BY <1>2
<1>4. top = c /\ InCall(n, c) /\ c.level = 0 /\ c.block = NoBlock /\ c.left # <<>> /\ c.left \in Seq(Nat)
  BY <1>1, <1>3 DEF OnlyCall, InCall, Calls
<1>5. PICK p \in Nat : p = Head(c.left)
  BY <1>4
<1>6. PICK rest \in Seq(Nat) : rest = Tail(c.left)
  <2>1. Tail(c.left) \in Seq(Nat)
    BY <1>4
  <2>2. QED
    BY <2>1
<1>7. PICK d \in Calls : d = [[c EXCEPT !.left = rest] EXCEPT !.block = p, !.at = 0]
  <2>1. [[c EXCEPT !.left = rest] EXCEPT !.block = p, !.at = 0] \in Calls
    BY DEF Calls
  <2>2. QED
    BY <2>1
<1>8. d.level = 0 /\ d.block = p /\ d.at = 0 /\ d.size = c.size
  BY <1>4, <1>7 DEF Calls
<1>9. stack' = <<d>>
  <2>1. stack' = Append(Front(stack), d)
    BY <1>4, <1>5, <1>6, <1>7 DEF NextPointer, SetTop
  <2>2. QED
    BY <1>3, <2>1, SMTT(30) DEF OnlyCall
<1>10. InCall(n, d)
  <2>1. CASE c.size = 1024
    BY <1>8, <2>1 DEF InCall
  <2>2. CASE c.size # 1024
    <3>1. p = At(n).i_block[0] /\ c.size = 0
      <4>1. c.block # At(n).i_block[0]
        <5>1. 0 \in 0 .. 14
          OBVIOUS
        <5>2. At(n).i_block[0] \in Nat
          BY <1>3, <5>1 DEF Orderly
        <5>3. QED
          BY <1>4, <5>2 DEF NoBlock
      <4>2. QED
        BY <1>4, <1>5, <2>2, <4>1 DEF InCall
    <3>2. 0 \in DOMAIN image.entries[p]
      <4>1. 0 \in 0 .. 14
        OBVIOUS
      <4>2. Chained(image.entries[At(n).i_block[0]])
        BY <1>3, <4>1 DEF Orderly
      <4>3. QED
        BY <3>1, <4>2 DEF Chained
    <3>3. QED
      BY <1>8, <3>1, <3>2 DEF InCall
  <2>3. QED
    BY <2>1, <2>2
<1>11. QED
  BY <1>1, <1>3, <1>8, <1>9, <1>10, CallListed

\* The direct blocks have been read, and there are no others.
LEMMA ReturnFromCallListed ==
    ASSUME ScanInv, DirInv, Sound, UNCHANGED Fixed, program = "lab3a_std", ReturnFromCall
    PROVE  DirInv'
<1>1. /\ scan = "directory" /\ top.block = NoBlock /\ top.left = <<>>
      /\ UNCHANGED <<csv, inode_no>>
  BY DEF ReturnFromCall
<1>2. PICK n \in Directories : \E c \in Calls :
              /\ OnlyCall(n, c) /\ Orderly(n) /\ n \in Nat /\ inode = At(n)
              /\ At(n).i_size = 1024 /\ At(n).i_block[0] # 0
  BY <1>1, AtCall
<1>3. PICK c \in Calls :
              /\ OnlyCall(n, c) /\ Orderly(n) /\ n \in Nat /\ inode = At(n)
              /\ At(n).i_size = 1024 /\ At(n).i_block[0] # 0
  BY <1>2
<1>4. top = c /\ InCall(n, c) /\ c.level = 0 /\ c.block = NoBlock /\ c.left = <<>> /\ stack = <<c>>
  BY <1>1, <1>3 DEF OnlyCall, InCall
<1>5. c.size = 1024
  <2>1. c.block # At(n).i_block[0]
    <3>1. 0 \in 0 .. 14
      OBVIOUS
    <3>2. At(n).i_block[0] \in Nat
      BY <1>3, <3>1 DEF Orderly
    <3>3. QED
      BY <1>4, <3>2 DEF NoBlock
  <2>2. QED
    BY <1>4, <2>1 DEF InCall
<1>6. \A k \in 1 .. 3 : inode.i_block[15 - k] = 0
  <2>1. \A k \in 1 .. 14 : At(n).i_block[k] = 0
    BY SoundProceeds, OneBlock
  <2>2. \A k \in 1 .. 3 : 15 - k \in 1 .. 14
    OBVIOUS
  <2>3. QED
    BY <1>3, <2>1, <2>2
<1> DEFINE roots == [k \in 1 .. 3 |-> inode.i_block[EXT2_N_BLOCKS - k]]
           trees == [k \in 1 .. 3 |-> Call(4 - k, Pointers(roots[k]), top.size)]
           pieces == [k \in 1 .. 3 |-> IF roots[k] = 0 THEN <<>> ELSE <<trees[k]>>]
<1>7. stack' = Front(stack) \o (IF top.level > 0 THEN <<>> ELSE FlattenSeq(pieces))
  BY DEF ReturnFromCall
<1>8. scan' = IF stack' = <<>> THEN "indirect" ELSE scan
  BY DEF ReturnFromCall
<1>9. pieces = [k \in 1 .. 3 |-> <<>>]
  <2>1. \A k \in 1 .. 3 : roots[k] = 0
    BY <1>6 DEF EXT2_N_BLOCKS, EXT2_TIND_BLOCK, EXT2_DIND_BLOCK, EXT2_IND_BLOCK, EXT2_NDIR_BLOCKS
  <2> HIDE DEF roots, trees
  <2>2. QED
    BY <2>1
<1> HIDE DEF pieces
<1>10. FlattenSeq(pieces) = <<>>
  <2>1. PICK f : f = [k \in Nat |-> <<>>]
    OBVIOUS
  <2>2. \A k \in Nat : f[k] = <<>>
    BY <2>1
  <2>3. f \in [Nat -> Seq(Nat)]
    BY <2>1, EmptySeq
  <2>4. Upto(f, 3) = Upto(f, 0) /\ Upto(f, 0) = <<>>
    <3>1. 0 \in Nat /\ 3 \in Nat /\ 0 <= 3 /\ \A k \in 0 + 1 .. 3 : k \in Nat
      OBVIOUS
    <3>2. \A k \in 0 + 1 .. 3 : f[k] = <<>>
      BY <2>2, <3>1
    <3>3. Upto(f, 3) = Upto(f, 0)
      BY <2>3, <3>1, <3>2, UptoStill
    <3>4. QED
      BY <3>3, UptoNone
  <2>5. [n_1 \in 1 .. 3 |-> f[n_1]] = pieces
    BY <1>9, <2>2
  <2>6. QED
    BY <2>4, <2>5 DEF Upto
<1>11. stack' = <<>>
  <2>1. Front(stack) = <<>>
    BY <1>4, OneCall
  <2>2. <<>> \o <<>> = <<>>
    BY EmptySeq, ConcatEmptySeq
  <2>3. ~(top.level > 0)
    BY <1>4
  <2>4. QED
    BY <1>7, <1>10, <2>1, <2>2, <2>3
<1>12. scan' = "indirect"
  BY <1>8, <1>11
<1>13. PrintedMembers = MembersBelow(n) \cup Members(n)
  <2>1. Gone(n, 0, 1024) = Members(n)
    BY SoundProceeds, OneBlockPassed
  <2>2. QED
    BY <1>3, <1>5, <2>1 DEF OnlyCall
<1>14. n = inode_no /\ n \in Nat
  BY <1>3 DEF OnlyCall
<1>15. QED
  BY <1>1, <1>12, <1>13, <1>14, DirectoryListed

LEMMA ReadDirEntryListed ==
    ASSUME ScanInv, DirInv, Sound, UNCHANGED Fixed, program = "lab3a_std", ReadDirEntry
    PROVE  DirInv'
<1>1. scan = "directory" /\ inode_no' = inode_no /\ top.block # NoBlock
  BY DEF ReadDirEntry
<1>2. PICK n \in Directories : \E c \in Calls :
              /\ OnlyCall(n, c) /\ Orderly(n) /\ n \in Nat /\ inode = At(n)
              /\ At(n).i_size = 1024 /\ At(n).i_block[0] # 0
  BY <1>1, AtCall
<1>3. PICK c \in Calls :
              /\ OnlyCall(n, c) /\ Orderly(n) /\ n \in Nat /\ inode = At(n)
              /\ At(n).i_size = 1024 /\ At(n).i_block[0] # 0
  BY <1>2
<1>4. /\ top = c /\ InCall(n, c) /\ c.level = 0 /\ c.block # NoBlock
      /\ c.size \in Nat /\ c.at \in Nat
  BY <1>1, <1>3 DEF OnlyCall, InCall, Calls
<1>5. PICK e \in EntriesAtTop :
                  IF top.size < inode.i_size /\ e.file_type # 0
                  THEN /\ csv' = IF e.inode = 0 THEN csv
                                 ELSE Append(csv, DirectoryEntry(inode_no, top.size, e.inode, e.name))
                       /\ stack' = Append(Front(stack), [top EXCEPT !.size = @ + e.rec_len,
                                                                    !.at = @ + e.rec_len])
                       /\ scan' = IF e.rec_len = 0 THEN "endless" ELSE scan
                  ELSE /\ stack' = Append(Front(stack), [top EXCEPT !.block = NoBlock])
                       /\ UNCHANGED <<csv, scan>>
  BY Zenon DEF ReadDirEntry, SetTop
<1>6. CASE c.size = 1024
  <2>1. /\ stack' = Append(Front(stack), [top EXCEPT !.block = NoBlock])
        /\ UNCHANGED <<csv, scan>>
    <3>1. ~(top.size < inode.i_size)
      BY <1>3, <1>4, <1>6
    <3>2. QED
      BY <1>5, <3>1, Zenon
  <2>2. PICK d \in Calls : d = [c EXCEPT !.block = NoBlock]
    <3>1. [c EXCEPT !.block = NoBlock] \in Calls
      BY DEF Calls
    <3>2. QED
      BY <3>1
  <2>3. d.level = 0 /\ d.size = c.size
    BY <1>4, <2>2 DEF Calls
  <2>4. InCall(n, d)
    BY <1>6, <2>3 DEF InCall
  <2>5. stack' = <<d>>
    BY <1>3, <1>4, <2>1, <2>2 DEF OnlyCall
  <2>6. UNCHANGED <<csv, inode_no, scan>> /\ OnlyCall(n, c)
    BY <1>1, <1>3, <2>1
  <2>7. QED
    BY <1>1, <2>3, <2>4, <2>5, <2>6, CallListed
<1>7. CASE c.size # 1024
  <2>1. /\ c.block = At(n).i_block[0] /\ c.at = c.size
        /\ c.size \in DOMAIN image.entries[c.block]
    BY <1>4, <1>7 DEF InCall
  <2>2. PICK b : b = At(n).i_block[0] /\ b # 0 /\ b = c.block
    BY <1>3, <2>1
  <2>3. PICK o \in DOMAIN image.entries[b] : o = c.size /\ o = c.at
    BY <2>1, <2>2
  <2>4. PICK k \in 0 .. 11 : k = 0
    OBVIOUS
  <2>23. /\ Orderly(n) /\ b = At(n).i_block[k] /\ b # 0
    <3>1. Orderly(n)
      BY <1>3, Zenon
    <3>2. b = At(n).i_block[0] /\ b # 0
      BY <2>2, Zenon
    <3>3. b = At(n).i_block[k]
      BY <3>2, <2>4, Zenon
    <3>4. QED
      BY <3>1, <3>2, <3>3, Zenon
  <2>5. PICK x \in ext2_dir_entry : Fits(b, o, x)
    BY <2>23, EntryIs, Zenon
  <2>6. /\ x = EntryAt(b, o) /\ x.file_type # 0 /\ o \in Nat /\ o < 1024
        /\ x.rec_len \in Nat /\ x.rec_len >= 8 /\ o + x.rec_len <= 1024
        /\ o + x.rec_len \in DOMAIN image.entries[b] \cup {1024}
    BY <2>5 DEF Fits
  <2>7. e = x
    <3>1. top.at + 8 <= 1024
      BY <1>4, <2>3, <2>6
    <3>2. EntriesAtTop = {EntryAt(top.block, top.at)}
      BY <3>1 DEF EntriesAtTop, block_size
    <3>3. EntryAt(top.block, top.at) = x
      BY <1>4, <2>2, <2>3, <2>6
    <3>4. QED
      BY <1>5, <3>2, <3>3
  <2>8. /\ csv' = IF e.inode = 0 THEN csv
                  ELSE Append(csv, DirectoryEntry(inode_no, top.size, e.inode, e.name))
        /\ stack' = Append(Front(stack), [top EXCEPT !.size = @ + e.rec_len,
                                                     !.at = @ + e.rec_len])
        /\ scan' = IF e.rec_len = 0 THEN "endless" ELSE scan
    <3>1. top.size < inode.i_size /\ e.file_type # 0
      BY <1>3, <1>4, <2>3, <2>6, <2>7
    <3>2. QED
      BY <1>5, <3>1, Zenon
  <2>9. scan' = "directory"
    BY <1>1, <2>6, <2>7, <2>8
  <2>10. PICK a \in Nat : a = o + x.rec_len
    BY <2>6
  <2>11. PICK d \in Calls : d = [c EXCEPT !.size = a, !.at = a]
    <3>1. [c EXCEPT !.size = a, !.at = a] \in Calls
      BY DEF Calls
    <3>2. QED
      BY <3>1
  <2>12. d.level = 0 /\ d.size = a /\ d.at = a /\ d.block = b
    BY <1>4, <2>2, <2>11 DEF Calls
  <2>13. stack' = <<d>>
    <3>1. [top EXCEPT !.size = @ + e.rec_len, !.at = @ + e.rec_len] = d
      BY <1>4, <2>3, <2>7, <2>10, <2>11
    <3>2. QED
      BY <1>3, <2>8, <3>1 DEF OnlyCall
  <2>14. InCall(n, d)
    BY <2>2, <2>6, <2>10, <2>12 DEF InCall
  <2>15. n = inode_no /\ inode_no' = n /\ PrintedMembers = MembersBelow(n) \cup Gone(n, 0, c.size)
    BY <1>1, <1>3 DEF OnlyCall
  <2>16. DirPlace'
    BY <2>13, <2>14, <2>15, PlaceNow
  <2>17. top'.size = a
    <3>1. Last(<<d>>) = d
      BY OneCall
    <3>2. top' = d
      BY <2>13, <3>1 DEF top
    <3>3. QED
      BY <2>12, <3>2
  <2>18. PrintedMembers' = MembersBelow(n) \cup Gone(n, 0, a)
    BY <2>9, <2>15, <2>17, MembersNow
  <2>19. /\ PrintedMembers = MembersBelow(n) \cup Gone(n, 0, o)
         /\ PrintedMembers' = MembersBelow(n) \cup Gone(n, 0, o + x.rec_len)
    BY <2>3, <2>10, <2>15, <2>18
  <2>24. /\ PrintedMembers = MembersBelow(n) \cup Gone(n, k, o)
         /\ PrintedMembers' = MembersBelow(n) \cup Gone(n, k, o + x.rec_len)
    BY <2>4, <2>19
  <2>20. csv' = IF x.inode = 0 THEN csv ELSE Append(csv, DirectoryEntry(n, o, x.inode, x.name))
    BY <1>4, <2>3, <2>7, <2>8, <2>15
  <2>21. n = inode_no /\ UNCHANGED inode_no /\ o \in Nat /\ x = EntryAt(b, o) /\ b = At(n).i_block[k] /\ b # 0
    BY <2>6, <2>15, <2>23
  <2>22. QED
    BY <1>1, <2>9, <2>16, <2>20, <2>21, <2>24, EntryListed, Zenon
<1>8. QED
  BY <1>6, <1>7


\* No pointer is an entry.
LEMMA NoEntryInTrees ==
    ASSUME image \in Images, NEW n \in Numbers, NEW s \in Seq(ScanLines)
    PROVE  OfKind(After(s, TreesOf(n)), "DIRENT") = OfKind(s, "DIRENT")
<1>1. PICK t \in Seq(ScanLines) : t = TreesOf(n)
  BY JoinsTrees
<1>2. AllOf(t, "INDIRECT")
  <2>1. t \in Seq(LinesFor(n))
    BY <1>1, TreesOfType
  <2>2. \A l \in ToSet(t) : l \in LinesFor(n)
    BY <2>1 DEF ToSet
  <2>3. \A l \in LinesFor(n) : l.line = "INDIRECT"
    <3>1. n \in Nat
      BY RootsAre
    <3>2. QED
      BY <3>1, LinesForAre
  <2>4. QED
    BY <2>2, <2>3 DEF AllOf
<1>3. OfKind(After(s, t), "DIRENT") = OfKind(s, "DIRENT")
  BY <1>2, OthersPrinted
<1>4. QED
  BY <1>1, <1>3

\* The inodes behind the root are as good as passed when lab3a_std leaves out the
\* reserved ones.
LEMMA ReservedPassed ==
    ASSUME ScanInv, Sound, program = "lab3a_std"
    PROVE  MembersBelow(sb.s_first_ino) = MembersBelow(3)
<1>1. PICK n \in Nat : n = sb.s_first_ino /\ n > 2
  BY SoundProceeds
<1>2. image \in Images
  BY SoundProceeds
<1>3. \A i \in 3 .. n - 1 : i \notin Directories
  <2>1. SUFFICES ASSUME NEW i \in 3 .. n - 1, i \in Directories PROVE FALSE
    OBVIOUS
  <2>2. InUse(At(i))
    BY <2>1 DEF Directories
  <2>3. i \in 1 .. sb.s_first_ino - 1
    BY <1>1
  <2>4. i = 2
    BY <2>2, <2>3 DEF Sound, Intact, InodesIntact
  <2>5. QED
    BY <2>4
<1>4. PICK m \in Nat : m = 3
  OBVIOUS
<1>5. m <= n /\ \A i \in m .. n - 1 : i \notin Directories
  BY <1>1, <1>3, <1>4
<1>6. MembersBelow(n) = MembersBelow(m)
  BY <1>2, <1>5, NoneSkipped
<1>7. QED
  BY <1>1, <1>4, <1>6

LEMMA TreesListed ==
    ASSUME ScanInv, DirInv, Sound, UNCHANGED Fixed, scan = "indirect", scan' = "inodes",
           csv' = After(csv, TreesOf(inode_no)),
           IF program = "lab3a" THEN inode_no' = inode_no + 1 ELSE inode_no' = NextInode(inode_no)
    PROVE  DirInv'
<1>1. Among /\ Within
  BY DEF Among, Within
<1>2. image \in Images /\ program \in Programs
  BY SoundProceeds
<1>3. PICK n \in Numbers : n = inode_no /\ n \in Nat
  BY <1>1, AtInode
<1>4. PICK s \in Seq(ScanLines) : s = csv
  BY <1>1, AtInode
<1>5. OfKind(After(s, TreesOf(n)), "DIRENT") = OfKind(s, "DIRENT")
  BY <1>2, NoEntryInTrees
<1>6. OfKind(csv', "DIRENT") = OfKind(csv, "DIRENT")
  BY <1>3, <1>4, <1>5
<1>7. PICK k : k = inode_no' /\ MembersBelow(k) = MembersBelow(n + 1)
  <2>1. CASE program = "lab3a"
    BY <1>3, <2>1
  <2>2. CASE program = "lab3a_std" /\ n # 2
    BY <1>3, <2>2 DEF NextInode
  <2>3. CASE program = "lab3a_std" /\ n = 2
    <3>1. inode_no' = sb.s_first_ino
      BY <1>1, <1>3, <2>3, AtInode DEF NextInode
    <3>2. n + 1 = 3
      BY <2>3
    <3>3. MembersBelow(sb.s_first_ino) = MembersBelow(3)
      BY <2>3, ReservedPassed
    <3>4. QED
      BY <3>1, <3>2, <3>3
  <2>4. QED
    BY <1>2, <2>1, <2>2, <2>3 DEF Programs
<1>8. PrintedMembers' = MembersBelow(k)
  BY <1>7, MembersNow
<1>9. Listed(OfKind(csv, "DIRENT"), MembersBelow(n + 1))
  BY <1>1, <1>3 DEF DirInv, PrintedMembers
<1>10. PICK t : t = OfKind(csv, "DIRENT")
  OBVIOUS
<1>11. PICK P : P = MembersBelow(k)
  OBVIOUS
<1>12. Listed(t, P) /\ OfKind(csv', "DIRENT") = t /\ PrintedMembers' = P /\ scan' # "directory"
  BY <1>6, <1>7, <1>8, <1>9, <1>10, <1>11
<1>13. QED
  BY <1>12, DirNow

\* The scan is done, or fails.
LEMMA EndListed ==
    ASSUME ScanInv, DirInv, Sound, UNCHANGED Fixed, Among, UNCHANGED <<csv, inode_no>>,
           scan' \in {"exit2", "crashed"} \/ (scan = "inodes" /\ scan' = "done")
    PROVE  DirInv'
<1>1. CASE scan' \in {"exit2", "crashed"}
  <2>1. ~Among'
    BY <1>1 DEF Among, Within
  <2>2. QED
    BY <2>1 DEF DirInv
<1>2. CASE scan = "inodes" /\ scan' = "done"
  <2>1. PICK n : n = inode_no /\ n = inode_no'
    OBVIOUS
  <2>2. PrintedMembers' = MembersBelow(n)
    BY <1>2, <2>1, MembersNow
  <2>3. PrintedMembers = MembersBelow(n)
    BY <1>2, <2>1 DEF PrintedMembers
  <2>4. PrintedMembers' = PrintedMembers
    BY <2>2, <2>3
  <2>5. scan' # "directory" /\ UNCHANGED csv
    BY <1>2
  <2>6. QED
    BY <2>4, <2>5, NothingListed
<1>3. QED
  BY <1>1, <1>2

\* Before the inodes, and when the scan has failed or has no end, nothing is said.
LEMMA NotAmong == ASSUME scan' \in {"groups", "bitmaps", "endless", "exit2", "crashed"} PROVE DirInv'
<1>1. ~Among'
  BY DEF Among, Within
<1>2. QED
  BY <1>1 DEF DirInv

LEMMA DirStutters == ASSUME DirInv, UNCHANGED scanVars PROVE DirInv'
<1>1. /\ UNCHANGED Fixed
      /\ UNCHANGED <<csv, image, program, scan, inode_no, cur_block, cur_entry, stack>>
  BY DEF scanVars, Fixed
<1>2. CASE ~(Sound /\ Among)
  <2>1. ~(Sound' /\ Among')
    BY <1>1, <1>2, SoundStays DEF Among, Within
  <2>2. QED
    BY <2>1 DEF DirInv
<1>3. CASE Sound /\ Among
  <2>1. PICK n : n = inode_no /\ n = inode_no'
    BY <1>1
  <2>2. image' = image /\ program' = program /\ Directories' = Directories /\ \A i : At(i)' = At(i)
    BY <1>1, DirectoriesStay
  <2>3. PICK a : a = At(inode_no) /\ a = At(inode_no)'
    BY <1>1, <2>2 DEF At
  <2>4. top' = top
    BY <1>1 DEF top
  <2>5. \A d, k, o : Gone(d, k, o)' = Gone(d, k, o)
    BY <1>1, MembersStay
  <2>6. PrintedMembers' = PrintedMembers
    BY <1>1, <2>4 DEF PrintedMembers, PrintedHere, MembersBelow, AllMembers, Gone, LiesBefore, Members,
                      Directories, At, Numbers, InUse, BlocksOfDirectory, EntryAt
  <2>7. DirPlace' <=> DirPlace
    BY <1>1, <2>2, <2>3 DEF DirPlace, AtEntry, InCall
  <2>8. scan' = "directory" => DirPlace'
    BY <1>1, <1>3, <2>7 DEF DirInv
  <2>9. QED
    BY <1>1, <1>3, <2>6, <2>8, NothingListed
<1>4. QED
  BY <1>2, <1>3


LEMMA Lab3aLists == ASSUME ScanInv, DirInv, Sound, Lab3a PROVE DirInv'
<1>1. program = "lab3a" /\ UNCHANGED Fixed /\ UNCHANGED stack
  BY DEF Lab3a, Fixed
<1>2. CASE Summary
  <2>1. scan' = "bitmaps"
    BY <1>2 DEF Summary
  <2>2. QED
    BY <2>1, NotAmong
<1>3. CASE FreeEntries
  <2>1. /\ scan = "bitmaps" /\ scan' = "inodes"
        /\ csv' = csv \o BFreeLines \o IFreeLines /\ inode_no' = inode_no
    BY <1>3 DEF FreeEntries, BFreeLines, IFreeLines
  <2>2. QED
    BY <1>1, <2>1, BitmapsListed
<1>4. CASE SkipInode
  <2>1. /\ scan = "inodes" /\ scan' = "inodes" /\ inode_no' = inode_no + 1 /\ UNCHANGED csv
        /\ ~InUse(inode)
    BY <1>4 DEF SkipInode
  <2>2. Among
    BY <2>1 DEF Among
  <2>3. ~Scanned(inode_no)
    BY <1>1, <2>1, <2>2, AtInode DEF Scanned
  <2>4. QED
    BY <1>1, <2>1, <2>3, SkipListed
<1>5. CASE InodeSummary
  BY <1>1, <1>5, InodeSummaryListed
<1>6. CASE ReadEntry
  BY <1>1, <1>6, ReadEntryListed
<1>7. CASE NextBlock
  BY <1>1, <1>7, NextBlockListed
<1>8. CASE EndDirectory
  BY <1>1, <1>8, EndDirectoryListed
<1>9. CASE IndirectBlocks
  <2>1. /\ scan = "indirect" /\ scan' = "inodes" /\ inode_no' = inode_no + 1
        /\ csv' = After(csv, TreesOf(inode_no))
    BY <1>1, <1>9, IndirectBlocksPrint
  <2>2. QED
    BY <1>1, <2>1, TreesListed
<1>10. CASE AllInodes
  <2>1. scan = "inodes" /\ scan' = "done" /\ UNCHANGED <<csv, inode_no>>
    BY <1>10 DEF AllInodes
  <2>2. Among
    BY <2>1 DEF Among
  <2>3. QED
    BY <1>1, <2>1, <2>2, EndListed
<1>11. QED
  BY <1>2, <1>3, <1>4, <1>5, <1>6, <1>7, <1>8, <1>9, <1>10 DEF Lab3a

LEMMA Lab3aStdLists == ASSUME ScanInv, DirInv, Sound, Lab3aStd PROVE DirInv'
<1>1. program = "lab3a_std" /\ program # "lab3a" /\ UNCHANGED Fixed /\ UNCHANGED <<cur_block, cur_entry>>
  BY DEF Lab3aStd, Fixed
<1>2. CASE scan_sb \/ scan_groups
  <2>1. scan' \in {"groups", "bitmaps", "exit2"}
    BY <1>2 DEF scan_sb, scan_groups
  <2>2. QED
    BY <2>1, NotAmong
<1>3. CASE scan_bitmaps
  <2>1. /\ scan = "bitmaps" /\ scan' = "inodes"
        /\ csv' = csv \o BFreeLines \o IFreeLines /\ inode_no' = 2
    BY <1>3 DEF scan_bitmaps, BFreeLines, IFreeLines
  <2>2. QED
    BY <1>1, <2>1, BitmapsListed
<1>4. CASE SkipFree
  <2>1. /\ scan = "inodes" /\ scan' \in {"inodes", "endless"} /\ inode_no' = inode_no + 1
        /\ UNCHANGED csv /\ inode_no - 1 \notin image.inode_bitmap
    BY <1>4 DEF SkipFree, GoOn
  <2>2. ~Scanned(inode_no)
    BY <1>1, <2>1 DEF Scanned
  <2>3. scan' = "endless" => DirInv'
    BY NotAmong
  <2>4. scan' = "inodes" => DirInv'
    BY <1>1, <2>1, <2>2, SkipListed
  <2>5. QED
    BY <2>1, <2>3, <2>4
<1>5. CASE PrintInode
  BY <1>1, <1>5, PrintInodeListed
<1>6. CASE ReadDirEntry
  BY <1>1, <1>6, ReadDirEntryListed
<1>7. CASE NextPointer
  BY <1>1, <1>7, NextPointerListed
<1>8. CASE ReturnFromCall
  BY <1>1, <1>8, ReturnFromCallListed
<1>9. CASE ScanIndirects
  <2>1. /\ scan = "indirect" /\ scan' \in {"inodes", "endless"} /\ inode_no' = NextInode(inode_no)
        /\ csv' = After(csv, TreesOf(inode_no))
    BY <1>1, <1>9, ScanIndirectsPrint DEF GoOn
  <2>2. scan' = "endless" => DirInv'
    BY NotAmong
  <2>3. scan' = "inodes" => DirInv'
    BY <1>1, <2>1, TreesListed
  <2>4. QED
    BY <2>1, <2>2, <2>3
<1>10. CASE free_all \/ CorruptedBitmap \/ ReadBeyond
  <2>1. Among /\ UNCHANGED <<csv, inode_no>>
    BY <1>10 DEF free_all, CorruptedBitmap, ReadBeyond, Among, Within
  <2>2. scan' \in {"exit2", "crashed"} \/ (scan = "inodes" /\ scan' = "done")
    BY <1>10 DEF free_all, CorruptedBitmap, ReadBeyond
  <2>3. QED
    BY <1>1, <2>1, <2>2, EndListed
<1>11. QED
  BY <1>2, <1>3, <1>4, <1>5, <1>6, <1>7, <1>8, <1>9, <1>10 DEF Lab3aStd

LEMMA DirBegins == Init => DirInv
<1>1. Init => ~Among
  BY DEF Init, ScanInit, Among, Within
<1>2. QED
  BY <1>1 DEF DirInv

LEMMA DirKeeps == ScanInv /\ DirInv /\ [Next]_vars => DirInv'
<1>1. SUFFICES ASSUME ScanInv, DirInv, [Next]_vars PROVE DirInv'
  OBVIOUS
<1>2. UNCHANGED Fixed
  BY <1>1 DEF Next, Lab3a, Lab3aStd, vars, scanVars, Fixed
<1>3. CASE ~Sound
  <2>1. ~Sound'
    BY <1>2, <1>3, SoundStays
  <2>2. QED
    BY <2>1 DEF DirInv
<1>4. CASE Sound
  <2>1. CASE Lab3a
    BY <1>1, <1>4, <2>1, Lab3aLists
  <2>2. CASE Lab3aStd
    BY <1>1, <1>4, <2>2, Lab3aStdLists
  <2>3. CASE Audit /\ UNCHANGED <<image, program, scan, inode_no, cur_block, cur_entry, stack>>
    <3>1. UNCHANGED scanVars
      BY <2>3 DEF Audit, scanVars
    <3>2. QED
      BY <1>1, <3>1, DirStutters
  <2>4. CASE UNCHANGED vars
    BY <1>1, <2>4, DirStutters DEF vars
  <2>5. QED
    BY <1>1, <2>1, <2>2, <2>3, <2>4 DEF Next
<1>5. QED
  BY <1>3, <1>4

\* While a sound image is scanned there is a line for each entry of the
\* directories up to where the scan is, and one only: nothing is printed twice
\* when a directory goes on in another block, and nothing left out.
THEOREM EntriesPrinted == Spec => []DirInv
<1>1. QED
  BY ScanPrints, DirBegins, DirKeeps, PTL DEF Spec


-----------------------------------------------------------------------------
(* Of a sound image the directories are consistent, and a tree.            *)

LEMMA EntriesRead ==
    ASSUME Audited, Sound, DirInv
    PROVE  Listed(my_dir, AllMembers) /\ IsFiniteSet(DOMAIN my_dir)
<1>1. scan = "done" /\ Among /\ ReadInv /\ audit # "parse" /\ Readable /\ ScanInv
  BY AuditedIs DEF Audited, Among
<1>2. my_dir = OfKind(csv, "DIRENT")
  BY <1>1, LinesOfCsv DEF ReadInv
<1>3. image \in Images /\ csv \in Seq(ScanLines) /\ Proceeds /\ program \in Programs
  BY <1>1, AtInode, SoundProceeds
<1>4. PICK n \in Nat : n = inode_no
  BY <1>1, AtInode
<1>5. PICK c \in Nat : c = sb.s_inodes_count /\ Numbers = 1 .. c
  BY <1>1, AtInode
<1>6. n > c - (IF program = "lab3a" THEN 0 ELSE 1)
  BY <1>1, <1>3, <1>4, <1>5, AtInode DEF Place
<1>7. ASSUME NEW d \in Directories PROVE d < n
  <2>1. d \in 1 .. c /\ InUse(At(d))
    BY <1>5 DEF Directories
  <2>2. program = "lab3a_std" => d # c
    BY <1>5, <2>1 DEF Sound, WithinStd
  <2>3. QED
    BY <1>3, <1>6, <2>1, <2>2 DEF Programs
<1>8. \A m : m \in AllMembers <=> \E d \in Directories : m \in Members(d)
  BY DEF AllMembers
<1>9. \A m : m \in MembersBelow(n) <=> \E d \in Directories : m \in Members(d) /\ d < n
  BY <1>3, MemberBelow
<1>10. \A m : m \in MembersBelow(n) <=> m \in AllMembers
  BY <1>7, <1>8, <1>9
<1>11. MembersBelow(n) \subseteq AllMembers /\ AllMembers \subseteq MembersBelow(n)
  BY <1>10
<1>12. MembersBelow(n) = AllMembers
  BY <1>11
<1>13. PrintedMembers = MembersBelow(n)
  BY <1>1, <1>4 DEF PrintedMembers
<1>14. Listed(OfKind(csv, "DIRENT"), PrintedMembers)
  BY <1>1 DEF DirInv
<1>15. Listed(my_dir, AllMembers)
  BY <1>2, <1>12, <1>13, <1>14
<1>16. IsFiniteSet(DOMAIN my_dir)
  <2>1. my_dir \in Seq(ScanLines)
    BY <1>2, <1>3, OfKindType
  <2>2. PICK s \in Seq(ScanLines) : s = my_dir
    BY <2>1
  <2>3. Len(s) \in Nat /\ 1 \in Int
    OBVIOUS
  <2>4. DOMAIN s = 1 .. Len(s)
    OBVIOUS
  <2>5. PICK k \in Int : k = Len(s)
    BY <2>3
  <2>6. IsFiniteSet(1 .. k)
    <3>1. 1 \in Int
      OBVIOUS
    <3>2. QED
      BY <3>1, FS_Interval, Zenon
  <2>7. QED
    BY <2>2, <2>4, <2>5, <2>6
<1>17. QED
  BY <1>15, <1>16

\* Lines that describe the members of a set are as many as these.
LEMMA CountedByLines ==
    ASSUME NEW s, NEW P, NEW w, Describing(s, P, w), IsFiniteSet(DOMAIN s),
           NEW K \in SUBSET DOMAIN s, NEW Q \in SUBSET P,
           \A i \in DOMAIN s : i \in K <=> w[i] \in Q
    PROVE  /\ IsFiniteSet(K) /\ IsFiniteSet(Q) /\ Cardinality(Q) = Cardinality(K)
<1>1. IsFiniteSet(K)
  BY FS_Subset
<1>2. PICK v : v = [i \in K |-> w[i]]
  OBVIOUS
<1>3. /\ \A i, j \in DOMAIN s : w[i] = w[j] => i = j
      /\ \A m \in P : \E i \in DOMAIN s : w[i] = m
  BY DEF Describing
<1>4. v \in [K -> Q]
  BY <1>2
<1>5. \A i, j \in K : v[i] = v[j] => i = j
  BY <1>2, <1>3
<1>6. \A m \in Q : \E i \in K : v[i] = m
  BY <1>2, <1>3
<1>7. v \in Injection(K, Q)
  BY <1>4, <1>5 DEF Injection, IsInjective
<1>8. v \in Surjection(K, Q)
  BY <1>4, <1>6 DEF Surjection
<1>9. ExistsBijection(K, Q)
  BY <1>7, <1>8 DEF ExistsBijection, Bijection
<1>10. QED
  BY <1>1, <1>9, FS_Bijection

\* What a line says of the member that it describes.
LEMMA EntrySays ==
    ASSUME Audited, Sound, NEW w, Describing(my_dir, AllMembers, w), NEW i \in DOMAIN my_dir
    PROVE  /\ w[i] \in AllMembers
           /\ my_dir[i].parent_inode = w[i][1]
           /\ my_dir[i].entry_reference_inode = Target(w[i])
           /\ \A name : my_dir[i].entry_name = name <=> w[i] \in Named(name)
           /\ w[i][1] \in Directories
           /\ my_dir[i].entry_name \in {".", "..", "name"}
<1>1. PICK m : m = w[i] /\ m \in AllMembers
  BY DEF Describing
<1>2. Describes(my_dir[i], m)
  BY <1>1 DEF Describing
<1>3. image \in Images
  BY AuditedIs
<1>4. PICK d \in Directories : m \in Members(d)
  BY <1>1 DEF AllMembers
<1>5. m[1] = d
  BY <1>3, <1>4, MemberBelow
<1>6. EntryAt(m[2], m[3]).name \in {".", "..", "name"}
  <2>1. PICK b \in DOMAIN image.entries : \E o \in DOMAIN image.entries[b] : m = <<d, b, o>>
    BY <1>4 DEF Members
  <2>2. PICK o \in DOMAIN image.entries[b] : m = <<d, b, o>>
    BY <2>1
  <2>3. EntryAt(b, o) \in ext2_dir_entry
    BY <1>3, <2>2, EntriesType DEF EntryAt
  <2>4. m[2] = b /\ m[3] = o
    BY <2>2
  <2>5. QED
    BY <2>3, <2>4 DEF ext2_dir_entry
<1>7. /\ my_dir[i].parent_inode = m[1]
      /\ my_dir[i].entry_reference_inode = Target(m)
      /\ my_dir[i].entry_name = EntryAt(m[2], m[3]).name
  BY <1>2 DEF Describes, Target
<1>8. \A name : my_dir[i].entry_name = name <=> m \in Named(name)
  BY <1>1, <1>7 DEF Named
<1>9. QED
  BY <1>1, <1>4, <1>5, <1>6, <1>7, <1>8


NamedIn(n) == {m \in Named("name") : Target(m) = n}
LinkedIn(n) == {m \in AllMembers : Target(m) = n}

\* A directory is named once, the root is not.
LEMMA NamingIs ==
    ASSUME Audited, Sound, NEW w, Describing(my_dir, AllMembers, w), IsFiniteSet(DOMAIN my_dir),
           NEW d \in Directories
    PROVE  /\ \A j, k \in Naming(d) : j = k
           /\ \A m \in NamedIn(d) : \E k \in Naming(d) : w[k] = m
<1>1. \A i \in DOMAIN my_dir : i \in Naming(d) <=> w[i] \in NamedIn(d)
  <2>1. SUFFICES ASSUME NEW i \in DOMAIN my_dir PROVE i \in Naming(d) <=> w[i] \in NamedIn(d)
    OBVIOUS
  <2>2. /\ my_dir[i].entry_reference_inode = Target(w[i])
        /\ my_dir[i].entry_name = "name" <=> w[i] \in Named("name")
        /\ my_dir[i].entry_name \in {".", "..", "name"}
    BY EntrySays
  <2>3. i \in Naming(d) <=> my_dir[i].entry_reference_inode = d /\ my_dir[i].entry_name = "name"
    BY <2>2 DEF Naming
  <2>4. QED
    BY <2>2, <2>3 DEF NamedIn
<1>2. PICK K \in SUBSET DOMAIN my_dir : K = Naming(d)
  BY DEF Naming
<1>3. PICK Q \in SUBSET AllMembers : Q = NamedIn(d)
  BY DEF NamedIn, Named
<1>4. \A i \in DOMAIN my_dir : i \in K <=> w[i] \in Q
  BY <1>1, <1>2, <1>3
<1>5. IsFiniteSet(K) /\ IsFiniteSet(Q) /\ Cardinality(Q) = Cardinality(K)
  BY <1>4, CountedByLines
<1>6. Cardinality(Q) = IF d = 2 THEN 0 ELSE 1
  <2>1. DirectoryIntact(d)
    BY DEF Sound, Intact, DirectoriesIntact
  <2>2. Cardinality({m \in Named("name") : Target(m) = d}) = IF d = 2 THEN 0 ELSE 1
    BY <2>1 DEF DirectoryIntact
  <2>3. QED
    BY <1>3, <2>2 DEF NamedIn
<1>7. \A j, k \in K : j = k
  <2>1. CASE d = 2
    <3>1. K = {}
      BY <1>5, <1>6, <2>1, FS_EmptySet
    <3>2. QED
      BY <3>1
  <2>2. CASE d # 2
    <3>1. PICK x : K = {x}
      BY <1>5, <1>6, <2>2, FS_Singleton
    <3>2. QED
      BY <3>1
  <2>3. QED
    BY <2>1, <2>2
<1>8. \A m \in Q : \E k \in K : w[k] = m
  <2>1. SUFFICES ASSUME NEW m \in Q PROVE \E k \in K : w[k] = m
    OBVIOUS
  <2>2. PICK k \in DOMAIN my_dir : w[k] = m
    BY DEF Describing
  <2>3. k \in K
    BY <1>4, <2>2
  <2>4. QED
    BY <2>2, <2>3
<1>9. QED
  BY <1>2, <1>3, <1>7, <1>8

LEMMA SoundTree == ASSUME Audited, Sound, DirInv PROVE Tree
<1>1. Listed(my_dir, AllMembers) /\ IsFiniteSet(DOMAIN my_dir)
  BY EntriesRead
<1>2. PICK w : Describing(my_dir, AllMembers, w)
  BY <1>1 DEF Listed
<1>3. SUFFICES ASSUME NEW e \in ToSet(my_dir) PROVE \A j, k \in Naming(e.parent_inode) : j = k
  BY DEF Tree
<1>4. PICK i \in DOMAIN my_dir : e = my_dir[i]
  BY DEF ToSet
<1>5. PICK d \in Directories : d = my_dir[i].parent_inode
  BY <1>2, EntrySays
<1>6. QED
  BY <1>1, <1>2, <1>4, <1>5, NamingIs

LEMMA SoundDirectories == ASSUME Audited, Sound, DirInv PROVE DirectoriesConsistent({})
<1>1. Listed(my_dir, AllMembers) /\ IsFiniteSet(DOMAIN my_dir)
  BY EntriesRead
<1>2. PICK w : Describing(my_dir, AllMembers, w)
  BY <1>1 DEF Listed
<1>3. DirectoriesIntact
  BY DEF Sound, Intact
<1>4. ASSUME NEW e \in ToSet(my_dir)
      PROVE  /\ e.entry_reference_inode \in Used
             /\ e.entry_name = "." => e.entry_reference_inode = e.parent_inode
             /\ e.entry_name = ".." =>
                   IF e.parent_inode = 2 THEN e.entry_reference_inode = 2
                   ELSE \E k \in Naming(e.parent_inode) :
                           my_dir[k].parent_inode = e.entry_reference_inode
  <2>1. PICK i \in DOMAIN my_dir : e = my_dir[i]
    BY <1>4 DEF ToSet
  <2>2. PICK m \in AllMembers : m = w[i]
    BY <1>2, EntrySays
  <2>3. /\ e.parent_inode = m[1] /\ e.entry_reference_inode = Target(m) /\ m[1] \in Directories
        /\ \A name : e.entry_name = name <=> m \in Named(name)
    BY <1>2, <2>1, <2>2, EntrySays
  <2>4. e.entry_reference_inode \in Used
    <3>1. Target(m) \in Numbers /\ InUse(At(Target(m)))
      BY <1>3 DEF DirectoriesIntact
    <3>2. QED
      BY <2>3, <3>1, UsedRead
  <2>5. e.entry_name = "." => e.entry_reference_inode = e.parent_inode
    BY <1>3, <2>3 DEF DirectoriesIntact
  <2>6. ASSUME e.entry_name = ".."
        PROVE  IF e.parent_inode = 2 THEN e.entry_reference_inode = 2
               ELSE \E k \in Naming(e.parent_inode) : my_dir[k].parent_inode = e.entry_reference_inode
    <3>1. m \in Named("..")
      BY <2>3, <2>6
    <3>2. IF m[1] = 2 THEN Target(m) = 2
          ELSE \E q \in Named("name") : q[1] = Target(m) /\ Target(q) = m[1]
      BY <1>3, <3>1 DEF DirectoriesIntact
    <3>3. CASE m[1] = 2
      BY <2>3, <3>2, <3>3
    <3>4. CASE m[1] # 2
      <4>1. PICK q \in Named("name") : q[1] = Target(m) /\ Target(q) = m[1]
        BY <3>2, <3>4
      <4>2. PICK d \in Directories : d = m[1]
        BY <2>3
      <4>3. q \in NamedIn(d)
        BY <4>1, <4>2 DEF NamedIn
      <4>4. PICK k \in Naming(d) : w[k] = q
        BY <1>1, <1>2, <4>3, NamingIs
      <4>5. k \in DOMAIN my_dir
        BY DEF Naming
      <4>6. my_dir[k].parent_inode = q[1]
        BY <1>2, <4>4, <4>5, EntrySays
      <4>7. QED
        BY <2>3, <3>4, <4>1, <4>2, <4>4, <4>6
    <3>5. QED
      BY <3>3, <3>4
  <2>7. QED
    BY <2>4, <2>5, <2>6
<1>5. ASSUME NEW l \in ToSet(my_inode)
      PROVE  l.linkage_counts =
                 Cardinality({k \in DOMAIN my_dir : my_dir[k].entry_reference_inode = l.inode_number})
  <2>1. PICK j \in DOMAIN my_inode : l = my_inode[j]
    BY <1>5 DEF ToSet
  <2>2. PICK n \in Numbers : InUse(At(n)) /\ l = LineOf(n)
    BY <2>1, InodeRead
  <2>3. l.linkage_counts = At(n).i_links_count /\ l.inode_number = n
    BY <2>2, AuditedIs, LineOfIs
  <2>4. PICK Q \in SUBSET AllMembers : Q = LinkedIn(n)
    BY DEF LinkedIn
  <2>5. At(n).i_links_count = Cardinality(Q)
    <3>1. At(n).i_links_count = Cardinality({m \in AllMembers : Target(m) = n})
      BY <1>3, <2>2 DEF DirectoriesIntact
    <3>2. QED
      BY <2>4, <3>1 DEF LinkedIn
  <2>6. PICK K \in SUBSET DOMAIN my_dir :
            K = {k \in DOMAIN my_dir : my_dir[k].entry_reference_inode = n}
    OBVIOUS
  <2>7. ASSUME NEW i \in DOMAIN my_dir PROVE i \in K <=> w[i] \in Q
    <3>1. w[i] \in AllMembers /\ my_dir[i].entry_reference_inode = Target(w[i])
      BY <1>2, EntrySays
    <3>2. QED
      BY <2>4, <2>6, <3>1 DEF LinkedIn
  <2>8. Cardinality(Q) = Cardinality(K)
    BY <1>1, <1>2, <2>7, CountedByLines
  <2>9. QED
    BY <2>3, <2>5, <2>6, <2>8
<1>6. QED
  BY <1>4, <1>5 DEF DirectoriesConsistent

LEMMA SoundHolds == ASSUME FileInv, ReadInv, DirInv PROVE IntactIsSilent
<1>1. SUFFICES ASSUME AuditEnded, Sound PROVE Silent
  BY DEF IntactIsSilent, Sound
<1>2. audit # "parse"
  BY <1>1 DEF AuditEnded
<1>3. scan = "done"
  BY <1>1, NotYetAudited DEF FileInv
<1>4. Audited /\ Lone
  BY <1>1, <1>2, <1>3, SoundIsAudited
<1>5. BlocksConsistent(my_sp.num_blocks - 1)
  BY <1>1, <1>4, SoundBlocks DEF Sound
<1>6. InodesConsistent({})
  BY <1>1, <1>4, SoundInodes DEF Sound
<1>7. DirectoriesConsistent({}) /\ Tree
  BY <1>1, <1>4, SoundDirectories, SoundTree
<1>8. Consistent(my_sp.num_blocks - 1, {})
  BY <1>5, <1>6, <1>7 DEF Consistent
<1>9. AuditInv /\ Readable
  BY <1>4, AuditedIs
<1>10. SilentIffConsistent
  BY <1>9, SilenceSays
<1>11. QED
  BY <1>1, <1>7, <1>8, <1>9, <1>10 DEF SilentIffConsistent, Silent

\* The audit keeps silent on every sound image, of any size, that either program
\* has scanned to the end; and when it keeps silent after lab3a, the blocks in use
\* are those referred to, each of them once.
THEOREM AuditIsFaithful == Spec => []AuditFaithful
<1>1. Init => ReadInv
  BY DEF Init, AuditInit, ReadInv
<1>2. FileInv /\ ReadInv /\ DirInv => AuditFaithful
  BY SoundHolds, SilenceHolds DEF AuditFaithful
<1>3. QED
  BY <1>1, <1>2, FileReads, FileInvariant, EntriesPrinted, PTL DEF Spec

=============================================================================
