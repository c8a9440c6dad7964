-------------------------------- MODULE Ext2 --------------------------------
(***************************************************************************)
(* The two projects together: an image is scanned by lab3a or by           *)
(* lab3a_std, and when that succeeds lab3b audits what was printed.        *)
(***************************************************************************)
EXTENDS Lab3a, Lab3aStd, Lab3b

vars == <<scanVars, auditVars>>

Init == ScanInit /\ AuditInit

Next ==
    \/ Lab3a /\ UNCHANGED auditVars
    \/ Lab3aStd /\ UNCHANGED auditVars
    \/ /\ scan = "done"
       /\ Audit
       /\ UNCHANGED <<image, program, scan, inode_no, cur_block, cur_entry, stack>>

Spec == Init /\ [][Next]_vars

\* The programs run.
FairSpec == Spec /\ WF_vars(Next)

-----------------------------------------------------------------------------
(* What the image says, whatever is printed.                               *)

Numbers == DOMAIN image.inodes
At(n) == image.inodes[n]
Walked(n) == At(n).i_mode \in {"reg", "dir"}
Text(n) == At(n).i_mode = "lnk" /\ At(n).i_size < 60

\* The pointers in a block, the offsets that they stand for in the file, and
\* whether no pointer is before them on the way from the root.
Below(block, level, offset, first) ==
    LET P == Pointers(block)
    IN  {[level |-> level, block |-> block, slot |-> k, reference |-> P[k],
          offset |-> offset + (k - 1) * Span(level),
          first |-> /\ first
                    /\ \/ program = "lab3a" /\ level = 1
                       \/ \A j \in 1 .. k - 1 : P[j] = 0] :
             k \in {i \in DOMAIN P : P[i] # 0}}

Deeper(found) ==
    UNION {Below(p.reference, p.level - 1, p.offset, p.first) : p \in {q \in found : q.level > 1}}

PointersUnder(root, level, offset) ==
    LET one == IF root = 0 THEN {} ELSE Below(root, level, offset, TRUE)
        two == Deeper(one)
    IN  one \cup two \cup Deeper(two)

PointersOf(n) == PointersUnder(At(n).i_block[12], 1, 12)
                 \cup PointersUnder(At(n).i_block[13], 2, 268)
                 \cup PointersUnder(At(n).i_block[14], 3, 65804)

\* Who refers to which block, and from where.
Mentions ==
    UNION {(IF Text(n) THEN {}
            ELSE {<<n, -1, k, At(n).i_block[k]>> : k \in {i \in 0 .. 14 : At(n).i_block[i] # 0}})
           \cup (IF Walked(n) THEN {<<n, p.block, p.slot, p.reference>> : p \in PointersOf(n)} ELSE {})
             : n \in {m \in Numbers : InUse(At(m))}}

DataBlocks == image.group.bg_inode_table
              + (sb.s_inode_size * sb.s_inodes_count) \div block_size .. sb.s_blocks_count - 1

\* A block is allocated exactly when there is one reference to it.
BlocksIntact ==
    \A b \in DataBlocks :
        LET M == {m \in Mentions : m[4] = b}
        IN  IF b - 1 \in image.block_bitmap THEN \E m \in M : M = {m} ELSE M = {}

\* A symbolic link has blocks exactly when it is not short.
LinksIntact ==
    \A n \in Numbers : At(n).i_mode = "lnk" => (At(n).i_blocks = 0 <=> At(n).i_size < 60)

\* The root is among the reserved inodes, and each inode has its bit.
InodesIntact ==
    /\ sb.s_first_ino > 2 /\ sb.s_inodes_count <= BitmapBits
    /\ \A n \in Numbers : n = 2 \/ n >= sb.s_first_ino =>
          (InUse(At(n)) <=> n - 1 \in image.inode_bitmap)
    /\ \A n \in 1 .. sb.s_first_ino - 1 : n - 1 \in image.inode_bitmap /\ (InUse(At(n)) => n = 2)
    /\ LinksIntact
    /\ \A n \in Numbers : Walked(n) \/ Text(n) \/ PointersOf(n) = {}

Directories == {n \in Numbers : InUse(At(n)) /\ At(n).i_mode = "dir"}
BlocksOfDirectory(d) == {At(d).i_block[k] : k \in 0 .. EXT2_NDIR_BLOCKS - 1} \ {0}

\* The entries follow each other from the beginning to the end of the block, none
\* begins within another, and each has room for its 8 bytes before the name.
Chained(entries) ==
    /\ 0 \in DOMAIN entries
    /\ \A o \in DOMAIN entries :
          /\ entries[o].file_type # 0 /\ entries[o].rec_len >= 8
          /\ o + entries[o].rec_len \in DOMAIN entries \cup {block_size}
          /\ \A q \in DOMAIN entries : q <= o \/ q >= o + entries[o].rec_len

Members(d) ==
    {m \in UNION {{<<d, b, o>> : o \in DOMAIN image.entries[b]} :
                   b \in BlocksOfDirectory(d) \cap DOMAIN image.entries} :
        EntryAt(m[2], m[3]).inode # 0}

AllMembers == UNION {Members(d) : d \in Directories}
Target(m) == EntryAt(m[2], m[3]).inode
Named(name) == {m \in AllMembers : EntryAt(m[2], m[3]).name = name}

\* A directory has direct blocks only, one after the other, and one name.
DirectoryIntact(d) ==
    /\ BlocksOfDirectory(d) \subseteq DOMAIN image.entries
    /\ \A b \in BlocksOfDirectory(d) : Chained(image.entries[b])
    /\ \A k \in 0 .. 14 :
          At(d).i_block[k] # 0 => k < 12 /\ \A j \in 0 .. k : At(d).i_block[j] # 0
    /\ At(d).i_size = block_size * Cardinality(BlocksOfDirectory(d))
    /\ Cardinality({m \in Named("name") : Target(m) = d}) = IF d = 2 THEN 0 ELSE 1

DirectoriesIntact ==
    /\ \A d \in Directories : DirectoryIntact(d)
    /\ \A m \in AllMembers : Target(m) \in Numbers /\ InUse(At(Target(m)))
    /\ \A m \in Named(".") : Target(m) = m[1]
    /\ \A m \in Named("..") :
          IF m[1] = 2 THEN Target(m) = 2
          ELSE \E q \in Named("name") : q[1] = Target(m) /\ Target(q) = m[1]
    /\ \A n \in Numbers : InUse(At(n)) =>
          At(n).i_links_count = Cardinality({m \in AllMembers : Target(m) = n})

\* lab3a takes block 0 for an indirect block where there is none.
BootBlockEmpty == \A k \in DOMAIN Pointers(0) : Pointers(0)[k] = 0

Intact ==
    /\ BlocksIntact /\ InodesIntact /\ DirectoriesIntact
    /\ {m[4] : m \in Mentions} \subseteq DataBlocks /\ 0 \notin DataBlocks
    /\ BootBlockEmpty /\ sb.s_magic

\* What lab3a_std can read without leaving its buffer, leaving out an inode, or
\* taking the text of a symbolic link for pointers.
WithinStd ==
    /\ ~InUse(At(sb.s_inodes_count))
    /\ \A d \in Directories : At(d).i_size = block_size
    /\ \A n \in Numbers : Text(n) => PointersOf(n) = {}

-----------------------------------------------------------------------------
(* Properties.                                                             *)

Described(kind) == {l \in ToSet(csv) : l.line = kind}

\* The INDIRECT lines of an inode are exactly the pointers in its trees, however
\* deep and with whatever gaps.  Their offsets are never too large, and right for
\* those that no other pointer comes before.
IndirectRight ==
    scan = "done" /\ (program = "lab3a" => BootBlockEmpty) =>
        \A n \in {l.inode_number : l \in Described("INODE")} : Walked(n) =>
            LET lines == {l \in Described("INDIRECT") : l.parent_inode_number = n}
                SamePlace(l, p) == /\ l.level = p.level /\ l.block_number = p.block
                                   /\ l.reference_number = p.reference
            IN  /\ \A l \in lines : \E p \in PointersOf(n) :
                      SamePlace(l, p) /\ l.logical_offset <= p.offset
                /\ \A p \in PointersOf(n) : \E l \in lines :
                      SamePlace(l, p) /\ (p.first => l.logical_offset = p.offset)

Silent == audit = "exit0" /\ printed = <<>>

\* Nothing is complained of on an intact image.
IntactIsSilent ==
    AuditEnded /\ Intact /\ (program = "lab3a_std" => WithinStd) => Silent

\* When nothing is complained of after lab3a, every block in use is referred to
\* once and no free one is.
SilentIsIntact ==
    AuditEnded /\ Silent /\ program = "lab3a" /\ BootBlockEmpty /\ LinksIntact => BlocksIntact

\* What the two projects promise together of an image.
AuditFaithful == IntactIsSilent /\ SilentIsIntact

\* lab3a_std goes on from the root, in use, at an inode of these.
RootLeadsTo(numbers) ==
    /\ program = "lab3a_std" /\ 1 \in image.inode_bitmap
    /\ sb.s_inodes_count > 2 /\ sb.s_first_ino \in numbers

LengthZero ==
    \/ \E b \in DOMAIN image.entries : \E o \in DOMAIN image.entries[b] :
          image.entries[b][o].rec_len = 0
    \/ \E e \in Beyond : e.rec_len = 0

\* Whatever the image, the audit comes to its end, or the scan before it.  Only
\* lab3a_std exits with 2: on what is no ext2 file system, and on an inode that
\* has no bit, one behind the bitmap or number 0; and only it crashes.  The scan
\* goes on for ever only over an entry of length 0, or when an s_first_ino of 1 or
\* 2 leads lab3a_std from the root back to the root.
ScanEnds ==
    <>(\/ AuditEnded
       \/ /\ scan = "exit2" /\ program = "lab3a_std"
          /\ ~sb.s_magic \/ sb.s_inodes_count > BitmapBits + 1 \/ RootLeadsTo({0})
       \/ scan = "crashed" /\ program = "lab3a_std"
       \/ scan = "endless" /\ (LengthZero \/ RootLeadsTo({1, 2})))

=============================================================================
