----------------------------- MODULE Ext2Image -----------------------------
(***************************************************************************)
(* An ext2 image of one group with blocks of 1024 bytes, as lab3a and      *)
(* lab3a_std see it through the structures of ext2_fs.h, and the state     *)
(* that both programs have while they scan it.                             *)
(***************************************************************************)
EXTENDS Lab3Csv, FiniteSets

CONSTANTS
    BitmapBits,   \* 8 * block_size in the program: the bits of a bitmap
    Images        \* the images to be scanned

block_size == 1024   \* s_log_block_size is 0

EXT2_NDIR_BLOCKS == 12
EXT2_IND_BLOCK == EXT2_NDIR_BLOCKS
EXT2_DIND_BLOCK == EXT2_IND_BLOCK + 1
EXT2_TIND_BLOCK == EXT2_DIND_BLOCK + 1
EXT2_N_BLOCKS == EXT2_TIND_BLOCK + 1

ext2_super_block ==
    [s_blocks_count : Nat, s_inodes_count : Nat, s_inode_size : Nat,
     s_blocks_per_group : Nat \ {0}, s_inodes_per_group : Nat \ {0}, s_first_ino : Nat,
     s_magic : BOOLEAN]

ext2_group_desc == [bg_inode_table : Nat]

\* "none" is an i_mode of 0, "other" what is no file, directory or symbolic link.
ext2_inode ==
    [i_mode : {"none", "reg", "dir", "lnk", "other"}, i_size : Nat, i_links_count : Nat,
     i_blocks : Nat, i_block : [0 .. EXT2_N_BLOCKS - 1 -> Nat]]

ext2_dir_entry ==
    [inode : Nat, rec_len : Nat, file_type : {0, 1}, name : {".", "..", "name"}]

ASSUME BitmapAssumption == BitmapBits \in Nat

\* There is one group, and a bit for each of its blocks.  Bitmaps are their set
\* bits.  A block is known as a block of pointers, of which only the first are
\* given, or as one of directory entries at their offsets.
ASSUME ImagesAssumption ==
    \A i \in Images :
        /\ i.super \in ext2_super_block /\ i.group \in ext2_group_desc
        /\ i.super.s_blocks_count \in 1 .. i.super.s_blocks_per_group
        /\ i.super.s_blocks_count <= BitmapBits
        /\ i.super.s_inodes_count \in 1 .. i.super.s_inodes_per_group
        /\ i.block_bitmap \subseteq 0 .. BitmapBits - 1
        /\ i.inode_bitmap \subseteq 0 .. BitmapBits - 1
        /\ DOMAIN i.inodes = 1 .. i.super.s_inodes_count
        /\ \A n \in DOMAIN i.inodes : i.inodes[n] \in ext2_inode
        /\ \A b \in DOMAIN i.pointers : i.pointers[b] \in Seq(Nat)
        /\ \A b \in DOMAIN i.entries : \A o \in DOMAIN i.entries[b] :
              o \in 0 .. block_size - 1 /\ i.entries[b][o] \in ext2_dir_entry

\* lab3a prints numbers of blocks and inodes with %d and computes addresses in
\* 32 bits, some in an int: the numbers are such that neither wraps around.  The
\* text of a symbolic link is no number of a block.
ASSUME NumbersAssumption ==
    LET MaxInt == 2147483647
        MaxBlock == MaxInt \div block_size
    IN  \A i \in Images :
        /\ \A n \in DOMAIN i.inodes : \A k \in 0 .. EXT2_N_BLOCKS - 1 :
              i.inodes[n].i_block[k] <= IF i.inodes[n].i_mode = "lnk" THEN MaxInt ELSE MaxBlock
        /\ \A b \in DOMAIN i.pointers : \A k \in DOMAIN i.pointers[b] : i.pointers[b][k] <= MaxBlock
        /\ \A b \in DOMAIN i.entries : \A o \in DOMAIN i.entries[b] :
              i.entries[b][o].inode <= MaxInt

VARIABLES
    image,       \* what is scanned
    program,     \* by which program
    scan,        \* where it is, or how it ended
    inode_no,    \* the inode it is at
    cur_block,   \* lab3a: the direct block of a directory it is at
    cur_entry,   \* lab3a: the offset of the entry in it
    stack        \* lab3a_std: the calls that scan a directory

scanVars == <<csv, image, program, scan, inode_no, cur_block, cur_entry, stack>>

ScanInit ==
    /\ csv = <<>>
    /\ image \in Images
    /\ program \in {"lab3a", "lab3a_std"}
    /\ scan = "start"
    /\ inode_no = 1
    /\ cur_block = 0 /\ cur_entry = 0
    /\ stack = <<>>

inode == image.inodes[inode_no]

\* Mutant: numbers from 0 on.
Unset_FromZero(bitmap) == Without([n \in 1 .. BitmapBits |-> n - 1], bitmap)

\* What the bits that are not set stand for: numbers from 1 on.
Unset(bitmap) == Without([n \in 1 .. BitmapBits |-> n], {bit + 1 : bit \in bitmap})

Pointers(block) == IF block \in DOMAIN image.pointers THEN image.pointers[block] ELSE <<>>

\* Bytes that are no entry have a 0 where the file type of one would be.
NoEntry == [inode |-> 0, rec_len |-> 0, file_type |-> 0, name |-> "name"]
EntryAt(block, offset) ==
    IF block \in DOMAIN image.entries /\ offset \in DOMAIN image.entries[block]
    THEN image.entries[block][offset] ELSE NoEntry

FileFormat(i_mode) ==
    CASE i_mode = "reg" -> "f" [] i_mode = "dir" -> "d" [] i_mode = "lnk" -> "s" [] OTHER -> "?"

Addresses(i) == [k \in 1 .. EXT2_N_BLOCKS |-> i.i_block[k - 1]]

\* What a null pointer stands for.
Span(level) == CASE level = 1 -> 1 [] level = 2 -> 256 [] level = 3 -> 65536

ScanEnded == scan \in {"done", "endless", "exit2", "crashed"}

=============================================================================
