------------------------------ MODULE Lab3aStd ------------------------------
(***************************************************************************)
(* project3a/lab3a_std.c: a second program for the same lines.  It takes   *)
(* an inode for used when its bit is set, skips the reserved ones, and     *)
(* follows the indirect blocks of directories.                             *)
(***************************************************************************)
EXTENDS Ext2Image

CONSTANT Beyond   \* entries that the bytes behind a buffer on the stack may look like

ASSUME BeyondAssumption == Beyond \subseteq ext2_dir_entry

super == image.super

\* How many are in the only group.
InGroup(count, per_group) == IF count < per_group THEN count ELSE per_group

scan_sb ==
    /\ scan = "start"
    /\ IF super.s_magic
       THEN /\ csv' = << SuperBlock(super.s_blocks_count, super.s_inodes_count, block_size,
                                    super.s_inode_size, super.s_first_ino) >>
            /\ scan' = "groups"
       ELSE /\ scan' = "exit2"
            /\ UNCHANGED csv
    /\ UNCHANGED <<inode_no, stack>>

scan_groups ==
    /\ scan = "groups"
    /\ csv' = Append(csv, Group(InGroup(super.s_blocks_count, super.s_blocks_per_group),
                                InGroup(super.s_inodes_count, super.s_inodes_per_group),
                                image.group.bg_inode_table))
    /\ scan' = "bitmaps"
    /\ UNCHANGED <<inode_no, stack>>

\* inode_bitmap has room for a quarter of what is stored in it: from here on the
\* heap is damaged, and any call that uses it may abort.
scan_bitmaps ==
    /\ scan = "bitmaps"
    /\ LET blocks == Unset(image.block_bitmap)
           inodes == Unset(image.inode_bitmap)
       IN  csv' = csv \o [k \in DOMAIN blocks |-> BFree(blocks[k])]
                      \o [k \in DOMAIN inodes |-> IFree(inodes[k])]
    /\ scan' = "inodes"
    /\ inode_no' = 2
    /\ UNCHANGED stack

\* After the root come the inodes that are not reserved.
NextInode(n) == IF n = 2 THEN super.s_first_ino ELSE n + 1

\* The loop began with the root: when s_first_ino leads back to it, itself or by
\* way of inode 1, the same is printed again and again.
GoOn(n) ==
    /\ inode_no' = n
    /\ scan' = IF n = 2 THEN "endless" ELSE "inodes"

\* When the root's bit is not set the loop goes through the reserved inodes.
SkipFree ==
    /\ scan = "inodes"
    /\ inode_no < super.s_inodes_count
    /\ inode_no \in 1 .. BitmapBits /\ inode_no - 1 \notin image.inode_bitmap
    /\ GoOn(inode_no + 1)
    /\ UNCHANGED <<csv, stack>>

\* One call of scan_directory, or of scan_dir_indirects with a level above 0:
\* the pointers it has left, the block whose entries it reads and where, and how
\* far it believes to be in the directory.
NoBlock == -1
Call(level, left, size) ==
    [level |-> level, left |-> left, size |-> size, block |-> NoBlock, at |-> 0]

\* format_time allocates, on the damaged heap.
PrintInode ==
    /\ scan = "inodes"
    /\ inode_no < super.s_inodes_count
    /\ inode_no - 1 \in image.inode_bitmap
    /\ csv' = Append(csv, Inode(inode_no, FileFormat(inode.i_mode), inode.i_links_count,
                                inode.i_blocks, Addresses(inode)))
    /\ scan' \in {IF inode.i_mode = "dir" THEN "directory" ELSE "indirect", "crashed"}
    /\ stack' = IF inode.i_mode = "dir"
                THEN <<Call(0, SubSeq(Addresses(inode), 1, EXT2_NDIR_BLOCKS), 0)>> ELSE <<>>
    /\ UNCHANGED inode_no

top == Last(stack)
SetTop(call) == stack' = Append(Front(stack), call)

\* The pointer to the entry may have left the block: whatever is there is an
\* entry, ends the loop, or cannot be read.
EntriesAtTop ==
    IF top.at + 8 <= block_size THEN {EntryAt(top.block, top.at)} ELSE Beyond \cup {NoEntry}

ReadDirEntry ==
    /\ scan = "directory"
    /\ top.block # NoBlock
    /\ \E entry \in EntriesAtTop :
          IF top.size < inode.i_size /\ entry.file_type # 0
          THEN /\ csv' = IF entry.inode = 0 THEN csv
                         ELSE Append(csv, DirectoryEntry(inode_no, top.size, entry.inode, entry.name))
               /\ SetTop([top EXCEPT !.size = @ + entry.rec_len, !.at = @ + entry.rec_len])
               /\ scan' = IF entry.rec_len = 0 THEN "endless" ELSE scan
          ELSE /\ SetTop([top EXCEPT !.block = NoBlock])
               /\ UNCHANGED <<csv, scan>>
    /\ UNCHANGED inode_no

ReadBeyond ==
    /\ scan = "directory"
    /\ top.block # NoBlock
    /\ top.size < inode.i_size /\ top.at + 8 > block_size
    /\ scan' = "crashed"
    /\ UNCHANGED <<csv, inode_no, stack>>

\* scan_directory reads all its blocks, the others pass over null pointers.  The
\* calls for a deeper level get the size so far and do not return theirs; then
\* the block of pointers is itself read for entries.
NextPointer ==
    /\ scan = "directory"
    /\ top.block = NoBlock
    /\ top.left # <<>>
    /\ LET p == Head(top.left)
           rest == [top EXCEPT !.left = Tail(@)]
           reading == [rest EXCEPT !.block = p, !.at = 0]
       IN  IF p = 0 /\ top.level > 0 THEN SetTop(rest)
           ELSE IF top.level \in {2, 3}
           THEN stack' = Front(stack) \o <<reading, Call(top.level - 1, Pointers(p), top.size)>>
           ELSE SetTop(reading)
    /\ UNCHANGED <<csv, scan, inode_no>>

\* After the direct blocks the three trees, those with a root.
ReturnFromCall ==
    /\ scan = "directory"
    /\ top.block = NoBlock
    /\ top.left = <<>>
    /\ LET roots == [k \in 1 .. 3 |-> inode.i_block[EXT2_N_BLOCKS - k]]
           trees == [k \in 1 .. 3 |-> Call(4 - k, Pointers(roots[k]), top.size)]
           calls == Front(stack) \o
                    (IF top.level > 0 THEN <<>>
                     ELSE FlattenSeq([k \in 1 .. 3 |-> IF roots[k] = 0 THEN <<>> ELSE <<trees[k]>>]))
       IN  /\ stack' = calls
           /\ scan' = IF calls = <<>> THEN "indirect" ELSE scan
    /\ UNCHANGED <<csv, inode_no>>

\* The pointers in one block, if there is one; only null ones are counted.
scan_indirects ==
    [call \in [level : 1 .. 3, block_no : Nat, curr_offset : Nat] |->
        LET P == IF call.block_no = 0 THEN <<>> ELSE Pointers(call.block_no)
            Counted(k) == {j \in 1 .. k - 1 : P[j] = 0}
            Offset(k) == call.curr_offset + Span(call.level) * Cardinality(Counted(k))
        IN  FlattenSeq([k \in DOMAIN P |->
                IF P[k] = 0 THEN <<>>
                ELSE <<Indirect(inode_no, call.level, Offset(k), call.block_no, P[k])>>])]

scan_indirects1(block_no, offset) == scan_indirects[[level |-> 1, block_no |-> block_no, curr_offset |-> offset]]
scan_indirects2(block_no, offset) ==
    LET lines == scan_indirects[[level |-> 2, block_no |-> block_no, curr_offset |-> offset]]
    IN  FlattenSeq([k \in DOMAIN lines |->
            <<lines[k]>> \o scan_indirects1(lines[k].reference_number, lines[k].logical_offset)])
scan_indirects3(block_no, offset) ==
    LET lines == scan_indirects[[level |-> 3, block_no |-> block_no, curr_offset |-> offset]]
    IN  FlattenSeq([k \in DOMAIN lines |->
            <<lines[k]>> \o scan_indirects2(lines[k].reference_number, lines[k].logical_offset)])

ScanIndirects ==
    /\ scan = "indirect"
    /\ csv' = csv \o scan_indirects1(inode.i_block[EXT2_IND_BLOCK], 12)
                  \o scan_indirects2(inode.i_block[EXT2_DIND_BLOCK], 268)
                  \o scan_indirects3(inode.i_block[EXT2_TIND_BLOCK], 65804)
    /\ GoOn(NextInode(inode_no))
    /\ UNCHANGED stack

\* An inode that no bit of the bitmap stands for: one behind the last, or 0 when
\* s_first_ino is 0.  The damaged heap is freed.
CorruptedBitmap ==
    /\ scan = "inodes"
    /\ inode_no < super.s_inodes_count
    /\ inode_no \notin 1 .. BitmapBits
    /\ scan' \in {"exit2", "crashed"}
    /\ UNCHANGED <<csv, inode_no, stack>>

\* The damaged heap is freed.
free_all ==
    /\ scan = "inodes"
    /\ inode_no >= super.s_inodes_count
    /\ scan' \in {"done", "crashed"}
    /\ UNCHANGED <<csv, inode_no, stack>>

Lab3aStd ==
    /\ program = "lab3a_std"
    /\ \/ scan_sb \/ scan_groups \/ scan_bitmaps
       \/ SkipFree \/ PrintInode
       \/ ReadDirEntry \/ ReadBeyond \/ NextPointer \/ ReturnFromCall
       \/ ScanIndirects \/ CorruptedBitmap \/ free_all
    /\ UNCHANGED <<image, program, cur_block, cur_entry>>

=============================================================================
