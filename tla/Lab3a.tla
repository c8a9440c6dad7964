------------------------------- MODULE Lab3a -------------------------------
(***************************************************************************)
(* project3a/lab3a.c: the inodes in order, each with its directory entries *)
(* and its trees of indirect blocks.                                       *)
(***************************************************************************)
EXTENDS Ext2Image

sb == image.super

\* How many are in a last group that need not be full.
InLastGroup(count, per_group) ==
    IF count % per_group = 0 THEN per_group ELSE count % per_group

Summary ==
    /\ scan = "start"
    /\ csv' = << SuperBlock(sb.s_blocks_count, sb.s_inodes_count, block_size,
                            sb.s_inode_size, sb.s_first_ino),
                 Group(InLastGroup(sb.s_blocks_count, sb.s_blocks_per_group),
                       InLastGroup(sb.s_inodes_count, sb.s_inodes_per_group),
                       image.group.bg_inode_table) >>
    /\ scan' = "bitmaps"
    /\ UNCHANGED <<inode_no, cur_block, cur_entry>>

FreeEntries ==
    /\ scan = "bitmaps"
    /\ LET blocks == Unset(image.block_bitmap)
           inodes == Unset(image.inode_bitmap)
       IN  csv' = csv \o [k \in DOMAIN blocks |-> BFree(blocks[k])]
                      \o [k \in DOMAIN inodes |-> IFree(inodes[k])]
    /\ scan' = "inodes"
    /\ UNCHANGED <<inode_no, cur_block, cur_entry>>

InUse(i) == i.i_mode # "none" /\ i.i_links_count # 0

SkipInode ==
    /\ scan = "inodes"
    /\ inode_no <= sb.s_inodes_count
    /\ ~InUse(inode)
    /\ inode_no' = inode_no + 1
    /\ UNCHANGED <<csv, scan, cur_block, cur_entry>>

\* Of a short symbolic link, whose addresses are text, only one is printed.
InodeSummary ==
    /\ scan = "inodes"
    /\ inode_no <= sb.s_inodes_count
    /\ InUse(inode)
    /\ LET format == FileFormat(inode.i_mode)
           addresses == IF format = "s" /\ inode.i_size < 60
                        THEN <<inode.i_block[0]>> ELSE Addresses(inode)
       IN  /\ csv' = Append(csv, Inode(inode_no, format, inode.i_links_count,
                                       inode.i_blocks, addresses))
           /\ scan' = CASE format = "d" -> "directory" [] format = "f" -> "indirect"
                        [] OTHER -> "inodes"
           /\ inode_no' = IF format \in {"d", "f"} THEN inode_no ELSE inode_no + 1
    /\ cur_block' = 0 /\ cur_entry' = 0

EntryLine(offset, entry) ==
    IF entry.inode = 0 THEN <<>>
    ELSE <<DirectoryEntry(inode_no, offset, entry.inode, entry.name)>>

\* Mutant: an entry that is not in use is not stepped over.
ReadEntry_Unused ==
    /\ scan = "directory"
    /\ cur_block < EXT2_N_BLOCKS
    /\ inode.i_block[cur_block] # 0
    /\ cur_entry < block_size
    /\ LET entry == EntryAt(inode.i_block[cur_block], cur_entry)
       IN  /\ entry.file_type # 0
           /\ csv' = csv \o EntryLine(cur_entry, entry)
           /\ cur_entry' = IF entry.inode = 0 THEN cur_entry ELSE cur_entry + entry.rec_len
           /\ scan' = IF entry.rec_len = 0 THEN "endless" ELSE scan
    /\ UNCHANGED <<inode_no, cur_block>>

\* An entry of length 0 is printed again and again.
ReadEntry ==
    /\ scan = "directory"
    /\ cur_block < EXT2_N_BLOCKS
    /\ inode.i_block[cur_block] # 0
    /\ cur_entry < block_size
    /\ LET entry == EntryAt(inode.i_block[cur_block], cur_entry)
       IN  /\ entry.file_type # 0
           /\ csv' = csv \o EntryLine(cur_entry, entry)
           /\ cur_entry' = cur_entry + entry.rec_len
           /\ scan' = IF entry.rec_len = 0 THEN "endless" ELSE scan
    /\ UNCHANGED <<inode_no, cur_block>>

\* The block is used up, or an entry without a type ends it.
NextBlock ==
    /\ scan = "directory"
    /\ cur_block < EXT2_N_BLOCKS
    /\ inode.i_block[cur_block] # 0
    /\ \/ cur_entry >= block_size
       \/ EntryAt(inode.i_block[cur_block], cur_entry).file_type = 0
    /\ cur_block' = cur_block + 1
    /\ cur_entry' = 0
    /\ UNCHANGED <<csv, scan, inode_no>>

\* A hole ends the directory.
EndDirectory ==
    /\ scan = "directory"
    /\ cur_block < EXT2_N_BLOCKS => inode.i_block[cur_block] = 0
    /\ scan' = "indirect"
    /\ UNCHANGED <<csv, inode_no, cur_block, cur_entry>>

\* The pointers in one block.  A call counts its offset up by what null pointers
\* stand for, at level 1 by every pointer.
indirect ==
    [call \in [level : 1 .. 3, cur : Nat, block_offset : Nat] |->
        LET P == Pointers(call.cur)
            Counted(k) == {j \in 1 .. k - 1 : P[j] = 0 \/ call.level = 1}
            Offset(k) == call.block_offset + Span(call.level) * Cardinality(Counted(k))
        IN  FlattenSeq([k \in DOMAIN P |->
                IF P[k] = 0 THEN <<>>
                ELSE <<Indirect(inode_no, call.level, Offset(k), call.cur, P[k])>>])]

\* Each pointer is followed by what is found below it.
indirect1(cur, offset) == indirect[[level |-> 1, cur |-> cur, block_offset |-> offset]]

\* Mutant: below a pointer the offset starts again.
indirect2_Again(cur, offset) ==
    LET lines == indirect[[level |-> 2, cur |-> cur, block_offset |-> offset]]
    IN  FlattenSeq([k \in DOMAIN lines |->
            <<lines[k]>> \o indirect1(lines[k].reference_number, offset)])

indirect2(cur, offset) ==
    LET lines == indirect[[level |-> 2, cur |-> cur, block_offset |-> offset]]
    IN  FlattenSeq([k \in DOMAIN lines |->
            <<lines[k]>> \o indirect1(lines[k].reference_number, lines[k].logical_offset)])
indirect3(cur, offset) ==
    LET lines == indirect[[level |-> 3, cur |-> cur, block_offset |-> offset]]
    IN  FlattenSeq([k \in DOMAIN lines |->
            <<lines[k]>> \o indirect2(lines[k].reference_number, lines[k].logical_offset)])

\* All three roots, also those that are 0: that reads block 0.
IndirectBlocks ==
    /\ scan = "indirect"
    /\ csv' = csv \o indirect1(inode.i_block[EXT2_IND_BLOCK], 12)
                  \o indirect2(inode.i_block[EXT2_DIND_BLOCK], 268)
                  \o indirect3(inode.i_block[EXT2_TIND_BLOCK], 65804)
    /\ scan' = "inodes"
    /\ inode_no' = inode_no + 1
    /\ UNCHANGED <<cur_block, cur_entry>>

AllInodes ==
    /\ scan = "inodes"
    /\ inode_no > sb.s_inodes_count
    /\ scan' = "done"
    /\ UNCHANGED <<csv, inode_no, cur_block, cur_entry>>

Lab3a ==
    /\ program = "lab3a"
    /\ \/ Summary \/ FreeEntries \/ SkipInode \/ InodeSummary
       \/ ReadEntry \/ NextBlock \/ EndDirectory
       \/ IndirectBlocks \/ AllInodes
    /\ UNCHANGED <<image, program, stack>>

=============================================================================
