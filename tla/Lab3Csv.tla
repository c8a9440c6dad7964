------------------------------ MODULE Lab3Csv ------------------------------
(***************************************************************************)
(* The lines that describe an ext2 image: lab3a prints them, lab3b reads   *)
(* them back into objects of these classes.  Fields that nobody computes   *)
(* with are left out: modes, owners, times, sizes, lengths.                *)
(***************************************************************************)
EXTENDS Texts

VARIABLE csv   \* the lines printed so far

SuperBlock(num_blocks, num_inodes, block_size, inode_size, first_inode) ==
    [line |-> "SUPERBLOCK", num_blocks |-> num_blocks, num_inodes |-> num_inodes,
     block_size |-> block_size, inode_size |-> inode_size, first_inode |-> first_inode]

Group(bid_group, iid_group, first_block_inode) ==
    [line |-> "GROUP", bid_group |-> bid_group, iid_group |-> iid_group,
     first_block_inode |-> first_block_inode]

BFree(block) == [line |-> "BFREE", number |-> block]
IFree(inode) == [line |-> "IFREE", number |-> inode]

\* block_address: what the line ends with, the first of them is at index 1.
Inode(inode_number, file_type, linkage_counts, disk_space, block_address) ==
    [line |-> "INODE", inode_number |-> inode_number, file_type |-> file_type,
     linkage_counts |-> linkage_counts, disk_space |-> disk_space,
     block_address |-> block_address]

DirectoryEntry(parent_inode, logical_offset, entry_reference_inode, entry_name) ==
    [line |-> "DIRENT", parent_inode |-> parent_inode, logical_offset |-> logical_offset,
     entry_reference_inode |-> entry_reference_inode, entry_name |-> entry_name]

Indirect(parent_inode_number, level, logical_offset, block_number, reference_number) ==
    [line |-> "INDIRECT", parent_inode_number |-> parent_inode_number, level |-> level,
     logical_offset |-> logical_offset, block_number |-> block_number,
     reference_number |-> reference_number]

\* The lines of one kind, in their order.
Lines(kind) == Without(csv, {l \in ToSet(csv) : l.line # kind})

=============================================================================
