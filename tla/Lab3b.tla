------------------------------- MODULE Lab3b -------------------------------
(***************************************************************************)
(* project3b/lab3b.py: the audit of a file system from its CSV summary,    *)
(* one turn of one of its loops at a time.  What is printed is a sequence  *)
(* of records, of which a reader learns what is wrong with what.           *)
(***************************************************************************)
EXTENDS Lab3Csv

VARIABLES
    audit,                  \* the loop it is in, or how it ended
    turn,                   \* how many turns that loop has made
    my_sp, my_group,        \* the lines of each kind, once they are parsed
    my_bfree, my_inode, my_dir, my_indir,
    my_ifree,               \* the free inodes; my_unallocated_inodes is the same list
    block_dic,              \* the references filed under their blocks
    my_allocated_inodes,    \* the inodes in use
    my_parent_inode,        \* the directory an inode is named in
    my_dict_inode,          \* how often an inode is named
    printed,                \* what is wrong
    my_error                \* whether the exit code is to be 2

summary == <<my_sp, my_group, my_bfree, my_inode, my_dir, my_indir>>
auditVars == <<audit, turn, summary, my_ifree, block_dic, my_allocated_inodes,
               my_parent_inode, my_dict_inode, printed, my_error>>

AuditInit ==
    /\ audit = "parse" /\ turn = 0
    /\ my_sp = <<>> /\ my_group = <<>>
    /\ my_bfree = {} /\ my_inode = <<>> /\ my_dir = <<>> /\ my_indir = <<>>
    /\ my_ifree = <<>> /\ block_dic = <<>> /\ my_allocated_inodes = <<>>
    /\ my_parent_inode = <<>> /\ my_dict_inode = <<>>
    /\ printed = <<>> /\ my_error = FALSE

Kinds == {"SUPERBLOCK", "GROUP", "BFREE", "IFREE", "INODE", "DIRENT", "INDIRECT"}

\* A line of no kind ends the audit, and so does a missing SUPERBLOCK or GROUP,
\* when the first name that was never bound is used.
Readable ==
    LET kinds == {l.line : l \in ToSet(csv)}
    IN  /\ kinds \subseteq Kinds
        /\ {"SUPERBLOCK", "GROUP"} \subseteq kinds

NumberFields(kind) == LET lines == Lines(kind) IN [k \in DOMAIN lines |-> lines[k].number]

Parse ==
    /\ audit = "parse"
    /\ IF Readable
       THEN /\ audit' = "blocks"
            /\ my_sp' = Last(Lines("SUPERBLOCK"))
            /\ my_group' = Last(Lines("GROUP"))
            /\ my_bfree' = ToSet(NumberFields("BFREE"))
            /\ my_ifree' = NumberFields("IFREE")
            /\ my_inode' = Lines("INODE")
            /\ my_dir' = Lines("DIRENT")
            /\ my_indir' = Lines("INDIRECT")
       ELSE /\ audit' = "exit1"
            /\ UNCHANGED <<summary, my_ifree>>
    /\ UNCHANGED <<turn, block_dic, my_allocated_inodes, my_parent_inode,
                   my_dict_inode, printed, my_error>>

-----------------------------------------------------------------------------
(* Blocks.                                                                 *)

start_block ==
    my_group.first_block_inode
    + (my_sp.inode_size * my_group.iid_group) \div my_sp.block_size

\* A mention of a block: what it is mentioned as, by which inode, where.
Reference(level, block, inode, offset) ==
    [level |-> level, block |-> block, inode |-> inode, offset |-> offset]

\* The addresses in an inode: the three at the end are the roots of trees.
AddressLevel(index) == CASE index = 12 -> 1 [] index = 13 -> 2 [] index = 14 -> 3 [] OTHER -> 0
AddressOffset(index) ==
    CASE index = 12 -> 12 [] index = 13 -> 268 [] index = 14 -> 65804 [] OTHER -> 0

\* Short symbolic links have no blocks: their address is text.
InodeReferences(inode) ==
    IF inode.disk_space = 0 /\ inode.file_type = "s"
    THEN <<>>
    ELSE LET refs == [k \in DOMAIN inode.block_address |->
                         Reference(AddressLevel(k - 1), inode.block_address[k],
                                   inode.inode_number, AddressOffset(k - 1))]
         IN  Without(refs, {r \in ToSet(refs) : r.block = 0})

IndirectReference(l) ==
    Reference(l.level, l.reference_number, l.parent_inode_number, l.logical_offset)

Complaint(what, about) == [what |-> what, about |-> about]

TooLarge(block) == block < 0 \/ block > my_sp.num_blocks
Reserved(block) == block < start_block

BlockComplaints(r) ==
    IF r.block \in my_bfree
    THEN <<Complaint("ALLOCATED_BLOCK_ON_FREELIST", r.block)>>
    ELSE (IF TooLarge(r.block) THEN <<Complaint("INVALID", r)>> ELSE <<>>)
         \o (IF Reserved(r.block) THEN <<Complaint("RESERVED", r)>> ELSE <<>>)

Tell(complaints) ==
    /\ printed' = printed \o complaints
    /\ my_error' = (my_error \/ complaints # <<>>)

\* One more turn of a loop that makes limit of them.
Turn(loop, limit) ==
    /\ audit = loop
    /\ turn < limit
    /\ turn' = turn + 1
    /\ UNCHANGED audit

EndLoop(loop, limit, next) ==
    /\ audit = loop
    /\ turn >= limit
    /\ turn' = 0
    /\ audit' = next

inodesUnchanged == UNCHANGED <<my_ifree, my_allocated_inodes, my_parent_inode, my_dict_inode>>

\* The addresses of one inode.
AuditInodeBlocks ==
    /\ Turn("blocks", Len(my_inode))
    /\ \E refs \in {InodeReferences(my_inode[turn + 1])} :
          LET insane == {r \in ToSet(refs) :
                            r.block \in my_bfree \/ TooLarge(r.block) \/ Reserved(r.block)}
          IN  /\ Tell(FlattenSeq([k \in DOMAIN refs |-> BlockComplaints(refs[k])]))
              /\ block_dic' = block_dic \o Without(refs, insane)
    /\ inodesUnchanged

\* Mutant: a pointer is looked at but not filed.
AuditIndirect_Unfiled ==
    /\ Turn("indirect", Len(my_indir))
    /\ Tell(BlockComplaints(IndirectReference(my_indir[turn + 1])))
    /\ UNCHANGED block_dic
    /\ inodesUnchanged

\* One pointer of an indirect block: filed even when it is invalid or reserved.
AuditIndirect ==
    /\ Turn("indirect", Len(my_indir))
    /\ LET r == IndirectReference(my_indir[turn + 1])
       IN  /\ Tell(BlockComplaints(r))
           /\ block_dic' = IF r.block \in my_bfree THEN block_dic ELSE Append(block_dic, r)
    /\ inodesUnchanged

\* All references to a block that has several.  They leave my_error alone.
AuditDuplicates ==
    /\ EndLoop("duplicates", 0, "unreferenced")
    /\ LET Mentions(r) == {k \in DOMAIN block_dic : block_dic[k].block = r.block}
           single == {r \in ToSet(block_dic) : \A j, k \in Mentions(r) : j = k}
           shared == Without(block_dic, single)
       IN  printed' = printed \o [k \in DOMAIN shared |-> Complaint("DUPLICATE", shared[k])]
    /\ UNCHANGED <<block_dic, my_error>>
    /\ inodesUnchanged

AuditUnreferenced ==
    /\ Turn("unreferenced", my_group.bid_group - start_block)
    /\ LET block == start_block + turn
           known == my_bfree \cup {r.block : r \in ToSet(block_dic)}
       IN  Tell(IF block \in known THEN <<>> ELSE <<Complaint("UNREFERENCED_BLOCK", block)>>)
    /\ UNCHANGED block_dic
    /\ inodesUnchanged

-----------------------------------------------------------------------------
(* Inodes.                                                                 *)

blocksUnchanged == UNCHANGED <<block_dic, my_parent_inode, my_dict_inode>>

\* Mutant: an inode in use stays on the free list.
AuditInode_NoRemove ==
    /\ Turn("inodes", Len(my_inode))
    /\ LET inode == my_inode[turn + 1]
           free == Contains(my_ifree, inode.inode_number)
       IN  /\ Tell(IF free THEN <<Complaint("ALLOCATED_INODE_ON_FREELIST", inode.inode_number)>> ELSE <<>>)
           /\ my_allocated_inodes' = Append(my_allocated_inodes, inode)
    /\ UNCHANGED my_ifree
    /\ blocksUnchanged

\* The free list is put right while it is used: my_unallocated_inodes.remove
\* and .append change my_ifree.
AuditInode ==
    /\ Turn("inodes", Len(my_inode))
    /\ LET inode == my_inode[turn + 1]
           n == inode.inode_number
           free == Contains(my_ifree, n)
       IN  IF inode.file_type = "0"
           THEN /\ Tell(IF free THEN <<>> ELSE <<Complaint("UNALLOCATED_INODE_NOT_ON_FREELIST", n)>>)
                /\ my_ifree' = IF free THEN my_ifree ELSE Append(my_ifree, n)
                /\ UNCHANGED my_allocated_inodes
           ELSE /\ Tell(IF free THEN <<Complaint("ALLOCATED_INODE_ON_FREELIST", n)>> ELSE <<>>)
                /\ my_ifree' = IF free THEN RemoveFirst(my_ifree, n) ELSE my_ifree
                /\ my_allocated_inodes' = Append(my_allocated_inodes, inode)
    /\ blocksUnchanged

\* Inodes that no line describes have to be free; the last one is not looked at.
AuditMissing ==
    /\ Turn("missing", my_sp.num_inodes - my_sp.first_inode)
    /\ LET n == my_sp.first_inode + turn
           missing == /\ \A l \in ToSet(my_inode) : l.inode_number # n
                      /\ ~Contains(my_ifree, n)
       IN  /\ Tell(IF missing THEN <<Complaint("UNALLOCATED_INODE_NOT_ON_FREELIST", n)>> ELSE <<>>)
           /\ my_ifree' = IF missing THEN Append(my_ifree, n) ELSE my_ifree
    /\ UNCHANGED my_allocated_inodes
    /\ blocksUnchanged

-----------------------------------------------------------------------------
(* Directories.                                                            *)

ValidInode(n) == n \in 1 .. my_sp.num_inodes

\* The entries that make an inode a member of a directory.
Naming(n) == {k \in DOMAIN my_dir : /\ my_dir[k].entry_reference_inode = n
                                    /\ my_dir[k].entry_name \notin {".", ".."}}

GoodNaming(n) == {k \in Naming(n) : ValidInode(n) /\ ~Contains(my_ifree, n)}

\* The parent of an inode is the directory of the last good entry for it, the
\* root's is the root.
FindParents ==
    /\ EndLoop("parents", 0, "entries")
    /\ LET named == {n \in {e.entry_reference_inode : e \in ToSet(my_dir)} : GoodNaming(n) # {}}
       IN  my_parent_inode' =
               [n \in {2} \cup named |->
                   IF n = 2 THEN 2 ELSE my_dir[Max(GoodNaming(n))].parent_inode]
    /\ UNCHANGED <<my_ifree, block_dic, my_allocated_inodes, my_dict_inode, printed, my_error>>

LinksTo(n) == IF n \in DOMAIN my_dict_inode THEN my_dict_inode[n] ELSE 0

\* ".." in a directory that has no parent is a KeyError, which ends the audit;
\* one that leads elsewhere is printed without setting my_error.
AuditEntry ==
    /\ audit = "entries"
    /\ turn < Len(my_dir)
    /\ turn' = turn + 1
    /\ LET e == my_dir[turn + 1]
           n == e.entry_reference_inode
           parent == e.parent_inode
           unallocated == Contains(my_ifree, n)
           wrong == IF unallocated THEN <<Complaint("UNALLOCATED_INODE", e)>>
                    ELSE IF ~ValidInode(n) THEN <<Complaint("INVALID_INODE", e)>>
                    ELSE <<>>
           self == IF e.entry_name = "." /\ n # parent THEN <<Complaint("'.'", e)>> ELSE <<>>
           orphan == e.entry_name = ".." /\ parent \notin DOMAIN my_parent_inode
           up == IF e.entry_name = ".." /\ ~orphan /\ my_parent_inode[parent] # n
                 THEN <<Complaint("'..'", e)>> ELSE <<>>
       IN  /\ printed' = printed \o wrong \o self \o up
           /\ my_error' = (my_error \/ wrong # <<>> \/ self # <<>>)
           /\ my_dict_inode' =
                  IF wrong # <<>> THEN my_dict_inode
                  ELSE [m \in DOMAIN my_dict_inode \cup {n} |-> LinksTo(m) + IF m = n THEN 1 ELSE 0]
           /\ audit' = IF orphan THEN "exit1" ELSE audit
    /\ UNCHANGED <<my_ifree, block_dic, my_allocated_inodes, my_parent_inode>>

\* Mutant: a wrong link count is printed without setting my_error.
AuditLinks_NoError ==
    /\ Turn("links", Len(my_allocated_inodes))
    /\ LET inode == my_allocated_inodes[turn + 1]
           links == LinksTo(inode.inode_number)
       IN  printed' = printed \o (IF links = inode.linkage_counts THEN <<>> ELSE <<Complaint("LINKS", inode)>>)
    /\ UNCHANGED <<block_dic, my_error>>
    /\ inodesUnchanged

AuditLinks ==
    /\ Turn("links", Len(my_allocated_inodes))
    /\ LET inode == my_allocated_inodes[turn + 1]
           links == LinksTo(inode.inode_number)
       IN  Tell(IF links = inode.linkage_counts THEN <<>> ELSE <<Complaint("LINKS", inode)>>)
    /\ UNCHANGED <<block_dic>>
    /\ inodesUnchanged

NextLoop ==
    /\ \/ EndLoop("blocks", Len(my_inode), "indirect")
       \/ EndLoop("indirect", Len(my_indir), "duplicates")
       \/ EndLoop("unreferenced", my_group.bid_group - start_block, "inodes")
       \/ EndLoop("inodes", Len(my_inode), "missing")
       \/ EndLoop("missing", my_sp.num_inodes - my_sp.first_inode, "parents")
       \/ EndLoop("entries", Len(my_dir), "links")
       \/ EndLoop("links", Len(my_allocated_inodes), IF my_error THEN "exit2" ELSE "exit0")
    /\ UNCHANGED <<block_dic, printed, my_error>>
    /\ inodesUnchanged

Audit ==
    /\ \/ Parse
       \/ /\ \/ AuditInodeBlocks \/ AuditIndirect \/ AuditDuplicates \/ AuditUnreferenced
             \/ AuditInode \/ AuditMissing
             \/ FindParents \/ AuditEntry \/ AuditLinks
             \/ NextLoop
          /\ UNCHANGED summary
    /\ UNCHANGED csv

AuditEnded == audit \in {"exit0", "exit1", "exit2"}

-----------------------------------------------------------------------------
(* Properties.                                                             *)

SuperLines == [line : {"SUPERBLOCK"}, num_blocks : Nat, num_inodes : Nat,
               block_size : Nat \ {0}, inode_size : Nat, first_inode : Nat]
GroupLines == [line : {"GROUP"}, bid_group : Nat, iid_group : Nat, first_block_inode : Nat]
NumberLines == [line : {"BFREE", "IFREE"}, number : Nat]
InodeLines == [line : {"INODE"}, inode_number : Nat, file_type : {"0", "f", "d", "s", "?"},
               linkage_counts : Nat, disk_space : Nat, block_address : Seq(Int)]
EntryLines == [line : {"DIRENT"}, parent_inode : Nat, logical_offset : Nat,
               entry_reference_inode : Nat, entry_name : {".", "..", "name"}]
IndirectLines == [line : {"INDIRECT"}, parent_inode_number : Nat, level : Nat,
                  logical_offset : Nat, block_number : Nat, reference_number : Int]
CsvLines == SuperLines \cup GroupLines \cup NumberLines \cup InodeLines \cup EntryLines
            \cup IndirectLines \cup [line : STRING \ Kinds]

\* What lab3a makes of any image: no inode is described or free twice, and
\* those described have a number that there is.  A summary that is not readable
\* may be any.
Summarised ==
    /\ csv \in Seq(CsvLines)
    /\ Readable =>
          LET inodes == Lines("INODE")
          IN  /\ \A j, k \in DOMAIN inodes :
                    inodes[j].inode_number = inodes[k].inode_number => j = k
              /\ \A l \in ToSet(inodes) :
                    l.inode_number \in 1 .. Last(Lines("SUPERBLOCK")).num_inodes
              /\ IsInjective(NumberFields("IFREE"))

AuditSpec == Summarised /\ AuditInit /\ [][Audit]_<<csv, auditVars>>

References == FlattenSeq([k \in DOMAIN my_inode |-> InodeReferences(my_inode[k])])
              \o [k \in DOMAIN my_indir |-> IndirectReference(my_indir[k])]

Free == ToSet(NumberFields("IFREE"))
Used == {l.inode_number : l \in {m \in ToSet(my_inode) : m.file_type # "0"}}
Unused == {l.inode_number : l \in {m \in ToSet(my_inode) : m.file_type = "0"}}

BlocksConsistent(last_block) ==
    LET refs == References
    IN  /\ \A r \in ToSet(refs) : r.block \in (start_block .. last_block) \ my_bfree
        /\ \A j, k \in DOMAIN refs : refs[j].block = refs[k].block => j = k
        /\ \A b \in start_block .. my_group.bid_group - 1 :
              b \in my_bfree \/ \E r \in ToSet(refs) : r.block = b

InodesConsistent(overlooked) ==
    /\ Used \cap Free = {} /\ Unused \subseteq Free
    /\ \A n \in (my_sp.first_inode .. my_sp.num_inodes) \ overlooked : n \in Used \cup Free

DirectoriesConsistent(overlooked) ==
    /\ \A e \in ToSet(my_dir) :
          /\ e.entry_reference_inode \in Used \cup (overlooked \ Free)
          /\ e.entry_name = "." => e.entry_reference_inode = e.parent_inode
          /\ e.entry_name = ".." =>
                IF e.parent_inode = 2 THEN e.entry_reference_inode = 2
                ELSE \E k \in Naming(e.parent_inode) :
                        my_dir[k].parent_inode = e.entry_reference_inode
    /\ \A inode \in ToSet(my_inode) : inode.file_type # "0" =>
          inode.linkage_counts =
              Cardinality({k \in DOMAIN my_dir : my_dir[k].entry_reference_inode = inode.inode_number})

Consistent(last_block, overlooked) ==
    /\ BlocksConsistent(last_block)
    /\ InodesConsistent(overlooked)
    /\ DirectoriesConsistent(overlooked)

\* A directory is a member of one directory only.
Tree == \A e \in ToSet(my_dir) :
            e.entry_name = ".." => \A j, k \in Naming(e.parent_inode) : j = k

\* Inodes whose line and place on the free list nobody looks for.
Overlooked == (1 .. my_sp.first_inode - 1) \cup {my_sp.num_inodes}

\* The audit keeps silent exactly on consistent file systems: it has nothing to
\* say of a sound one, and what it says nothing of is sound, up to references to
\* the block after the last, the inodes that the loops leave out, and a
\* directory with two parents.
SilentIffConsistent ==
    AuditEnded /\ Readable =>
        LET silent == audit = "exit0" /\ printed = <<>>
        IN  /\ Consistent(my_sp.num_blocks - 1, {}) /\ Tree => silent
            /\ silent => Consistent(my_sp.num_blocks, Overlooked)

\* The exit code is 2 when anything is wrong but shared blocks and ".." entries,
\* else 0; and the audit fails only on a line it cannot read or a directory that
\* no good entry names.
ExitTells ==
    AuditEnded =>
        \/ /\ audit = "exit1"
           /\ \/ ~Readable
              \/ \E e \in ToSet(my_dir) :
                    /\ e.entry_name = ".." /\ e.parent_inode # 2
                    /\ Naming(e.parent_inode) = {} \/ e.parent_inode \notin Used
        \/ audit = IF {p.what : p \in ToSet(printed)} \subseteq {"DUPLICATE", "'..'"}
                   THEN "exit0" ELSE "exit2"

\* Although the list of free inodes changes while it is used, no inode is
\* reported twice, and entries are called unallocated exactly when what they name
\* is described as such, or free and not described, or reported missing.
UnallocatedOnce ==
    AuditEnded /\ Readable =>
        LET Of(kinds) == {k \in DOMAIN printed : printed[k].what \in kinds}
            about(kind) == {printed[k].about : k \in Of({kind})}
            inodes == Of({"UNALLOCATED_INODE_NOT_ON_FREELIST", "ALLOCATED_INODE_ON_FREELIST"})
            unallocated == (Free \ Used) \cup Unused \cup about("UNALLOCATED_INODE_NOT_ON_FREELIST")
        IN  /\ \A j, k \in inodes : printed[j].about = printed[k].about => j = k
            /\ audit # "exit1" =>
                  about("UNALLOCATED_INODE") =
                      {e \in ToSet(my_dir) : e.entry_reference_inode \in unallocated}

=============================================================================
