------------------------------- MODULE MCExt2 -------------------------------
(***************************************************************************)
(* Ext2 for TLC: an intact image of 20 blocks and 8 inodes, and all that   *)
(* differ from it in one or two places.  Inode 2 is the root in block 6, 4 *)
(* a file, 5 a directory in block 14, 6 a symbolic link; block 7 belongs   *)
(* to the file, 8 to 13 and 15 to its tree.                                *)
(***************************************************************************)
EXTENDS Ext2

Tree1 == [roots |-> <<8, 11, 0>>,
          pointers |-> 8 :> <<9, 0, 10>> @@ 11 :> <<0, 12>> @@ 12 :> <<13>>]
Trees == {
    [roots |-> <<0, 0, 0>>, pointers |-> <<>>],
    [roots |-> <<0, 0, 8>>,
     pointers |-> 8 :> <<0, 9>> @@ 9 :> <<10, 0, 11>> @@ 10 :> <<12>> @@ 11 :> <<0, 13, 15>>],
    [roots |-> <<0, 8, 0>>, pointers |-> 8 :> <<9, 10>> @@ 9 :> <<11, 12>> @@ 10 :> <<13>>],
    [roots |-> <<8, 0, 0>>, pointers |-> 8 :> <<9, 9>>],
    [roots |-> <<8, 8, 0>>, pointers |-> 8 :> <<8>>],
    [roots |-> <<8, 0, 0>>, pointers |-> 8 :> <<5, 20, 25, 14>>]}

Base == [
    tree |-> Tree1, mode |-> "reg", links |-> 1, flip |-> 0, iflip |-> 0, boot |-> <<0>>,
    magic |-> TRUE, target |-> 6, length |-> 976, kind |-> 1, root |-> "one", size |-> 1024,
    up |-> 2, last |-> "free", link |-> "short", count |-> 8, first |-> 4]

Places == [
    tree |-> Trees, mode |-> {"none", "other", "dir"}, links |-> {0, 2}, flip |-> {7, 13, 19},
    iflip |-> {1, 2, 4, 7, 8}, boot |-> {<<0, 7>>}, magic |-> {FALSE},
    target |-> {0, 4, 7, 9}, length |-> {0, 2000}, kind |-> {0},
    root |-> {"two", "tree", "deep"}, size |-> {0, 2048}, up |-> {5}, last |-> {"used"},
    link |-> {"long"}, count |-> {26}, first |-> {0, 1, 2}]

\* The second change is to what the first is likely to be confused by.
Change(choices, places) ==
    UNION {{[c EXCEPT ![p] = v] : v \in Places[p]} : <<c, p>> \in choices \X places}
Selected == {Base} \cup Change({Base}, DOMAIN Base)
                  \cup Change(Change({Base}, DOMAIN Base), {"tree", "root", "last"})
                  \cup Change(Change({Base}, {"first"}), {"iflip"})

Entry(n, length, type, name) == [inode |-> n, rec_len |-> length, file_type |-> type, name |-> name]

INodeOf(mode, size, links, blocks, addresses) ==
    [i_mode |-> mode, i_size |-> size, i_links_count |-> links, i_blocks |-> blocks,
     i_block |-> [k \in 0 .. 14 |-> IF k \in DOMAIN addresses THEN addresses[k] ELSE 0]]

RootBlocks(root) == CASE root = "one" -> 0 :> 6
                      [] root = "two" -> 0 :> 6 @@ 1 :> 16
                      [] root = "tree" -> 0 :> 6 @@ 12 :> 17
                      [] root = "deep" -> 0 :> 6 @@ 13 :> 18

Image(c) ==
    LET tree == {c.tree.roots[k] : k \in 1 .. 3}
                \cup UNION {ToSet(c.tree.pointers[b]) : b \in DOMAIN c.tree.pointers}
        used == (1 .. 7) \cup {14} \cup {b \in tree : b \in 8 .. 19} \cup (20 .. 24)
                \cup CASE c.root = "one" -> {} [] c.root = "two" -> {16}
                       [] c.root = "tree" -> {16, 17} [] c.root = "deep" -> 16 .. 18
                \cup IF c.link = "long" THEN {19} ELSE {}
        inodes == (1 .. 6) \cup IF c.last = "used" THEN {8} ELSE {}
        Flip(set, x) == (set \ {x}) \cup ({x} \ (set \cup {0}))
    IN  [super |-> [s_blocks_count |-> 20, s_inodes_count |-> c.count, s_inode_size |-> 128,
                    s_blocks_per_group |-> 8192, s_inodes_per_group |-> c.count,
                    s_first_ino |-> c.first, s_magic |-> c.magic],
         group |-> [bg_inode_table |-> 5],
         block_bitmap |-> {b - 1 : b \in Flip(used, c.flip)},
         inode_bitmap |-> {n - 1 : n \in Flip(inodes, c.iflip) \cup (9 .. 24)},
         inodes |-> [n \in 1 .. c.count |->
             CASE n = 2 -> INodeOf("dir", IF c.root = "one" THEN c.size ELSE 2048, 3, 2, RootBlocks(c.root))
               [] n = 4 -> INodeOf(c.mode, 5000, c.links, 18, 0 :> 7 @@ 12 :> c.tree.roots[1]
                                           @@ 13 :> c.tree.roots[2] @@ 14 :> c.tree.roots[3])
               [] n = 5 -> INodeOf("dir", 1024, 2, 2, 0 :> 14)
               [] n = 6 -> IF c.link = "short" THEN INodeOf("lnk", 52, 1, 0, 0 :> 1886221359 @@ 12 :> 1886221359)
                           ELSE INodeOf("lnk", 100, 1, 2, 0 :> 19)
               [] n = 8 /\ c.last = "used" -> INodeOf("reg", 0, 1, 0, <<>>)
               [] OTHER -> INodeOf("none", 0, 0, 0, <<>>)],
         pointers |-> 0 :> c.boot @@ 17 :> <<0, 16>> @@ 18 :> <<17>> @@ c.tree.pointers,
         entries |->
             6 :> (0 :> Entry(2, 12, 1, ".") @@ 12 :> Entry(2, 12, 1, "..")
                   @@ 24 :> Entry(5, 12, 1, "name") @@ 36 :> Entry(4, 12, c.kind, "name")
                   @@ 48 :> Entry(c.target, c.length, 1, "name"))
             @@ 14 :> (0 :> Entry(5, 12, 1, ".")
                       @@ IF c.last = "used"
                          THEN 12 :> Entry(c.up, 12, 1, "..") @@ 24 :> Entry(8, 1000, 1, "name")
                          ELSE 12 :> Entry(c.up, 1012, 1, ".."))
             @@ 16 :> (0 :> Entry(0, 1024, 1, "name"))]

MCImages == {Image(c) : c \in Selected}

MCBeyond == {Entry(7, 1024, 1, "name")}

=============================================================================
