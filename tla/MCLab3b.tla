------------------------------ MODULE MCLab3b ------------------------------
(***************************************************************************)
(* Lab3b for TLC, on summaries made by hand: a consistent one and all that *)
(* differ from it in one or two places.  Blocks 6 to 9 and inodes 4 to 8   *)
(* are there to be used.                                                   *)
(***************************************************************************)
EXTENDS Lab3b

Sound == [
    bfree |-> <<9>>, ifree |-> <<6, 7, 8>>, type |-> "f", space |-> 2,
    address |-> 8, pointer |-> 0, links |-> <<3, 2, 1>>,
    self |-> 4, up |-> 2, member |-> 4, name |-> 5, second |-> 0, other |-> <<>>]

Places == [
    bfree |-> {<<>>, <<8>>, <<8, 9>>, <<6, 9>>},
    ifree |-> {<<6, 7>>, <<7, 8>>, <<5, 6, 7, 8>>, <<4, 6, 7, 8>>},
    type |-> {"s", "0", "none"}, space |-> {0},
    address |-> {-1, 0, 5, 6, 10, 11}, pointer |-> {-1, 5, 7, 9, 10, 11},
    links |-> {<<2, 3, 1>>, <<2, 2, 2>>, <<3, 2, 0>>, <<3, 3, 1>>, <<3, 1, 1>>, <<4, 2, 1>>},
    self |-> {2, 5}, up |-> {4, 5}, member |-> {2},
    name |-> {0, 1, 3, 4, 6, 8, 9}, second |-> {4, 5, 6},
    other |-> {<<"BLANK">>, <<"SUPERBLOCK">>}]

Change(choices) ==
    UNION {{[c EXCEPT ![p] = v] : v \in Places[p]} : <<c, p>> \in choices \X DOMAIN Sound}

\* The file's data block hangs on the indirect block when there is one.
Summary(c) ==
    (IF c.other = <<"SUPERBLOCK">> THEN <<>> ELSE <<SuperBlock(10, 8, 1024, 128, 4)>>)
    \o (IF c.other = <<"BLANK">> THEN <<[line |-> "BLANK"]>> ELSE <<>>)
    \o <<Group(10, 8, 5)>>
    \o [k \in DOMAIN c.bfree |-> BFree(c.bfree[k])]
    \o [k \in DOMAIN c.ifree |-> IFree(c.ifree[k])]
    \o <<Inode(2, "d", c.links[1], 2, <<6>>), Inode(4, "d", c.links[2], 2, <<7>>)>>
    \o (IF c.type = "none" THEN <<>>
        ELSE <<Inode(5, c.type, c.links[3], c.space, [k \in 1 .. 15 |-> IF k = 13 THEN c.address ELSE 0])>>)
    \o <<DirectoryEntry(2, 0, 2, "."), DirectoryEntry(2, 12, 2, ".."),
         DirectoryEntry(2, 24, c.member, "name"), DirectoryEntry(2, 36, c.name, "name"),
         DirectoryEntry(4, 0, c.self, "."), DirectoryEntry(4, 12, c.up, "..")>>
    \o (IF c.second = 0 THEN <<>> ELSE <<DirectoryEntry(4, 24, c.second, "name")>>)
    \o (IF c.pointer = 0 THEN <<>> ELSE <<Indirect(5, 1, 12, 8, c.pointer)>>)

Init ==
    /\ csv \in {Summary(c) : c \in {Sound} \cup Change({Sound}) \cup Change(Change({Sound}))}
    /\ Summarised
    /\ AuditInit

Spec == Init /\ [][Audit]_<<csv, auditVars>>

=============================================================================
